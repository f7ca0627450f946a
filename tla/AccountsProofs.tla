--------------------------- MODULE AccountsProofs ----------------------------
(***************************************************************************)
(* Who is logged in, for every number of clients and accounts.  All that   *)
(* matters is who holds which place in the table (logged) and how many     *)
(* users an account is thought to have (inuse): most steps change one      *)
(* client and one account, or none.                                        *)
(*                                                                         *)
(* Then the table and its file.  What is listed, written and read back is  *)
(* a matter of how many accounts stand before a place in the table.        *)
(***************************************************************************)
EXTENDS Accounts, FiniteSetTheorems, WellFoundedInduction, TLAPS

(* A record with the fields of an account, of a client.                    *)
IsAccount(a) ==
  a = [state |-> a.state, key |-> a.key, name |-> a.name,
       failures |-> a.failures, inuse |-> a.inuse]

IsClient(c) ==
  c = [state |-> c.state, logged |-> c.logged, login |-> c.login,
       spectator |-> c.spectator, realip |-> c.realip]

AccountsShape ==
  /\ accounts = [i \in Spots |-> accounts[i]]
  /\ \A i \in Spots : IsAccount(accounts[i]) /\ accounts[i].inuse \in Int
  /\ num_accounts \in 0 .. MAX_ACCOUNTS

FileShape ==
  /\ file \in Seq({file[n] : n \in DOMAIN file})
  /\ Len(file) <= MAX_ACCOUNTS

(* Out of turn, a client could hold an account before or after it is       *)
(* connected.                                                              *)
ClientsShape ==
  /\ clients = [s \in Slots |-> clients[s]]
  /\ \A s \in Slots :
       /\ IsClient(clients[s])
       /\ clients[s].logged \in Spots \cup {0, Exempt}
       /\ clients[s].logged \in Spots => clients[s].state = "connected"
       /\ clients[s].realip \notin Names

AccountsInv == AccountsShape /\ FileShape /\ ClientsShape /\ NeverUndercounted

(* Spots and slots are numbers.                                            *)
LEMMA Numbers ==
  /\ Spots \subseteq Nat /\ Slots \subseteq Nat
  /\ 0 \notin Spots /\ Exempt \notin Spots
BY AccountsAssumption DEF Spots, Slots, Exempt

(* Some numbers have a least one.                                          *)
LEMMA LeastIn ==
  ASSUME NEW S, S \subseteq Nat, S # {}
  PROVE  Least(S) \in S /\ \A j \in S : Least(S) <= j
<1> DEFINE R == {pair \in Nat \X Nat : pair[1] < pair[2]}
<1>1. IsWellFoundedOn(R, Nat)
  BY NatLessThanWellFounded DEF OpToRel
<1> HIDE DEF R
<1>2. \E i \in S : \A j \in S : ~ (<<j, i>> \in R)
  BY <1>1, WFMin
<1>3. PICK i \in S : \A j \in S : ~ (<<j, i>> \in R)
  BY <1>2
<1>4. \A j \in S : ~ (j < i)
  <2>1. \A x, y \in Nat : x < y => <<x, y>> \in R
    BY DEF R
  <2> QED
    BY <1>3, <2>1
<1>5. \A j \in S : i <= j
  BY <1>4
<1> QED
  BY <1>5 DEF Least

(* Sets of slots are finite, and a subset has no more members.             *)
LEMMA SlotSets ==
  ASSUME NEW S, S \subseteq Slots
  PROVE  /\ IsFiniteSet(S)
         /\ Cardinality(S) \in Nat
         /\ \A T : T \subseteq S => Cardinality(T) <= Cardinality(S)
<1>1. IsFiniteSet(Slots)
  BY AccountsAssumption, FS_Interval DEF Slots
<1>2. IsFiniteSet(S)
  BY <1>1, FS_Subset
<1> QED
  BY <1>2, FS_Subset, FS_CardinalityType

(* The users of an account, when nobody comes to hold it.                  *)
LEMMA FewerUsers ==
  ASSUME NEW i, UsersOf(i)' \subseteq UsersOf(i)
  PROVE  Cardinality(UsersOf(i)') <= Cardinality(UsersOf(i))
         /\ Cardinality(UsersOf(i)) \in Nat /\ Cardinality(UsersOf(i)') \in Nat
<1>1. UsersOf(i) \subseteq Slots /\ UsersOf(i)' \subseteq Slots
  BY DEF UsersOf
<1> QED
  BY <1>1, SlotSets

(* Nobody comes to hold an account, and no inuse changes.                  *)
LEMMA Staying ==
  ASSUME AccountsInv,
         \A i \in Spots : accounts'[i].inuse = accounts[i].inuse,
         \A s \in Slots : clients'[s].logged \in Spots
                          => clients'[s].logged = clients[s].logged
  PROVE  NeverUndercounted'
<1> SUFFICES ASSUME NEW i \in Spots
             PROVE  Cardinality(UsersOf(i)') <= accounts'[i].inuse
  BY DEF NeverUndercounted
<1>1. UsersOf(i)' \subseteq UsersOf(i)
  BY DEF UsersOf
<1>2. Cardinality(UsersOf(i)) <= accounts[i].inuse
  BY DEF AccountsInv, NeverUndercounted
<1>3. accounts[i].inuse \in Int
  BY DEF AccountsInv, AccountsShape
<1> QED
  BY <1>1, <1>2, <1>3, FewerUsers

(* A client logs out, if it was logged in.                                 *)
LEMMA Leaving ==
  ASSUME AccountsInv, NEW s \in Slots,
         \A i \in Spots : accounts'[i].inuse =
           IF clients[s].logged = i THEN accounts[i].inuse - 1 ELSE accounts[i].inuse,
         clients'[s].logged \notin Spots,
         \A t \in Slots \ {s} : clients'[t].logged = clients[t].logged
  PROVE  NeverUndercounted'
<1> SUFFICES ASSUME NEW i \in Spots
             PROVE  Cardinality(UsersOf(i)') <= accounts'[i].inuse
  BY DEF NeverUndercounted
<1>1. UsersOf(i)' = UsersOf(i) \ {s}
  BY DEF UsersOf
<1>2. Cardinality(UsersOf(i)) <= accounts[i].inuse
  BY DEF AccountsInv, NeverUndercounted
<1>3. accounts[i].inuse \in Int
  BY DEF AccountsInv, AccountsShape
<1>4. UsersOf(i) \subseteq Slots
  BY DEF UsersOf
<1>5. IsFiniteSet(UsersOf(i)) /\ Cardinality(UsersOf(i)) \in Nat
  BY <1>4, SlotSets
<1>6. Cardinality(UsersOf(i) \ {s}) =
        IF s \in UsersOf(i) THEN Cardinality(UsersOf(i)) - 1 ELSE Cardinality(UsersOf(i))
  BY <1>5, FS_RemoveElement
<1>7. s \in UsersOf(i) <=> clients[s].logged = i
  BY DEF UsersOf
<1> QED
  BY <1>1, <1>2, <1>3, <1>5, <1>6, <1>7

(* A client that was not logged in logs in.                                *)
LEMMA Entering ==
  ASSUME AccountsInv, NEW s \in Slots, NEW k \in Spots,
         \A i \in Spots : accounts'[i].inuse =
           IF i = k THEN accounts[i].inuse + 1 ELSE accounts[i].inuse,
         clients'[s].logged = k, clients[s].logged \notin Spots,
         \A t \in Slots \ {s} : clients'[t].logged = clients[t].logged
  PROVE  NeverUndercounted'
<1> SUFFICES ASSUME NEW i \in Spots
             PROVE  Cardinality(UsersOf(i)') <= accounts'[i].inuse
  BY DEF NeverUndercounted
<1>1. UsersOf(i)' = IF i = k THEN UsersOf(i) \cup {s} ELSE UsersOf(i)
  BY DEF UsersOf
<1>2. Cardinality(UsersOf(i)) <= accounts[i].inuse
  BY DEF AccountsInv, NeverUndercounted
<1>3. accounts[i].inuse \in Int
  BY DEF AccountsInv, AccountsShape
<1>4. UsersOf(i) \subseteq Slots
  BY DEF UsersOf
<1>5. IsFiniteSet(UsersOf(i)) /\ Cardinality(UsersOf(i)) \in Nat
  BY <1>4, SlotSets
<1>6. Cardinality(UsersOf(i) \cup {s}) =
        IF s \in UsersOf(i) THEN Cardinality(UsersOf(i)) ELSE Cardinality(UsersOf(i)) + 1
  BY <1>5, FS_AddElement
<1> QED
  BY <1>1, <1>2, <1>3, <1>5, <1>6

-----------------------------------------------------------------------------
(* The fields of records.                                                  *)

LEMMA AccountFields ==
  ASSUME NEW a, IsAccount(a), NEW x
  PROVE  /\ IsAccount([a EXCEPT !.state = x]) /\ [a EXCEPT !.state = x].inuse = a.inuse
         /\ IsAccount([a EXCEPT !.key = x]) /\ [a EXCEPT !.key = x].inuse = a.inuse
         /\ IsAccount([a EXCEPT !.name = x]) /\ [a EXCEPT !.name = x].inuse = a.inuse
         /\ IsAccount([a EXCEPT !.failures = x]) /\ [a EXCEPT !.failures = x].inuse = a.inuse
         /\ IsAccount([a EXCEPT !.inuse = x]) /\ [a EXCEPT !.inuse = x].inuse = x
         /\ [a EXCEPT !.failures = x].key = a.key
         /\ [a EXCEPT !.inuse = x].key = a.key
         /\ [a EXCEPT !.state = x].key = a.key
BY DEF IsAccount

LEMMA EnteredShape ==
  ASSUME NEW a, IsAccount(a)
  PROVE  /\ IsAccount(Entered(a)) /\ Entered(a).inuse = a.inuse + 1
         /\ Entered(a).key = a.key
<1> DEFINE b == [a EXCEPT !.failures = 0]
<1>1. IsAccount(b) /\ b.inuse = a.inuse /\ b.key = a.key
  BY AccountFields
<1> HIDE DEF b
<1>2. /\ IsAccount([b EXCEPT !.inuse = a.inuse + 1])
      /\ [b EXCEPT !.inuse = a.inuse + 1].inuse = a.inuse + 1
      /\ [b EXCEPT !.inuse = a.inuse + 1].key = b.key
  BY <1>1, AccountFields, ZenonT(60)
<1>3. Entered(a) = [b EXCEPT !.inuse = a.inuse + 1]
  BY <1>1 DEF Entered, b, IsAccount
<1> QED
  BY <1>1, <1>2, <1>3

LEMMA FailedShape ==
  ASSUME NEW a, IsAccount(a)
  PROVE  IsAccount(Failed(a)) /\ Failed(a).inuse = a.inuse
BY DEF Failed, IsAccount

(* SV_Logout.                                                              *)
LEMMA LoggedOutShape ==
  ASSUME NEW c, IsClient(c)
  PROVE  /\ IsClient(LoggedOut(c)) /\ LoggedOut(c).logged \notin Spots
         /\ c.logged \notin Spots => LoggedOut(c).logged = c.logged
         /\ c.logged \in Spots => LoggedOut(c).logged = 0
         /\ LoggedOut(c).realip = c.realip /\ LoggedOut(c).state = c.state
<1>1. CASE c.logged \in Spots
  <2>1. LoggedOut(c) = [c EXCEPT !.logged = 0, !.login = NoName]
    BY <1>1 DEF LoggedOut
  <2>2. LoggedOut(c) = [state |-> c.state, logged |-> 0, login |-> NoName,
                        spectator |-> c.spectator, realip |-> c.realip]
    BY <2>1 DEF IsClient
  <2> QED
    BY <1>1, <2>2, Numbers DEF IsClient
<1>2. CASE c.logged \notin Spots
  BY <1>2 DEF LoggedOut
<1> QED
  BY <1>1, <1>2

LEMMA ReleasedShape ==
  ASSUME AccountsInv, NEW s \in Slots
  PROVE  LET table == Released(clients[s])
         IN  /\ table = [i \in Spots |-> table[i]]
             /\ \A i \in Spots : /\ IsAccount(table[i]) /\ table[i].inuse \in Int
                                 /\ table[i].inuse = IF clients[s].logged = i
                                                    THEN accounts[i].inuse - 1
                                                    ELSE accounts[i].inuse
<1> DEFINE c == clients[s]
           table == Released(c)
<1>1. /\ accounts = [i \in Spots |-> accounts[i]]
      /\ \A i \in Spots : IsAccount(accounts[i]) /\ accounts[i].inuse \in Int
  BY DEF AccountsInv, AccountsShape
<1>2. CASE c.logged \in Spots
  <2>1. table = [i \in Spots |->
                   IF i = c.logged THEN [accounts[i] EXCEPT !.inuse = @ - 1] ELSE accounts[i]]
    BY <1>1, <1>2 DEF Released
  <2>2. \A i \in Spots :
          /\ IsAccount([accounts[i] EXCEPT !.inuse = @ - 1])
          /\ [accounts[i] EXCEPT !.inuse = @ - 1].inuse = accounts[i].inuse - 1
    BY <1>1, AccountFields, ZenonT(60)
  <2> QED
    BY <1>1, <2>1, <2>2
<1>3. CASE c.logged \notin Spots
  BY <1>1, <1>3 DEF Released
<1> QED
  BY <1>2, <1>3

(* What is written to the file is a sequence that is not too long.         *)
LEMMA WrittenShape ==
  ASSUME NEW table, NEW num \in 0 .. MAX_ACCOUNTS, file' = Written(table, num)
  PROVE  FileShape'
<1> DEFINE a(n) == table[Place(table, n)]
           E(n) == [key |-> a(n).key, name |-> a(n).name, state |-> a(n).state,
                    failures |-> IF a(n).key \in Names THEN a(n).failures ELSE 0]
<1>1. file' = [n \in 1 .. num |-> E(n)]
  BY DEF Written
<1> HIDE DEF a, E
<1>2. num \in Nat /\ num <= MAX_ACCOUNTS
  BY AccountsAssumption
<1>3. file' \in Seq({file'[n] : n \in DOMAIN file'}) /\ Len(file') = num
  BY <1>1, <1>2
<1> QED
  BY <1>2, <1>3 DEF FileShape

-----------------------------------------------------------------------------
(* One client changes.                                                     *)
LEMMA ClientStep ==
  ASSUME ClientsShape, NEW s \in Slots, NEW d,
         clients' = [clients EXCEPT ![s] = d],
         IsClient(d), d.logged \in Spots \cup {0, Exempt},
         d.logged \in Spots => d.state = "connected", d.realip \notin Names
  PROVE  /\ ClientsShape'
         /\ clients'[s] = d
         /\ \A t \in Slots \ {s} : clients'[t] = clients[t]
<1>1. clients' = [t \in Slots |-> IF t = s THEN d ELSE clients[t]]
  BY DEF ClientsShape
<1>2. clients'[s] = d /\ \A t \in Slots \ {s} : clients'[t] = clients[t]
  BY <1>1
<1>3. clients' = [t \in Slots |-> clients'[t]]
  BY <1>1
<1>4. ASSUME NEW t \in Slots
      PROVE  /\ IsClient(clients'[t])
             /\ clients'[t].logged \in Spots \cup {0, Exempt}
             /\ clients'[t].logged \in Spots => clients'[t].state = "connected"
             /\ clients'[t].realip \notin Names
  <2>1. CASE t = s
    BY <1>2, <2>1
  <2>2. CASE t # s
    BY <1>2, <2>2 DEF ClientsShape
  <2> QED
    BY <2>1, <2>2
<1> QED
  BY <1>2, <1>3, <1>4 DEF ClientsShape

LEMMA GoneShape == IsClient(Gone) /\ Gone.logged = 0 /\ Gone.realip \notin Names
BY AccountsAssumption DEF Gone, IsClient

(* Nobody who logs in is somebody who did not log in.                      *)
LEMMA NobodyComes ==
  ASSUME \A s \in Slots : clients'[s].logged \in Spots
                          => clients'[s].logged = clients[s].logged
  PROVE  ComesAlone
BY DEF ComesAlone

(* One account changes in other fields than inuse, or none does.           *)
LEMMA AccountStep ==
  ASSUME AccountsShape, NEW i \in Spots, NEW b,
         accounts' = [accounts EXCEPT ![i] = b], num_accounts' \in 0 .. MAX_ACCOUNTS,
         IsAccount(b), b.inuse \in Int
  PROVE  /\ AccountsShape'
         /\ accounts'[i] = b
         /\ \A j \in Spots \ {i} : accounts'[j] = accounts[j]
<1>1. accounts' = [j \in Spots |-> IF j = i THEN b ELSE accounts[j]]
  BY DEF AccountsShape
<1>2. accounts'[i] = b /\ \A j \in Spots \ {i} : accounts'[j] = accounts[j]
  BY <1>1
<1>3. accounts' = [j \in Spots |-> accounts'[j]]
  BY <1>1
<1>4. \A j \in Spots : IsAccount(accounts'[j]) /\ accounts'[j].inuse \in Int
  BY <1>2 DEF AccountsShape
<1> QED
  BY <1>2, <1>3, <1>4 DEF AccountsShape

LEMMA Unchanged ==
  ASSUME AccountsShape, FileShape, UNCHANGED <<accounts, num_accounts, file>>
  PROVE  AccountsShape' /\ FileShape'
BY DEF AccountsShape, FileShape, IsAccount

(* checklogin.                                                             *)
LEMMA LoginFacts ==
  ASSUME NEW key, NEW right, With(key) # {}
  PROVE  /\ Least(With(key)) \in Spots
         /\ accounts[Least(With(key))].key = key
         /\ (CheckLogin(key, right) = "yes" /\ key \in Names)
            => accounts[Least(With(key))].inuse = 0
<1>1. With(key) \subseteq Spots /\ \A i \in With(key) : accounts[i].key = key
  BY DEF With
<1>2. Least(With(key)) \in With(key)
  BY <1>1, Numbers, LeastIn
<1> QED
  BY <1>1, <1>2 DEF CheckLogin

LEMMA NotYes ==
  ASSUME NEW key, NEW right
  PROVE  /\ CheckLogin(key, right) = "yes" => With(key) # {}
         /\ CheckLogin(key, right) \in {"yes", "wrong", "blocked", "in use"}
BY DEF CheckLogin

(* What a login does to the table.                                         *)
LEMMA AfterLoginShape ==
  ASSUME AccountsInv, NEW key, NEW right, NEW result,
         result = CheckLogin(key, right), AfterLogin(key, result),
         UNCHANGED num_accounts
  PROVE  /\ AccountsShape' /\ FileShape'
         /\ \A i \in Spots : accounts'[i].inuse =
              IF result = "yes" /\ i = Least(With(key))
              THEN accounts[i].inuse + 1 ELSE accounts[i].inuse
         /\ result = "yes" => accounts'[Least(With(key))].key = key
<1> DEFINE k == Least(With(key))
<1>1. CASE With(key) = {} \/ result \in {"in use", "blocked"}
  <2>1. UNCHANGED <<accounts, num_accounts, file>>
    BY <1>1 DEF AfterLogin
  <2>2. result # "yes"
    BY <1>1, NotYes
  <2> QED
    BY <2>1, <2>2, Unchanged DEF AccountsInv
<1>2. CASE With(key) # {} /\ result = "yes"
  <2>1. k \in Spots /\ accounts[k].key = key
    BY <1>2, LoginFacts
  <2>2. accounts' = [accounts EXCEPT ![k] = Entered(accounts[k])] /\ UNCHANGED file
    BY <1>2 DEF AfterLogin
  <2>3. IsAccount(accounts[k]) /\ accounts[k].inuse \in Int
    BY <2>1 DEF AccountsInv, AccountsShape
  <2>4. /\ IsAccount(Entered(accounts[k])) /\ Entered(accounts[k]).inuse = accounts[k].inuse + 1
        /\ Entered(accounts[k]).key = key /\ Entered(accounts[k]).inuse \in Int
    BY <2>1, <2>3, EnteredShape
  <2>5. num_accounts' \in 0 .. MAX_ACCOUNTS
    BY DEF AccountsInv, AccountsShape
  <2>6. /\ AccountsShape' /\ accounts'[k] = Entered(accounts[k])
        /\ \A j \in Spots \ {k} : accounts'[j] = accounts[j]
    BY <2>1, <2>2, <2>3, <2>4, <2>5, AccountStep DEF AccountsInv
  <2>7. FileShape'
    BY <2>2 DEF AccountsInv, FileShape
  <2> QED
    BY <1>2, <2>4, <2>6, <2>7
<1>3. CASE With(key) # {} /\ result \notin {"in use", "blocked", "yes"}
  <2>1. k \in Spots
    BY <1>3, LoginFacts
  <2>2. /\ accounts' = [accounts EXCEPT ![k] = Failed(accounts[k])]
        /\ file' = Written(accounts', num_accounts)
    BY <1>3 DEF AfterLogin
  <2>3. IsAccount(accounts[k]) /\ accounts[k].inuse \in Int
    BY <2>1 DEF AccountsInv, AccountsShape
  <2>4. IsAccount(Failed(accounts[k])) /\ Failed(accounts[k]).inuse = accounts[k].inuse
    BY <2>3, FailedShape
  <2>5. num_accounts' \in 0 .. MAX_ACCOUNTS /\ num_accounts \in 0 .. MAX_ACCOUNTS
    BY DEF AccountsInv, AccountsShape
  <2>6. /\ AccountsShape' /\ accounts'[k] = Failed(accounts[k])
        /\ \A j \in Spots \ {k} : accounts'[j] = accounts[j]
    BY <2>1, <2>2, <2>3, <2>4, <2>5, AccountStep DEF AccountsInv
  <2>7. FileShape'
    BY <2>2, <2>5, WrittenShape
  <2> QED
    BY <1>3, <2>3, <2>4, <2>6, <2>7
<1> QED
  BY <1>1, <1>2, <1>3

-----------------------------------------------------------------------------
(* The commands of clients.                                                *)

LEMMA ConnectStep ==
  ASSUME AccountsInv, NEW s \in Slots, NEW realip \in Addresses \cup {Elsewhere},
         NEW spectator, Connect(s, realip, spectator)
  PROVE  AccountsInv' /\ ComesAlone
<1> DEFINE d == [Gone EXCEPT !.state = "preconnected", !.realip = realip,
                             !.spectator = spectator]
<1>1. IsClient(d) /\ d.logged = 0 /\ d.realip = realip
  <2> DEFINE e == [Gone EXCEPT !.state = "preconnected"]
             f == [e EXCEPT !.realip = realip]
  <2>1. IsClient(e) /\ e.logged = 0
    BY GoneShape DEF IsClient
  <2>2. d = [f EXCEPT !.spectator = spectator]
    OBVIOUS
  <2> HIDE DEF d, e
  <2>3. IsClient(f) /\ f.logged = 0 /\ f.realip = realip
    BY <2>1 DEF IsClient
  <2> HIDE DEF f
  <2> QED
    BY <2>2, <2>3 DEF IsClient
<1>2. clients' = [clients EXCEPT ![s] = d] /\ UNCHANGED <<accounts, num_accounts, file>>
  BY DEF Connect
<1>3. realip \notin Names
  BY AccountsAssumption
<1> HIDE DEF d
<1>4. /\ ClientsShape' /\ clients'[s] = d
      /\ \A t \in Slots \ {s} : clients'[t] = clients[t]
  BY <1>1, <1>2, <1>3, Numbers, ClientStep DEF AccountsInv
<1>5. AccountsShape' /\ FileShape'
  BY <1>2, Unchanged DEF AccountsInv
<1>6. \A t \in Slots : clients'[t].logged \in Spots => clients'[t].logged = clients[t].logged
  BY <1>1, <1>4, Numbers
<1>7. NeverUndercounted'
  BY <1>2, <1>6, Staying
<1> QED
  BY <1>4, <1>5, <1>6, <1>7, NobodyComes DEF AccountsInv

(* A client that holds no account asks to log in and the answer is given.  *)
LEMMA LoginStep ==
  ASSUME AccountsInv, NEW s \in Slots, NEW key, NEW right, NEW d,
         AfterLogin(key, CheckLogin(key, right)), UNCHANGED num_accounts,
         clients[s].logged \notin Spots,
         clients' = [clients EXCEPT ![s] = d],
         IsClient(d), d.state = "connected", d.realip \notin Names,
         d.logged = IF CheckLogin(key, right) = "yes" THEN Least(With(key)) ELSE 0
  PROVE  AccountsInv' /\ ComesAlone
<1> DEFINE result == CheckLogin(key, right)
           k == Least(With(key))
<1>1. /\ AccountsShape' /\ FileShape'
      /\ \A i \in Spots : accounts'[i].inuse =
           IF result = "yes" /\ i = k THEN accounts[i].inuse + 1 ELSE accounts[i].inuse
      /\ result = "yes" => accounts'[k].key = key
  BY AfterLoginShape
<1>2. result = "yes" => /\ k \in Spots
                        /\ key \in Names => accounts[k].inuse = 0
  BY NotYes, LoginFacts
<1>3. d.logged \in Spots \cup {0, Exempt}
  BY <1>2
<1>4. /\ ClientsShape' /\ clients'[s] = d
      /\ \A t \in Slots \ {s} : clients'[t] = clients[t]
  BY <1>3, ClientStep DEF AccountsInv
<1>5. CASE result = "yes"
  <2>1. k \in Spots /\ clients'[s].logged = k
    BY <1>2, <1>4, <1>5
  <2>2. \A i \in Spots : accounts'[i].inuse =
           IF i = k THEN accounts[i].inuse + 1 ELSE accounts[i].inuse
    BY <1>1, <1>5
  <2>3. NeverUndercounted'
    BY <1>4, <2>1, <2>2, Entering
  <2>4. ASSUME key \in Names
        PROVE  \A t \in Slots : clients[t].logged # k
    <3>1. Cardinality(UsersOf(k)) <= 0
      BY <1>2, <1>5, <2>1, <2>4 DEF AccountsInv, NeverUndercounted
    <3>2. UsersOf(k) \subseteq Slots
      BY DEF UsersOf
    <3>3. IsFiniteSet(UsersOf(k)) /\ Cardinality(UsersOf(k)) = 0
      BY <3>1, <3>2, SlotSets
    <3>4. UsersOf(k) = {}
      BY <3>3, FS_EmptySet
    <3> QED
      BY <3>4 DEF UsersOf
  <2>5. ComesAlone
    <3> SUFFICES ASSUME NEW r \in Slots, clients'[r].logged # clients[r].logged,
                        accounts'[clients'[r].logged].key \in Names,
                        NEW t \in Slots \ {r}
                 PROVE  clients'[t].logged # clients'[r].logged
      BY DEF ComesAlone
    <3>1. r = s
      BY <1>4
    <3>2. key \in Names
      BY <1>1, <1>5, <2>1, <3>1
    <3> QED
      BY <1>4, <2>1, <2>4, <3>1, <3>2
  <2> QED
    BY <1>1, <1>4, <2>3, <2>5 DEF AccountsInv
<1>6. CASE result # "yes"
  <2>1. \A i \in Spots : accounts'[i].inuse = accounts[i].inuse
    BY <1>1, <1>6
  <2>2. \A t \in Slots : clients'[t].logged \in Spots
                         => clients'[t].logged = clients[t].logged
    BY <1>4, <1>6, Numbers
  <2>3. NeverUndercounted'
    BY <2>1, <2>2, Staying
  <2> QED
    BY <1>1, <1>4, <2>2, <2>3, NobodyComes DEF AccountsInv
<1> QED
  BY <1>5, <1>6

(* A client logs out, in whatever else it changes.                         *)
LEMMA LogoutStep ==
  ASSUME AccountsInv, NEW s \in Slots, NEW d,
         accounts' = Released(clients[s]), UNCHANGED <<num_accounts, file>>,
         clients' = [clients EXCEPT ![s] = d],
         IsClient(d), d.logged \in {0, Exempt}, d.realip \notin Names
  PROVE  AccountsInv' /\ ComesAlone
<1>1. /\ accounts' = [i \in Spots |-> accounts'[i]]
      /\ \A i \in Spots : /\ IsAccount(accounts'[i]) /\ accounts'[i].inuse \in Int
                          /\ accounts'[i].inuse = IF clients[s].logged = i
                                                 THEN accounts[i].inuse - 1
                                                 ELSE accounts[i].inuse
  BY ReleasedShape
<1>2. AccountsShape' /\ FileShape'
  BY <1>1 DEF AccountsInv, AccountsShape, FileShape
<1>3. /\ ClientsShape' /\ clients'[s] = d
      /\ \A t \in Slots \ {s} : clients'[t] = clients[t]
  BY Numbers, ClientStep DEF AccountsInv
<1>4. \A t \in Slots : clients'[t].logged \in Spots => clients'[t].logged = clients[t].logged
  BY <1>3, Numbers
<1>5. NeverUndercounted'
  <2>1. clients'[s].logged \notin Spots
    BY <1>3, Numbers
  <2> QED
    BY <1>1, <1>3, <2>1, Leaving
<1> QED
  BY <1>2, <1>3, <1>4, <1>5, NobodyComes DEF AccountsInv

(* A client changes, but for what it holds.                                *)
LEMMA SameAccountStep ==
  ASSUME AccountsInv, NEW s \in Slots, NEW d,
         UNCHANGED <<accounts, num_accounts, file>>,
         clients' = [clients EXCEPT ![s] = d],
         IsClient(d), d.logged = clients[s].logged \/ d.logged = 0,
         d.logged \in Spots => d.state = "connected", d.realip \notin Names
  PROVE  AccountsInv' /\ ComesAlone
<1>1. d.logged \in Spots \cup {0, Exempt}
  BY DEF AccountsInv, ClientsShape
<1>2. /\ ClientsShape' /\ clients'[s] = d
      /\ \A t \in Slots \ {s} : clients'[t] = clients[t]
  BY <1>1, ClientStep DEF AccountsInv
<1>3. AccountsShape' /\ FileShape'
  BY Unchanged DEF AccountsInv
<1>4. \A t \in Slots : clients'[t].logged \in Spots => clients'[t].logged = clients[t].logged
  BY <1>2, Numbers
<1>5. NeverUndercounted'
  BY <1>4, Staying
<1> QED
  BY <1>2, <1>3, <1>4, <1>5, NobodyComes DEF AccountsInv

LEMMA NewStep ==
  ASSUME AccountsInv, ~ OutOfTurn, NEW s \in Slots, New(s)
  PROVE  AccountsInv' /\ ComesAlone
<1> DEFINE c == [clients[s] EXCEPT
                   !.state = IF @ = "preconnected" THEN "connected" ELSE @]
<1>1. /\ IsClient(clients[s]) /\ clients[s].realip \notin Names
      /\ clients[s].logged \in Spots \cup {0, Exempt}
  BY DEF AccountsInv, ClientsShape
<1>2. /\ IsClient(c) /\ c.logged = clients[s].logged
      /\ c.realip = clients[s].realip /\ c.state = "connected"
  BY <1>1 DEF New, Speaks, IsClient
<1>3. Released(c) = Released(clients[s])
  BY <1>2 DEF Released
<1>4. \/ /\ accounts' = Released(c)
         /\ clients' = [clients EXCEPT ![s] = [LoggedOut(c) EXCEPT !.logged = Exempt]]
         /\ UNCHANGED <<num_accounts, file>>
      \/ /\ clients' = [clients EXCEPT ![s] = c]
         /\ UNCHANGED <<accounts, num_accounts, file>>
      \/ /\ c.logged \notin Spots
         /\ AfterLogin(c.realip, CheckLogin(c.realip, FALSE))
         /\ clients' =
              [clients EXCEPT ![s] =
                 IF CheckLogin(c.realip, FALSE) = "yes"
                 THEN [c EXCEPT !.logged = Least(With(c.realip)),
                                !.login = accounts[Least(With(c.realip))].name]
                 ELSE [c EXCEPT !.logged = 0, !.login = NoName]]
         /\ UNCHANGED num_accounts
  BY DEF New
<1> HIDE DEF c
<1>5. CASE /\ accounts' = Released(c)
           /\ clients' = [clients EXCEPT ![s] = [LoggedOut(c) EXCEPT !.logged = Exempt]]
           /\ UNCHANGED <<num_accounts, file>>
  <2> DEFINE d == [LoggedOut(c) EXCEPT !.logged = Exempt]
  <2>1. IsClient(LoggedOut(c)) /\ LoggedOut(c).realip = c.realip
    BY <1>2, LoggedOutShape
  <2>2. IsClient(d) /\ d.logged = Exempt /\ d.realip \notin Names
    BY <1>1, <1>2, <2>1 DEF IsClient
  <2> QED
    BY <1>3, <1>5, <2>2, LogoutStep
<1>6. CASE /\ clients' = [clients EXCEPT ![s] = c]
           /\ UNCHANGED <<accounts, num_accounts, file>>
  BY <1>1, <1>2, <1>6, SameAccountStep
<1>7. CASE /\ c.logged \notin Spots
           /\ AfterLogin(c.realip, CheckLogin(c.realip, FALSE))
           /\ clients' =
                [clients EXCEPT ![s] =
                   IF CheckLogin(c.realip, FALSE) = "yes"
                   THEN [c EXCEPT !.logged = Least(With(c.realip)),
                                  !.login = accounts[Least(With(c.realip))].name]
                   ELSE [c EXCEPT !.logged = 0, !.login = NoName]]
           /\ UNCHANGED num_accounts
  <2> DEFINE yes == CheckLogin(c.realip, FALSE) = "yes"
             k == Least(With(c.realip))
             d == IF yes THEN [c EXCEPT !.logged = k, !.login = accounts[k].name]
                  ELSE [c EXCEPT !.logged = 0, !.login = NoName]
  <2>1. /\ IsClient(d) /\ d.state = c.state /\ d.realip = c.realip
        /\ d.logged = IF yes THEN k ELSE 0
    BY <1>2 DEF IsClient
  <2>2. clients' = [clients EXCEPT ![s] = d]
    BY <1>7
  <2> HIDE DEF d
  <2> QED
    BY <1>1, <1>2, <1>7, <2>1, <2>2, LoginStep
<1> QED
  BY <1>4, <1>5, <1>6, <1>7

LEMMA SayStep ==
  ASSUME AccountsInv, ~ OutOfTurn, NEW s \in Slots, NEW name, NEW given, NEW right,
         Say(s, name, given, right)
  PROVE  AccountsInv' /\ ComesAlone
<1> DEFINE c == clients[s]
           login == IF c.login = NoName THEN name ELSE c.login
           password == given \/ c.login # NoName
           result == CheckLogin(login, right)
<1>1. /\ IsClient(c) /\ c.realip \notin Names
      /\ c.logged = 0 /\ c.state = "connected"
  BY DEF AccountsInv, ClientsShape, Say, Speaks
<1>2. CASE ~ password
  <2>1. /\ clients' = [clients EXCEPT ![s] = [c EXCEPT !.login = login]]
        /\ UNCHANGED <<accounts, num_accounts, file>>
    BY <1>2 DEF Say
  <2>2. /\ IsClient([c EXCEPT !.login = login])
        /\ [c EXCEPT !.login = login].logged = c.logged
        /\ [c EXCEPT !.login = login].realip = c.realip
        /\ [c EXCEPT !.login = login].state = c.state
    BY <1>1 DEF IsClient
  <2> QED
    BY <1>1, <2>1, <2>2, SameAccountStep
<1>3. CASE password
  <2> DEFINE k == Least(With(login))
             d == CASE result = "yes" -> [c EXCEPT !.logged = k, !.login = login]
                    [] result = "wrong" -> [c EXCEPT !.login = login]
                    [] OTHER -> [c EXCEPT !.login = NoName]
  <2>1. /\ AfterLogin(login, result) /\ UNCHANGED num_accounts
        /\ clients' = [clients EXCEPT ![s] = d]
    BY <1>3 DEF Say
  <2>2. result \in {"yes", "wrong", "blocked", "in use"}
    BY NotYes
  <2>3. /\ IsClient(d) /\ d.state = c.state /\ d.realip = c.realip
        /\ d.logged = IF result = "yes" THEN k ELSE 0
    <3> HIDE DEF login, result, k
    <3>1. CASE result = "yes"
      BY <1>1, <3>1 DEF IsClient
    <3>2. CASE result = "wrong"
      BY <1>1, <3>2 DEF IsClient
    <3>3. CASE result \notin {"yes", "wrong"}
      BY <1>1, <3>3 DEF IsClient
    <3> QED
      BY <3>1, <3>2, <3>3
  <2> HIDE DEF d, login
  <2> QED
    BY <1>1, <2>1, <2>3, Numbers, LoginStep
<1> QED
  BY <1>2, <1>3

LEMMA DropStep ==
  ASSUME AccountsInv, NEW s \in Slots, Drop(s)
  PROVE  AccountsInv' /\ ComesAlone
<1> DEFINE c == clients[s]
           d == [LoggedOut(c) EXCEPT !.state = "zombie"]
<1>1. /\ IsClient(c) /\ c.realip \notin Names /\ c.logged \in Spots \cup {0, Exempt}
  BY DEF AccountsInv, ClientsShape
<1>2. /\ IsClient(LoggedOut(c)) /\ LoggedOut(c).realip = c.realip
      /\ LoggedOut(c).logged \in {0, Exempt}
  BY <1>1, LoggedOutShape
<1>3. IsClient(d) /\ d.logged \in {0, Exempt} /\ d.realip \notin Names
  BY <1>1, <1>2 DEF IsClient
<1>4. /\ accounts' = Released(c) /\ clients' = [clients EXCEPT ![s] = d]
      /\ UNCHANGED <<num_accounts, file>>
  BY DEF Drop
<1> HIDE DEF d
<1> QED
  BY <1>3, <1>4, LogoutStep

LEMMA FreeStep ==
  ASSUME AccountsInv, NEW s \in Slots, Free(s)
  PROVE  AccountsInv' /\ ComesAlone
<1>1. clients' = [clients EXCEPT ![s] = Gone] /\ UNCHANGED <<accounts, num_accounts, file>>
  BY DEF Free
<1> QED
  BY <1>1, GoneShape, Numbers, SameAccountStep

-----------------------------------------------------------------------------
(* The console.                                                            *)

(* Nobody logs in or out.                                                  *)
LEMMA ConsoleStep ==
  ASSUME AccountsInv, UNCHANGED clients, AccountsShape', FileShape',
         \A i \in Spots : accounts'[i].inuse = accounts[i].inuse
  PROVE  AccountsInv' /\ ComesAlone
<1>1. ClientsShape'
  BY DEF AccountsInv, ClientsShape, IsClient
<1>2. NeverUndercounted'
  BY Staying
<1> QED
  BY <1>1, <1>2, NobodyComes DEF AccountsInv

LEMMA CreateStep ==
  ASSUME AccountsInv, NEW key, NEW name, Create(key, name)
  PROVE  AccountsInv' /\ ComesAlone
<1> DEFINE Last == {i \in Spots : Listed(i)}
           spot == Least({i \in Spots : ~ Listed(i) /\
                            (accounts[i].state = "free" \/ \A j \in Last : j < i)})
           a == accounts[spot]
           b == [a EXCEPT !.state = "ok", !.key = key, !.name = name]
<1>1. /\ num_accounts \in 0 .. MAX_ACCOUNTS /\ num_accounts' = num_accounts + 1
      /\ num_accounts < MAX_ACCOUNTS
      /\ file' = Written(accounts', num_accounts') /\ UNCHANGED clients
      /\ accounts' = [accounts EXCEPT ![spot].state = "ok", ![spot].key = key,
                                      ![spot].name = name]
  BY DEF Create, AccountsInv, AccountsShape
<1>2. num_accounts' \in 0 .. MAX_ACCOUNTS
  <2>1. MAX_ACCOUNTS \in Nat
    BY AccountsAssumption
  <2> HIDE DEF spot
  <2> QED
    BY <1>1, <2>1
<1>3. FileShape'
  BY <1>1, <1>2, WrittenShape
<1> HIDE DEF spot
<1>4. CASE spot \in Spots
  <2>1. IsAccount(a) /\ a.inuse \in Int
    BY <1>4 DEF AccountsInv, AccountsShape
  <2>2. IsAccount(b) /\ b.inuse = a.inuse
    <3> DEFINE e == [a EXCEPT !.state = "ok"]
               f == [e EXCEPT !.key = key]
    <3>1. IsAccount(e) /\ e.inuse = a.inuse
      BY <2>1 DEF IsAccount
    <3>2. b = [f EXCEPT !.name = name]
      OBVIOUS
    <3> HIDE DEF b, e
    <3>3. IsAccount(f) /\ f.inuse = a.inuse
      BY <3>1 DEF IsAccount
    <3> HIDE DEF f
    <3> QED
      BY <3>2, <3>3 DEF IsAccount
  <2>3. accounts' = [accounts EXCEPT ![spot] = b]
    <3>1. accounts = [i \in Spots |-> accounts[i]]
      BY DEF AccountsInv, AccountsShape
    <3> QED
      BY <1>1, <1>4, <3>1
  <2> HIDE DEF b
  <2>4. /\ AccountsShape' /\ accounts'[spot] = b
        /\ \A j \in Spots \ {spot} : accounts'[j] = accounts[j]
    BY <1>2, <1>4, <2>1, <2>2, <2>3, AccountStep DEF AccountsInv
  <2> QED
    BY <1>1, <1>3, <2>2, <2>4, ConsoleStep
<1>5. CASE spot \notin Spots
  <2>1. accounts = [i \in Spots |-> accounts[i]]
    BY DEF AccountsInv, AccountsShape
  <2>2. accounts' = accounts
    BY <1>1, <1>5, <2>1
  <2>3. AccountsShape'
    BY <1>2, <2>2 DEF AccountsInv, AccountsShape, IsAccount
  <2> QED
    BY <1>1, <1>3, <2>2, <2>3, ConsoleStep
<1> QED
  BY <1>4, <1>5

(* Something is listed only if there are accounts.                         *)
LEMMA ListedNumber ==
  ASSUME AccountsInv, NEW i \in Spots, Listed(i)
  PROVE  num_accounts - 1 \in 0 .. MAX_ACCOUNTS
<1>1. Before(accounts, i) \subseteq 1 .. i /\ i \in Before(accounts, i)
  BY Numbers, AccountsAssumption DEF Before, Listed, Spots
<1>2. IsFiniteSet(1 .. i)
  BY Numbers, FS_Interval
<1>3. IsFiniteSet(Before(accounts, i))
  BY <1>1, <1>2, FS_Subset
<1>4. Cardinality(Before(accounts, i)) \in Nat /\ Cardinality(Before(accounts, i)) # 0
  BY <1>1, <1>3, FS_CardinalityType, FS_EmptySet
<1>5. num_accounts \in 0 .. MAX_ACCOUNTS /\ Cardinality(Before(accounts, i)) <= num_accounts
  BY DEF AccountsInv, AccountsShape, Listed
<1> QED
  BY <1>4, <1>5, AccountsAssumption

LEMMA RemoveStep ==
  ASSUME AccountsInv, NEW i \in Spots, Remove(i)
  PROVE  AccountsInv' /\ ComesAlone
<1> DEFINE user == accounts[i].inuse
           Out == IF user = 0 THEN accounts ELSE Released(clients[user])
           a == Out[i]
           b == [a EXCEPT !.state = "free", !.key = NoName, !.name = NoName]
<1>1. /\ user \in 0 .. MAX_CLIENTS
      /\ num_accounts' = num_accounts - 1
      /\ file' = Written(accounts', num_accounts')
      /\ accounts' = [Out EXCEPT ![i].state = "free", ![i].key = NoName, ![i].name = NoName]
      /\ clients' = IF user = 0 THEN clients
                    ELSE [clients EXCEPT ![user] = LoggedOut(clients[user])]
      /\ Listed(i)
  BY ZenonT(60) DEF Remove
<1>2. num_accounts' \in 0 .. MAX_ACCOUNTS
  BY <1>1, ListedNumber, ZenonT(60)
<1>3. FileShape'
  BY <1>1, <1>2, WrittenShape, ZenonT(60)
<1>4. user # 0 => user \in Slots
  <2>1. MAX_CLIENTS \in Nat /\ user \in 0 .. MAX_CLIENTS
    BY <1>1, AccountsAssumption
  <2> HIDE DEF user
  <2> QED
    BY <2>1 DEF Slots
<1>5. /\ Out = [j \in Spots |-> Out[j]]
      /\ \A j \in Spots : /\ IsAccount(Out[j]) /\ Out[j].inuse \in Int
                          /\ Out[j].inuse = IF user # 0 /\ clients[user].logged = j
                                           THEN accounts[j].inuse - 1
                                           ELSE accounts[j].inuse
  <2>1. CASE user = 0
    BY <2>1 DEF AccountsInv, AccountsShape
  <2>2. CASE user # 0
    BY <1>4, <2>2, ReleasedShape
  <2> QED
    BY <2>1, <2>2
<1> HIDE DEF Out
<1>6. IsAccount(b) /\ b.inuse = a.inuse
  <2> DEFINE e == [a EXCEPT !.state = "free"]
             f == [e EXCEPT !.key = NoName]
  <2>1. IsAccount(e) /\ e.inuse = a.inuse
    BY <1>5 DEF IsAccount
  <2>2. b = [f EXCEPT !.name = NoName]
    OBVIOUS
  <2> HIDE DEF b, e
  <2>3. IsAccount(f) /\ f.inuse = a.inuse
    BY <2>1 DEF IsAccount
  <2> HIDE DEF f
  <2> QED
    BY <2>2, <2>3 DEF IsAccount
<1>7. accounts' = [j \in Spots |-> IF j = i THEN b ELSE Out[j]]
  BY <1>1, <1>5
<1> HIDE DEF b
<1>8. \A j \in Spots : IsAccount(accounts'[j]) /\ accounts'[j].inuse = Out[j].inuse
  BY <1>5, <1>6, <1>7
<1>9. AccountsShape'
  <2>1. accounts' = [j \in Spots |-> accounts'[j]]
    BY <1>7
  <2> QED
    BY <1>2, <1>5, <1>8, <2>1 DEF AccountsShape
<1>10. CASE user = 0
  BY <1>1, <1>3, <1>5, <1>8, <1>9, <1>10, ConsoleStep
<1>11. CASE user # 0
  <2> DEFINE c == clients[user]
             d == LoggedOut(c)
  <2>1. user \in Slots
    BY <1>4, <1>11
  <2>2. /\ IsClient(c) /\ c.realip \notin Names /\ c.logged \in Spots \cup {0, Exempt}
    BY <2>1 DEF AccountsInv, ClientsShape
  <2>3. /\ IsClient(d) /\ d.logged \in {0, Exempt} /\ d.realip \notin Names
    BY <2>2, LoggedOutShape
  <2> HIDE DEF d
  <2>4. /\ ClientsShape' /\ clients'[user] = d
        /\ \A t \in Slots \ {user} : clients'[t] = clients[t]
    BY <1>1, <1>11, <2>1, <2>3, Numbers, ClientStep, ZenonT(60) DEF AccountsInv, d
  <2>5. \A t \in Slots : clients'[t].logged \in Spots => clients'[t].logged = clients[t].logged
    BY <2>3, <2>4, Numbers
  <2>6. \A j \in Spots : accounts'[j].inuse =
           IF clients[user].logged = j THEN accounts[j].inuse - 1 ELSE accounts[j].inuse
    BY <1>5, <1>8, <1>11
  <2>7. NeverUndercounted'
    <3>1. clients'[user].logged \notin Spots
      BY <2>3, <2>4, Numbers
    <3> QED
      BY <2>1, <2>4, <2>6, <3>1, Leaving
  <2> QED
    BY <1>3, <1>9, <2>4, <2>5, <2>7, NobodyComes DEF AccountsInv
<1> QED
  BY <1>10, <1>11, SMTT(30)

LEMMA BlockStep ==
  ASSUME AccountsInv, NEW i \in Spots, Block(i) \/ Unblock(i)
  PROVE  AccountsInv' /\ ComesAlone
<1> DEFINE a == accounts[i]
           e == [a EXCEPT !.state = "ok"]
<1>1. IsAccount(a) /\ a.inuse \in Int /\ num_accounts \in 0 .. MAX_ACCOUNTS
      /\ accounts = [j \in Spots |-> accounts[j]]
  BY DEF AccountsInv, AccountsShape
<1>2. PICK b : /\ accounts' = [accounts EXCEPT ![i] = b]
               /\ IsAccount(b) /\ b.inuse = a.inuse
  <2>1. CASE Block(i)
    <3>1. accounts' = [accounts EXCEPT ![i] = [a EXCEPT !.state = "blocked"]]
      BY <2>1 DEF Block
    <3>2. IsAccount([a EXCEPT !.state = "blocked"]) /\ [a EXCEPT !.state = "blocked"].inuse = a.inuse
      BY <1>1 DEF IsAccount
    <3> QED
      BY <3>1, <3>2
  <2>2. CASE Unblock(i) /\ a.state = "blocked"
    <3>1. accounts' = [accounts EXCEPT ![i] = [e EXCEPT !.failures = 0]]
      BY <1>1, <2>2 DEF Unblock
    <3>2. IsAccount(e) /\ e.inuse = a.inuse
      BY <1>1 DEF IsAccount
    <3> HIDE DEF e
    <3>3. IsAccount([e EXCEPT !.failures = 0]) /\ [e EXCEPT !.failures = 0].inuse = a.inuse
      BY <3>2 DEF IsAccount
    <3> QED
      BY <3>1, <3>3
  <2>3. CASE Unblock(i) /\ a.state # "blocked"
    <3>1. accounts' = [accounts EXCEPT ![i] = a]
      BY <1>1, <2>3 DEF Unblock
    <3> QED
      BY <1>1, <3>1
  <2> QED
    BY <2>1, <2>2, <2>3
<1>3. UNCHANGED <<num_accounts, clients>> /\ file' = Written(accounts', num_accounts)
  BY DEF Block, Unblock
<1>4. /\ AccountsShape' /\ accounts'[i] = b
      /\ \A j \in Spots \ {i} : accounts'[j] = accounts[j]
  BY <1>1, <1>2, <1>3, AccountStep DEF AccountsInv
<1>5. FileShape'
  BY <1>1, <1>3, WrittenShape
<1> QED
  BY <1>2, <1>3, <1>4, <1>5, ConsoleStep

-----------------------------------------------------------------------------
(* Levels.                                                                 *)

(* Accounts in the file have a place in the table.                         *)
LEMMA FilePlaces ==
  ASSUME AccountsInv
  PROVE  /\ DOMAIN file = 1 .. Len(file) /\ DOMAIN file \subseteq Spots
         /\ Len(file) \in 0 .. MAX_ACCOUNTS
<1>1. MAX_ACCOUNTS \in Nat
  BY AccountsAssumption
<1> QED
  BY <1>1 DEF AccountsInv, FileShape, Spots

LEMMA FitsLeast ==
  ASSUME AccountsInv, NEW c, Fits(c) # {}
  PROVE  Least(Fits(c)) \in DOMAIN file /\ Least(Fits(c)) \in Spots
<1>1. Fits(c) \subseteq DOMAIN file /\ DOMAIN file \subseteq Spots
  BY FilePlaces DEF Fits
<1> QED
  BY <1>1, Numbers, LeastIn

(* What a client becomes when a level starts.                              *)
LEMMA RenewedShape ==
  ASSUME AccountsInv, NEW s \in Slots
  PROVE  LET d == Renewed(s)
         IN  /\ IsClient(d) /\ d.realip \notin Names
             /\ d.logged \in Spots \cup {0, Exempt}
             /\ d.logged \in Spots =>
                  /\ d.state = "connected"
                  /\ StaysIn(s) /\ d.logged = Least(Fits(clients[s]))
                  /\ d.logged \in DOMAIN file
<1> DEFINE c == clients[s]
           i == Least(Fits(c))
           d == Renewed(s)
<1>1. /\ IsClient(c) /\ c.realip \notin Names /\ c.logged \in Spots \cup {0, Exempt}
      /\ c.logged \in Spots => c.state = "connected"
  BY DEF AccountsInv, ClientsShape
<1>2. CASE ~ Asks(s)
  <2>1. d = c
    BY <1>2 DEF Renewed
  <2>2. c.logged \notin Spots
    BY <1>1, <1>2 DEF Asks
  <2> QED
    BY <1>1, <2>1, <2>2
<1>3. CASE Asks(s) /\ StaysIn(s)
  <2>1. i \in Spots /\ i \in DOMAIN file
    BY <1>3, FitsLeast DEF StaysIn, Admits
  <2>2. PICK login : d = [c EXCEPT !.logged = i, !.login = login]
    BY <1>3 DEF Renewed
  <2>3. IsClient(d) /\ d.logged = i /\ d.state = c.state /\ d.realip = c.realip
    <3> HIDE DEF i, d
    <3> QED
      BY <1>1, <2>2 DEF IsClient
  <2>4. c.state = "connected"
    BY <1>3 DEF Asks
  <2> QED
    BY <1>1, <1>3, <2>1, <2>3, <2>4
<1>4. CASE Asks(s) /\ ~ StaysIn(s)
  <2>1. d = [c EXCEPT !.logged = 0, !.login = NoName]
    BY <1>4 DEF Renewed
  <2>2. IsClient(d) /\ d.logged = 0 /\ d.state = c.state /\ d.realip = c.realip
    <3> HIDE DEF d
    <3> QED
      BY <1>1, <2>1 DEF IsClient
  <2> QED
    BY <1>1, <2>2, Numbers
<1> QED
  BY <1>2, <1>3, <1>4

LEMMA ReadShape ==
  ASSUME NEW n
  PROVE  IsAccount(Read(n)) /\ Read(n).inuse = 0
         /\ Read(n).key = file[n].key
         /\ \A x : /\ IsAccount([Read(n) EXCEPT !.inuse = x])
                   /\ [Read(n) EXCEPT !.inuse = x].inuse = x
                   /\ [Read(n) EXCEPT !.inuse = x].key = file[n].key
BY DEF IsAccount, Read

LEMMA LoadAccountsStep ==
  ASSUME AccountsInv, LoadAccounts
  PROVE  AccountsInv' /\ ComesAlone
<1> DEFINE Users(i) == {s \in Slots : StaysIn(s) /\ clients'[s].logged = i}
<1>1. /\ clients' = [s \in Slots |-> Renewed(s)]
      /\ accounts' = [i \in Spots |->
            IF i \in DOMAIN file THEN [Read(i) EXCEPT !.inuse = Cardinality(Users(i))]
            ELSE accounts[i]]
      /\ num_accounts' = Len(file) /\ UNCHANGED file
  BY DEF LoadAccounts
<1> HIDE DEF Users
<1>2. \A s \in Slots :
        /\ IsClient(clients'[s]) /\ clients'[s].realip \notin Names
        /\ clients'[s].logged \in Spots \cup {0, Exempt}
        /\ clients'[s].logged \in Spots =>
              /\ clients'[s].state = "connected"
              /\ StaysIn(s) /\ clients'[s].logged = Least(Fits(clients[s]))
              /\ clients'[s].logged \in DOMAIN file
  BY <1>1, RenewedShape
<1>3. ClientsShape'
  <2>1. clients' = [s \in Slots |-> clients'[s]]
    BY <1>1
  <2> QED
    BY <1>2, <2>1 DEF ClientsShape
<1>4. \A i \in Spots : Users(i) \subseteq Slots /\ Cardinality(Users(i)) \in Nat
  BY SlotSets DEF Users
<1>5. \A i \in Spots : IsAccount(accounts'[i]) /\ accounts'[i].inuse \in Int
  <2> SUFFICES ASSUME NEW i \in Spots
               PROVE  IsAccount(accounts'[i]) /\ accounts'[i].inuse \in Int
    OBVIOUS
  <2>1. CASE i \in DOMAIN file
    <3>1. accounts'[i] = [Read(i) EXCEPT !.inuse = Cardinality(Users(i))]
      BY <1>1, <2>1
    <3> QED
      BY <1>4, <3>1, ReadShape
  <2>2. CASE i \notin DOMAIN file
    <3>1. accounts'[i] = accounts[i]
      BY <1>1, <2>2
    <3> QED
      BY <3>1 DEF AccountsInv, AccountsShape
  <2> QED
    BY <2>1, <2>2
<1>6. AccountsShape' /\ FileShape'
  <2>1. accounts' = [i \in Spots |-> accounts'[i]]
    BY <1>1
  <2>2. num_accounts' \in 0 .. MAX_ACCOUNTS
    BY <1>1, FilePlaces
  <2>3. FileShape'
    BY <1>1 DEF AccountsInv, FileShape
  <2> QED
    BY <1>5, <2>1, <2>2, <2>3 DEF AccountsShape
<1>7. NeverUndercounted'
  <2> SUFFICES ASSUME NEW i \in Spots
               PROVE  Cardinality(UsersOf(i)') <= accounts'[i].inuse
    BY DEF NeverUndercounted
  <2>1. CASE i \in DOMAIN file
    <3>1. UsersOf(i)' = Users(i)
      BY <1>2 DEF UsersOf, Users
    <3>2. accounts'[i] = [Read(i) EXCEPT !.inuse = Cardinality(Users(i))]
      BY <1>1, <2>1
    <3>3. accounts'[i].inuse = Cardinality(Users(i))
      BY <3>2, ReadShape
    <3> QED
      BY <1>4, <3>1, <3>3
  <2>2. CASE i \notin DOMAIN file
    <3>1. UsersOf(i)' = {}
      BY <1>2, <2>2 DEF UsersOf
    <3>2. accounts'[i].inuse = accounts[i].inuse
      BY <1>1, <2>2
    <3>3. Cardinality(UsersOf(i)) <= accounts[i].inuse /\ accounts[i].inuse \in Int
      BY DEF AccountsInv, NeverUndercounted, AccountsShape
    <3>4. UsersOf(i)' \subseteq UsersOf(i)
      BY <3>1
    <3> QED
      BY <3>2, <3>3, <3>4, FewerUsers
  <2> QED
    BY <2>1, <2>2
<1>8. ComesAlone
  <2> SUFFICES ASSUME NEW s \in Slots, clients'[s].logged \in Spots,
                      accounts'[clients'[s].logged].key \in Names,
                      NEW t \in Slots \ {s}, clients'[t].logged = clients'[s].logged
               PROVE  FALSE
    BY DEF ComesAlone
  <2> DEFINE i == clients'[s].logged
  <2>1. /\ StaysIn(s) /\ i = Least(Fits(clients[s])) /\ i \in DOMAIN file
        /\ StaysIn(t) /\ i = Least(Fits(clients[t]))
    BY <1>2
  <2>2. file[i].key \in Names
    <3>1. accounts'[i] = [Read(i) EXCEPT !.inuse = Cardinality(Users(i))]
      BY <1>1, <2>1
    <3>2. accounts'[i].key = file[i].key
      BY <3>1, ReadShape
    <3> QED
      BY <3>2
  <2>3. file[i].key \notin Addresses
    BY <2>2, AccountsAssumption
  <2>4. /\ \A r \in 1 .. s - 1 : Admits(r) => Least(Fits(clients[r])) # i
        /\ \A r \in 1 .. t - 1 : Admits(r) => Least(Fits(clients[r])) # i
        /\ Admits(s) /\ Admits(t)
    BY <2>1, <2>3 DEF StaysIn
  <2>5. s \in 1 .. t - 1 \/ t \in 1 .. s - 1
    BY AccountsAssumption DEF Slots
  <2> QED
    BY <2>1, <2>4, <2>5
<1> QED
  BY <1>3, <1>6, <1>7, <1>8 DEF AccountsInv

LEMMA LoadNothingStep ==
  ASSUME AccountsInv, LoadNothing
  PROVE  AccountsInv' /\ ComesAlone
<1>1. /\ clients' = [s \in Slots |->
            [clients[s] EXCEPT !.logged = IF @ = Exempt THEN @ ELSE 0, !.login = NoName]]
      /\ num_accounts' = 0 /\ UNCHANGED <<accounts, file>>
  BY DEF LoadNothing
<1>2. ASSUME NEW s \in Slots
      PROVE  /\ IsClient(clients'[s]) /\ clients'[s].realip \notin Names
             /\ clients'[s].logged \in {0, Exempt}
  <2> DEFINE c == clients[s]
             x == IF c.logged = Exempt THEN c.logged ELSE 0
  <2>1. IsClient(c) /\ c.realip \notin Names
    BY DEF AccountsInv, ClientsShape
  <2>2. clients'[s] = [c EXCEPT !.logged = x, !.login = NoName]
    BY <1>1
  <2>3. x \in {0, Exempt}
    OBVIOUS
  <2> HIDE DEF c, x
  <2> QED
    BY <2>1, <2>2, <2>3 DEF IsClient
<1>3. ClientsShape'
  <2>1. clients' = [s \in Slots |-> clients'[s]]
    BY <1>1
  <2> QED
    BY <1>2, <2>1, Numbers DEF ClientsShape
<1>4. AccountsShape' /\ FileShape'
  <2>1. 0 \in 0 .. MAX_ACCOUNTS
    BY AccountsAssumption
  <2> QED
    BY <1>1, <2>1 DEF AccountsInv, AccountsShape, FileShape, IsAccount
<1>5. \A s \in Slots : clients'[s].logged \notin Spots
  BY <1>2, Numbers
<1>6. NeverUndercounted'
  BY <1>1, <1>5, Staying
<1> QED
  BY <1>3, <1>4, <1>5, <1>6, NobodyComes DEF AccountsInv

(* Nobody is there.                                                        *)
LEMMA NobodyThere ==
  ASSUME clients' = [s \in Slots |-> Gone], \A i \in Spots : accounts'[i].inuse = 0
  PROVE  ClientsShape' /\ NeverUndercounted' /\ ComesAlone
<1>1. \A s \in Slots : clients'[s] = Gone
  OBVIOUS
<1>2. clients' = [s \in Slots |-> clients'[s]]
  OBVIOUS
<1>3. ClientsShape'
  BY <1>1, <1>2, GoneShape, Numbers DEF ClientsShape
<1>4. \A i \in Spots : UsersOf(i)' = {}
  BY <1>1, GoneShape, Numbers DEF UsersOf
<1>5. NeverUndercounted'
  BY <1>4, FS_EmptySet DEF NeverUndercounted
<1>6. ComesAlone
  BY <1>1, GoneShape, Numbers DEF ComesAlone
<1> QED
  BY <1>3, <1>5, <1>6

LEMMA RestartStep ==
  ASSUME AccountsInv, Restart
  PROVE  AccountsInv' /\ ComesAlone
<1>1. /\ clients' = [s \in Slots |-> Gone]
      /\ accounts' = [i \in Spots |-> IF i \in DOMAIN file THEN Read(i) ELSE NoAccount]
      /\ num_accounts' = Len(file) /\ UNCHANGED file
  BY DEF Restart
<1>2. IsAccount(NoAccount) /\ NoAccount.inuse = 0
  BY DEF IsAccount, NoAccount
<1>3. \A i \in Spots : IsAccount(accounts'[i]) /\ accounts'[i].inuse = 0
  BY <1>1, <1>2, ReadShape
<1>4. AccountsShape'
  <2>1. accounts' = [i \in Spots |-> accounts'[i]]
    BY <1>1
  <2> QED
    BY <1>1, <1>3, <2>1, FilePlaces DEF AccountsShape
<1>5. FileShape'
  BY <1>1 DEF AccountsInv, FileShape
<1> QED
  BY <1>1, <1>3, <1>4, <1>5, NobodyThere DEF AccountsInv

-----------------------------------------------------------------------------
LEMMA AccountsInit == Init => AccountsInv
<1> SUFFICES ASSUME Init PROVE AccountsInv
  OBVIOUS
<1>1. /\ accounts = [i \in Spots |-> NoAccount] /\ num_accounts = 0
      /\ file = <<>> /\ clients = [s \in Slots |-> Gone]
  BY DEF Init
<1>2. IsAccount(NoAccount) /\ NoAccount.inuse = 0
  BY DEF IsAccount, NoAccount
<1>3. AccountsShape
  <2>1. 0 \in 0 .. MAX_ACCOUNTS
    BY AccountsAssumption
  <2> QED
    BY <1>1, <1>2, <2>1 DEF AccountsShape
<1>4. FileShape
  BY <1>1, AccountsAssumption DEF FileShape
<1>5. ClientsShape
  BY <1>1, GoneShape, Numbers DEF ClientsShape
<1>6. NeverUndercounted
  <2>1. \A i \in Spots : UsersOf(i) = {}
    BY <1>1, GoneShape, Numbers DEF UsersOf
  <2>2. \A i \in Spots : accounts[i].inuse = 0
    BY <1>1, <1>2
  <2> QED
    BY <2>1, <2>2, FS_EmptySet DEF NeverUndercounted
<1> QED
  BY <1>3, <1>4, <1>5, <1>6 DEF AccountsInv

LEMMA AccountsStep ==
  ASSUME AccountsInv, ~ OutOfTurn, [Next]_vars
  PROVE  AccountsInv' /\ (UNCHANGED vars \/ ComesAlone)
<1>1. CASE UNCHANGED vars
  BY <1>1 DEF vars, AccountsInv, AccountsShape, FileShape, ClientsShape,
              NeverUndercounted, UsersOf, IsAccount, IsClient
<1>2. ASSUME NEW s \in Slots, NEW realip \in Addresses \cup {Elsewhere},
             NEW spectator \in BOOLEAN, Connect(s, realip, spectator)
      PROVE  AccountsInv' /\ ComesAlone
  BY <1>2, ConnectStep
<1>3. ASSUME NEW s \in Slots, NEW name \in Names, NEW given \in BOOLEAN,
             NEW right \in BOOLEAN, Say(s, name, given, right)
      PROVE  AccountsInv' /\ ComesAlone
  BY <1>3, SayStep
<1>4. ASSUME NEW s \in Slots, New(s) \/ Drop(s) \/ Free(s)
      PROVE  AccountsInv' /\ ComesAlone
  BY <1>4, NewStep, DropStep, FreeStep
<1>5. ASSUME NEW key, NEW name, Create(key, name)
      PROVE  AccountsInv' /\ ComesAlone
  BY <1>5, CreateStep
<1>6. ASSUME NEW i \in Spots, Remove(i) \/ Block(i) \/ Unblock(i)
      PROVE  AccountsInv' /\ ComesAlone
  BY <1>6, RemoveStep, BlockStep
<1>7. CASE LoadAccounts \/ LoadNothing \/ Restart
  BY <1>7, LoadAccountsStep, LoadNothingStep, RestartStep
<1> QED
  BY <1>1, <1>2, <1>3, <1>4, <1>5, <1>6, <1>7 DEF Next

(* Commands in turn keep count of the users of every account, whatever the *)
(* console, map changes and crashes do (checklogin, SV_Logout,             *)
(* SV_LoadAccounts).                                                       *)
THEOREM UsersAreCounted ==
  ASSUME ~ OutOfTurn
  PROVE  Spec => []NeverUndercounted
<1>1. AccountsInv /\ [Next]_vars => AccountsInv'
  BY AccountsStep
<1>2. AccountsInv => NeverUndercounted
  BY DEF AccountsInv
<1> QED
  BY <1>1, <1>2, AccountsInit, PTL DEF Spec

(* Whoever comes to hold an account for a name holds it alone.             *)
THEOREM NamesAreTakenAlone ==
  ASSUME ~ OutOfTurn
  PROVE  Spec => TakenAlone
<1>1. AccountsInv /\ [Next]_vars => AccountsInv' /\ [ComesAlone]_vars
  BY AccountsStep
<1> QED
  BY <1>1, AccountsInit, PTL DEF Spec, TakenAlone
-----------------------------------------------------------------------------
(* The table and its file.  What is listed are the first num_accounts      *)
(* accounts that are not free, if there are as many.                       *)

Usable(table) ==
  /\ table \in [Spots -> Account]
  /\ \A i \in Spots : table[i].state # "free" => table[i].key \in Names \cup Addresses

Enough(table, num) ==
  num \in 0 .. MAX_ACCOUNTS /\ num <= Cardinality(Before(table, MAX_ACCOUNTS))

(* A file f has a line for each account that is listed.                    *)
Says(f, table, num) ==
  \A i \in Spots :
    (table[i].state # "free" /\ Cardinality(Before(table, i)) <= num)
    => \E n \in DOMAIN f : f[n].key = table[i].key /\ f[n].state = table[i].state

(* Without a file the server goes on with no account (SV_LoadAccounts),    *)
(* and the file is not what it was.                                        *)
TableInv ==
  /\ Usable(accounts) /\ Enough(accounts, num_accounts)
  /\ file \in Seq(Entry) /\ Len(file) <= MAX_ACCOUNTS
  /\ clients \in [Slots -> Client]
  /\ \/ num_accounts = 0
     \/ num_accounts = Len(file) /\ Says(file, accounts, num_accounts)

LEMMA BeforeSets ==
  ASSUME NEW table, NEW i \in 0 .. MAX_ACCOUNTS
  PROVE  /\ IsFiniteSet(Before(table, i)) /\ Cardinality(Before(table, i)) \in Nat
         /\ Cardinality(Before(table, i)) <= i
         /\ \A S : S \subseteq Before(table, i) =>
              Cardinality(S) \in Nat /\ Cardinality(S) <= Cardinality(Before(table, i))
         /\ \A j \in 0 .. i :
              /\ Before(table, j) \subseteq Before(table, i)
              /\ Cardinality(Before(table, j)) <= Cardinality(Before(table, i))
<1>1. i \in Nat /\ 1 \in Int
  BY AccountsAssumption
<1>2. IsFiniteSet(1 .. i) /\ Cardinality(1 .. i) = i
  BY <1>1, FS_Interval
<1>3. Before(table, i) \subseteq 1 .. i
  BY DEF Before
<1>4. IsFiniteSet(Before(table, i)) /\ Cardinality(Before(table, i)) <= i
  BY <1>2, <1>3, FS_Subset
<1>5. \A S : S \subseteq Before(table, i) =>
        Cardinality(S) \in Nat /\ Cardinality(S) <= Cardinality(Before(table, i))
  BY <1>4, FS_Subset, FS_CardinalityType
<1>6. \A j \in 0 .. i : Before(table, j) \subseteq Before(table, i)
  BY <1>1 DEF Before
<1> QED
  BY <1>4, <1>5, <1>6, FS_CardinalityType

(* The number grows by one at an account that is not free.                 *)
LEMMA BeforeNext ==
  ASSUME NEW table, NEW i \in Spots
  PROVE  /\ i - 1 \in 0 .. MAX_ACCOUNTS /\ i \in 0 .. MAX_ACCOUNTS
         /\ Cardinality(Before(table, i)) =
              IF table[i].state = "free" THEN Cardinality(Before(table, i - 1))
              ELSE Cardinality(Before(table, i - 1)) + 1
<1>1. i - 1 \in 0 .. MAX_ACCOUNTS /\ i \in 0 .. MAX_ACCOUNTS /\ i \in Nat
  BY AccountsAssumption DEF Spots
<1>2. 1 .. i = (1 .. i - 1) \cup {i} /\ i \notin 1 .. i - 1
  BY <1>1, AccountsAssumption DEF Spots
<1>3. CASE table[i].state = "free"
  <2>1. Before(table, i) = Before(table, i - 1)
    BY <1>2, <1>3 DEF Before
  <2> QED
    BY <1>1, <1>3, <2>1
<1>4. CASE table[i].state # "free"
  <2>1. Before(table, i) = Before(table, i - 1) \cup {i} /\ i \notin Before(table, i - 1)
    BY <1>2, <1>4 DEF Before
  <2>2. IsFiniteSet(Before(table, i - 1))
    BY <1>1, BeforeSets
  <2> QED
    BY <1>1, <1>4, <2>1, <2>2, FS_AddElement
<1> QED
  BY <1>3, <1>4

LEMMA BeforeLess ==
  ASSUME NEW table, NEW i \in Spots, NEW j \in Spots, j < i, table[i].state # "free"
  PROVE  Cardinality(Before(table, j)) < Cardinality(Before(table, i))
<1>1. i - 1 \in 0 .. MAX_ACCOUNTS /\ j \in 0 .. i - 1
  BY AccountsAssumption DEF Spots
<1>2. /\ Cardinality(Before(table, j)) <= Cardinality(Before(table, i - 1))
      /\ Cardinality(Before(table, i - 1)) \in Nat
      /\ Cardinality(Before(table, j)) \in Nat
  <2>1. j \in 0 .. MAX_ACCOUNTS
    BY BeforeNext
  <2> QED
    BY <1>1, <2>1, BeforeSets
<1> QED
  BY <1>2, BeforeNext

(* The place of the n-th account.                                          *)
LEMMA PlaceOf ==
  ASSUME NEW table, NEW i \in Spots, table[i].state # "free"
  PROVE  Place(table, Cardinality(Before(table, i))) = i
<1> DEFINE n == Cardinality(Before(table, i))
           S == {j \in Spots : table[j].state # "free" /\ Cardinality(Before(table, j)) = n}
<1>1. S \subseteq Nat /\ i \in S
  BY Numbers
<1>2. Least(S) \in S /\ Least(S) <= i
  BY <1>1, LeastIn
<1>3. ~ (Least(S) < i)
  <2>1. SUFFICES ASSUME Least(S) < i PROVE FALSE
    OBVIOUS
  <2>2. Least(S) \in Spots /\ Cardinality(Before(table, Least(S))) = n
    BY <1>2
  <2> HIDE DEF S
  <2>3. Cardinality(Before(table, Least(S))) < n
    BY <2>1, <2>2, BeforeLess
  <2>4. n \in Nat
    BY BeforeNext, BeforeSets
  <2> QED
    BY <2>2, <2>3, <2>4
<1>4. Least(S) \in Nat /\ i \in Nat
  BY <1>1, <1>2
<1>5. Least(S) = i
  <2> HIDE DEF S
  <2> QED
    BY <1>2, <1>3, <1>4
<1> QED
  BY <1>5 DEF Place

LEMMA PlaceIs ==
  ASSUME NEW table, NEW n \in 1 .. Cardinality(Before(table, MAX_ACCOUNTS))
  PROVE  /\ Place(table, n) \in Spots
         /\ table[Place(table, n)].state # "free"
<1> DEFINE S == {i \in Spots : table[i].state # "free" /\ Cardinality(Before(table, i)) = n}
           R == {i \in Spots : n <= Cardinality(Before(table, i))}
<1>1. MAX_ACCOUNTS \in Spots /\ MAX_ACCOUNTS \in 0 .. MAX_ACCOUNTS
      /\ 0 \in 0 .. MAX_ACCOUNTS
  BY AccountsAssumption DEF Spots
<1>2. Cardinality(Before(table, MAX_ACCOUNTS)) \in Nat
  BY <1>1, BeforeSets
<1>3. n \in Nat /\ n # 0 /\ n <= Cardinality(Before(table, MAX_ACCOUNTS))
  BY <1>2
<1>4. R # {} /\ R \subseteq Nat
  BY <1>1, <1>3, Numbers
<1>5. PICK i \in R : \A j \in R : i <= j
  BY <1>4, LeastIn
<1>6. i \in Spots /\ n <= Cardinality(Before(table, i))
  BY <1>5
<1>7. /\ i - 1 \in 0 .. MAX_ACCOUNTS /\ i \in 0 .. MAX_ACCOUNTS
      /\ Cardinality(Before(table, i)) =
           IF table[i].state = "free" THEN Cardinality(Before(table, i - 1))
           ELSE Cardinality(Before(table, i - 1)) + 1
  BY <1>6, BeforeNext
<1>8. Cardinality(Before(table, i - 1)) \in Nat /\ Cardinality(Before(table, i - 1)) <= i - 1
  BY <1>7, BeforeSets
<1>9. Cardinality(Before(table, i - 1)) < n
  <2>1. CASE i - 1 = 0
    BY <1>3, <1>8, <2>1
  <2>2. CASE i - 1 # 0
    <3>1. i - 1 \in Spots /\ ~ (i <= i - 1)
      BY <1>7, <2>2, AccountsAssumption DEF Spots
    <3>2. i - 1 \notin R
      BY <1>5, <3>1
    <3>3. ~ (n <= Cardinality(Before(table, i - 1)))
      BY <3>1, <3>2
    <3> QED
      BY <1>3, <1>8, <3>3
  <2> QED
    BY <2>1, <2>2
<1>10. table[i].state # "free" /\ Cardinality(Before(table, i)) = n
  BY <1>3, <1>6, <1>7, <1>8, <1>9
<1>11. S # {} /\ S \subseteq Nat
  BY <1>6, <1>10, Numbers
<1>12. Least(S) \in S
  BY <1>11, LeastIn
<1> QED
  BY <1>12 DEF Place

(* Tables that are free in the same places.                                *)
LEMMA BeforeSame ==
  ASSUME NEW t, NEW u, \A i \in Spots : t[i].state = "free" <=> u[i].state = "free"
  PROVE  \A i \in 0 .. MAX_ACCOUNTS : Before(t, i) = Before(u, i)
<1>1. \A i \in 0 .. MAX_ACCOUNTS : 1 .. i \subseteq Spots
  BY AccountsAssumption DEF Spots
<1> QED
  BY <1>1 DEF Before

(* A file that has just been written.                                      *)
LEMMA WrittenIs ==
  ASSUME NEW table, NEW num, Usable(table), Enough(table, num)
  PROVE  LET f == Written(table, num)
         IN  f \in Seq(Entry) /\ Len(f) = num /\ Says(f, table, num)
<1> DEFINE f == Written(table, num)
           a(n) == table[Place(table, n)]
           E(n) == [key |-> a(n).key, name |-> a(n).name, state |-> a(n).state,
                    failures |-> IF a(n).key \in Names THEN a(n).failures ELSE 0]
<1>1. num \in Nat /\ MAX_ACCOUNTS \in 0 .. MAX_ACCOUNTS
      /\ num <= Cardinality(Before(table, MAX_ACCOUNTS))
  BY AccountsAssumption DEF Enough
<1>2. f = [n \in 1 .. num |-> E(n)]
  BY DEF Written
<1>3. ASSUME NEW n \in 1 .. num
      PROVE  E(n) \in Entry
  <2>1. n \in 1 .. Cardinality(Before(table, MAX_ACCOUNTS))
    BY <1>1, BeforeSets
  <2>2. Place(table, n) \in Spots /\ a(n).state # "free"
    BY <2>1, PlaceIs
  <2>3. a(n) \in Account /\ a(n).key \in Names \cup Addresses
    BY <2>2 DEF Usable
  <2> HIDE DEF a
  <2>4. /\ a(n).key \in Names \cup Addresses /\ a(n).name \in Names \cup {NoName}
        /\ a(n).state \in {"ok", "blocked"} /\ a(n).failures \in 0 .. MAX_FAILURES
    BY <2>2, <2>3 DEF Account
  <2>5. 0 \in 0 .. MAX_FAILURES
    BY AccountsAssumption
  <2> QED
    BY <2>4, <2>5 DEF Entry
<1>4. \A n \in 1 .. num : f[n] = E(n)
  BY <1>2
<1>5. f \in [1 .. num -> Entry]
  <2> HIDE DEF E
  <2> QED
    BY <1>2, <1>3
<1> HIDE DEF f
<1>6. f \in Seq(Entry) /\ Len(f) = num /\ DOMAIN f = 1 .. num
  BY <1>1, <1>5
<1>7. ASSUME NEW i \in Spots, table[i].state # "free",
             Cardinality(Before(table, i)) <= num
      PROVE  \E n \in DOMAIN f : f[n].key = table[i].key /\ f[n].state = table[i].state
  <2> DEFINE n == Cardinality(Before(table, i))
  <2>1. Place(table, n) = i
    BY <1>7, PlaceOf
  <2>2. n \in 1 .. num
    <3>1. n \in Nat
      BY BeforeNext, BeforeSets
    <3>2. n # 0
      <4>1. Cardinality(Before(table, i - 1)) \in Nat
        BY BeforeNext, BeforeSets
      <4> QED
        BY <1>7, <4>1, BeforeNext
    <3> QED
      BY <1>1, <1>7, <3>1, <3>2
  <2> HIDE DEF n
  <2>3. E(n).key = table[i].key /\ E(n).state = table[i].state
    BY <2>1
  <2>4. f[n] = E(n)
    BY <1>4, <2>2
  <2> HIDE DEF E
  <2> QED
    BY <1>6, <2>2, <2>3, <2>4
<1> QED
  BY <1>6, <1>7 DEF Says, f

(* The file is written, after all else.                                    *)
LEMMA WritingStep ==
  ASSUME Usable(accounts'), Enough(accounts', num_accounts'),
         file' = Written(accounts', num_accounts'), clients' \in [Slots -> Client]
  PROVE  TableInv'
<1>1. file' \in Seq(Entry) /\ Len(file') = num_accounts'
      /\ Says(file', accounts', num_accounts')
  BY WrittenIs
<1>2. Len(file') <= MAX_ACCOUNTS
  BY <1>1, AccountsAssumption DEF Enough
<1> QED
  BY <1>1, <1>2 DEF TableInv

(* The file is not written, and does not say what changes in the table.    *)
LEMMA QuietStep ==
  ASSUME TableInv, Usable(accounts'), UNCHANGED <<num_accounts, file>>,
         \A i \in Spots : /\ accounts'[i].state = accounts[i].state
                          /\ accounts'[i].key = accounts[i].key,
         clients' \in [Slots -> Client]
  PROVE  TableInv'
<1>1. \A i \in 0 .. MAX_ACCOUNTS : Before(accounts', i) = Before(accounts, i)
  BY BeforeSame
<1>2. \A i \in Spots \cup {MAX_ACCOUNTS} : i \in 0 .. MAX_ACCOUNTS
  BY AccountsAssumption DEF Spots
<1>3. Enough(accounts', num_accounts')
  BY <1>1, <1>2 DEF TableInv, Enough
<1>4. Says(file, accounts, num_accounts) => Says(file', accounts', num_accounts')
  BY <1>1, <1>2 DEF Says
<1> QED
  BY <1>3, <1>4 DEF TableInv

(* The accounts that are not free stay so.                                 *)
LEMMA StillEnough ==
  ASSUME NEW t, NEW u, NEW num, Enough(t, num),
         \A i \in Spots : t[i].state = "free" <=> u[i].state = "free"
  PROVE  Enough(u, num)
<1>1. MAX_ACCOUNTS \in 0 .. MAX_ACCOUNTS
  BY AccountsAssumption
<1> QED
  BY <1>1, BeforeSame DEF Enough

LEMMA FailedType ==
  ASSUME NEW a \in Account
  PROVE  /\ Failed(a) \in Account /\ Failed(a).key = a.key
         /\ a.state # "free" => Failed(a).state # "free"
<1>1. MAX_FAILURES \in Nat /\ a.failures \in 0 .. MAX_FAILURES
  BY AccountsAssumption DEF Account
<1>2. CASE a.failures + 1 >= MAX_FAILURES
  <2>1. Failed(a) = [a EXCEPT !.failures = MAX_FAILURES, !.state = "blocked"]
    BY <1>2 DEF Failed
  <2>2. MAX_FAILURES \in 0 .. MAX_FAILURES
    BY <1>1
  <2>3. Failed(a) = [state |-> "blocked", key |-> a.key, name |-> a.name,
                     failures |-> MAX_FAILURES, inuse |-> a.inuse]
    BY <2>1 DEF Account
  <2> QED
    BY <2>2, <2>3 DEF Account
<1>3. CASE ~ (a.failures + 1 >= MAX_FAILURES)
  <2>1. Failed(a) = [a EXCEPT !.failures = a.failures + 1]
    BY <1>3 DEF Failed
  <2>2. a.failures + 1 \in 0 .. MAX_FAILURES
    BY <1>1, <1>3
  <2> QED
    BY <2>1, <2>2 DEF Account
<1> QED
  BY <1>2, <1>3

LEMMA EnteredType ==
  ASSUME NEW a \in Account
  PROVE  /\ Entered(a) \in Account
         /\ Entered(a).key = a.key /\ Entered(a).state = a.state
<1>1. a.inuse + 1 \in Int /\ 0 \in 0 .. MAX_FAILURES
  BY AccountsAssumption DEF Account
<1>2. Entered(a) = [a EXCEPT !.failures = 0, !.inuse = a.inuse + 1]
  BY DEF Entered, Account
<1> QED
  BY <1>1, <1>2 DEF Account

LEMMA InuseType ==
  ASSUME NEW a \in Account, NEW x \in Int
  PROVE  /\ [a EXCEPT !.inuse = x] \in Account
         /\ [a EXCEPT !.inuse = x].state = a.state
         /\ [a EXCEPT !.inuse = x].key = a.key
BY DEF Account

LEMMA ReleasedType ==
  ASSUME TableInv, NEW c
  PROVE  /\ Usable(Released(c))
         /\ \A i \in Spots : /\ Released(c)[i].state = accounts[i].state
                             /\ Released(c)[i].key = accounts[i].key
<1>1. Usable(accounts)
  BY DEF TableInv
<1>2. CASE c.logged \in Spots
  <2> DEFINE k == c.logged
             b == [accounts[k] EXCEPT !.inuse = accounts[k].inuse - 1]
  <2>1. /\ accounts[k] \in Account /\ accounts[k].inuse - 1 \in Int
        /\ accounts[k].state # "free" => accounts[k].key \in Names \cup Addresses
    BY <1>1, <1>2 DEF Usable, Account
  <2>2. b \in Account /\ b.state = accounts[k].state /\ b.key = accounts[k].key
    BY <2>1, InuseType
  <2>3. Released(c) = [accounts EXCEPT ![k] = b]
    BY <1>2 DEF Released
  <2> HIDE DEF b, k
  <2>4. k \in Spots
    BY <1>2 DEF k
  <2>5. /\ Usable(Released(c)) /\ Released(c)[k] = b
        /\ \A j \in Spots \ {k} : Released(c)[j] = accounts[j]
    BY <1>1, <2>1, <2>2, <2>3, <2>4 DEF Usable
  <2> QED
    BY <2>2, <2>5
<1>3. CASE c.logged \notin Spots
  BY <1>1, <1>3 DEF Released
<1> QED
  BY <1>2, <1>3

LEMMA LoggedOutType ==
  ASSUME NEW c \in Client
  PROVE  LoggedOut(c) \in Client
BY DEF LoggedOut, Client

LEMMA WithFacts ==
  ASSUME NEW key, With(key) # {}
  PROVE  /\ Least(With(key)) \in Spots /\ Listed(Least(With(key)))
         /\ accounts[Least(With(key))].state # "free"
<1>1. With(key) \subseteq Nat
  BY Numbers DEF With
<1>2. Least(With(key)) \in With(key)
  BY <1>1, LeastIn
<1> QED
  BY <1>2 DEF With, Listed

(* checklogin.                                                             *)
LEMMA LoginTable ==
  ASSUME TableInv, NEW key, NEW result, AfterLogin(key, result),
         UNCHANGED num_accounts, clients' \in [Slots -> Client]
  PROVE  TableInv'
<1> DEFINE k == Least(With(key))
<1>1. Usable(accounts)
  BY DEF TableInv
<1>2. CASE With(key) = {} \/ result \in {"in use", "blocked"}
  <2>1. UNCHANGED <<accounts, num_accounts, file>>
    BY <1>2 DEF AfterLogin
  <2> QED
    BY <1>1, <2>1, QuietStep
<1>3. CASE With(key) # {} /\ result \notin {"in use", "blocked"}
  <2>1. k \in Spots /\ accounts[k].state # "free"
    BY <1>3, WithFacts
  <2>2. accounts[k] \in Account /\ accounts[k].key \in Names \cup Addresses
    BY <1>1, <2>1 DEF Usable
  <2>3. CASE result = "yes"
    <3>1. accounts' = [accounts EXCEPT ![k] = Entered(accounts[k])] /\ UNCHANGED file
      BY <1>3, <2>3 DEF AfterLogin
    <3>2. /\ Entered(accounts[k]) \in Account
          /\ Entered(accounts[k]).key = accounts[k].key
          /\ Entered(accounts[k]).state = accounts[k].state
      BY <2>2, EnteredType
    <3> HIDE DEF k
    <3>3. /\ Usable(accounts') /\ accounts'[k] = Entered(accounts[k])
          /\ \A j \in Spots \ {k} : accounts'[j] = accounts[j]
      BY <1>1, <2>1, <2>2, <3>1, <3>2 DEF Usable
    <3> QED
      BY <3>1, <3>2, <3>3, QuietStep
  <2>4. CASE result # "yes"
    <3>1. accounts' = [accounts EXCEPT ![k] = Failed(accounts[k])]
          /\ file' = Written(accounts', num_accounts)
      BY <1>3, <2>4 DEF AfterLogin
    <3>2. /\ Failed(accounts[k]) \in Account
          /\ Failed(accounts[k]).key = accounts[k].key
          /\ Failed(accounts[k]).state # "free"
      BY <2>1, <2>2, FailedType
    <3> HIDE DEF k
    <3>3. /\ Usable(accounts') /\ accounts'[k] = Failed(accounts[k])
          /\ \A j \in Spots \ {k} : accounts'[j] = accounts[j]
      BY <1>1, <2>1, <2>2, <3>1, <3>2 DEF Usable
    <3>4. Enough(accounts', num_accounts')
      BY <2>1, <3>2, <3>3, StillEnough DEF TableInv
    <3> QED
      BY <3>1, <3>3, <3>4, WritingStep
  <2> QED
    BY <2>3, <2>4
<1> QED
  BY <1>2, <1>3

(* One client changes and the table does not, but for who uses it.         *)
LEMMA ClientTable ==
  ASSUME TableInv, NEW s \in Slots, NEW d \in Client,
         clients' = [clients EXCEPT ![s] = d],
         \/ accounts' = accounts
         \/ \E c : accounts' = Released(c),
         UNCHANGED <<num_accounts, file>>
  PROVE  TableInv'
<1>1. clients' \in [Slots -> Client]
  BY DEF TableInv
<1>2. /\ Usable(accounts')
      /\ \A i \in Spots : /\ accounts'[i].state = accounts[i].state
                          /\ accounts'[i].key = accounts[i].key
  <2>1. CASE accounts' = accounts
    BY <2>1 DEF TableInv
  <2>2. CASE \E c : accounts' = Released(c)
    BY <2>2, ReleasedType
  <2> QED
    BY <2>1, <2>2
<1> QED
  BY <1>1, <1>2, QuietStep

LEMMA GoneType == Gone \in Client
BY DEF Gone, Client

LEMMA ConnectTable ==
  ASSUME TableInv, NEW s \in Slots, NEW realip \in Addresses \cup {Elsewhere},
         NEW spectator \in BOOLEAN, Connect(s, realip, spectator)
  PROVE  TableInv'
<1> DEFINE d == [Gone EXCEPT !.state = "preconnected", !.realip = realip,
                             !.spectator = spectator]
<1>1. d \in Client
  BY GoneType DEF Client
<1>2. clients' = [clients EXCEPT ![s] = d] /\ UNCHANGED <<accounts, num_accounts, file>>
  BY DEF Connect
<1> HIDE DEF d
<1> QED
  BY <1>1, <1>2, ClientTable

LEMMA NewTable ==
  ASSUME TableInv, NEW s \in Slots, New(s)
  PROVE  TableInv'
<1> DEFINE c == [clients[s] EXCEPT
                   !.state = IF @ = "preconnected" THEN "connected" ELSE @]
           result == CheckLogin(c.realip, FALSE)
           k == Least(With(c.realip))
<1>1. clients[s] \in Client /\ clients \in [Slots -> Client] /\ Usable(accounts)
  BY DEF TableInv
<1>2. c \in Client
  BY <1>1 DEF Client
<1>3. \/ /\ accounts' = Released(c)
         /\ clients' = [clients EXCEPT ![s] = [LoggedOut(c) EXCEPT !.logged = Exempt]]
         /\ UNCHANGED <<num_accounts, file>>
      \/ /\ clients' = [clients EXCEPT ![s] = c]
         /\ UNCHANGED <<accounts, num_accounts, file>>
      \/ /\ AfterLogin(c.realip, result)
         /\ clients' =
              [clients EXCEPT ![s] =
                 IF result = "yes"
                 THEN [c EXCEPT !.logged = k, !.login = accounts[k].name]
                 ELSE [c EXCEPT !.logged = 0, !.login = NoName]]
         /\ UNCHANGED num_accounts
  BY DEF New
<1> HIDE DEF c, result
<1>4. CASE /\ accounts' = Released(c)
           /\ clients' = [clients EXCEPT ![s] = [LoggedOut(c) EXCEPT !.logged = Exempt]]
           /\ UNCHANGED <<num_accounts, file>>
  <2>1. LoggedOut(c) \in Client
    BY <1>2, LoggedOutType
  <2>2. [LoggedOut(c) EXCEPT !.logged = Exempt] \in Client
    BY <2>1 DEF Client
  <2> QED
    BY <1>4, <2>2, ClientTable
<1>5. CASE /\ clients' = [clients EXCEPT ![s] = c]
           /\ UNCHANGED <<accounts, num_accounts, file>>
  BY <1>2, <1>5, ClientTable
<1>6. CASE /\ AfterLogin(c.realip, result)
           /\ clients' =
                [clients EXCEPT ![s] =
                   IF result = "yes"
                   THEN [c EXCEPT !.logged = k, !.login = accounts[k].name]
                   ELSE [c EXCEPT !.logged = 0, !.login = NoName]]
           /\ UNCHANGED num_accounts
  <2> DEFINE d == IF result = "yes"
                  THEN [c EXCEPT !.logged = k, !.login = accounts[k].name]
                  ELSE [c EXCEPT !.logged = 0, !.login = NoName]
  <2>3. d \in Client
    <3>1. CASE result = "yes"
      <4>1. With(c.realip) # {}
        BY <3>1, NotYes DEF result
      <4>2. k \in Spots
        BY <4>1, WithFacts
      <4>3. accounts[k].name \in Names \cup {NoName}
        BY <1>1, <4>2 DEF Usable, Account
      <4> HIDE DEF k
      <4> QED
        BY <1>2, <3>1, <4>2, <4>3 DEF Client
    <3>2. CASE result # "yes"
      BY <1>2, <3>2 DEF Client
    <3> QED
      BY <3>1, <3>2
  <2>4. clients' = [clients EXCEPT ![s] = d]
    BY <1>6
  <2> HIDE DEF d
  <2>5. clients' \in [Slots -> Client]
    BY <1>1, <2>3, <2>4
  <2> QED
    BY <1>6, <2>5, LoginTable
<1> QED
  BY <1>3, <1>4, <1>5, <1>6

LEMMA SayTable ==
  ASSUME TableInv, NEW s \in Slots, NEW name \in Names, NEW given, NEW right,
         Say(s, name, given, right)
  PROVE  TableInv'
<1> DEFINE c == clients[s]
           login == IF c.login = NoName THEN name ELSE c.login
           password == given \/ c.login # NoName
           result == CheckLogin(login, right)
           k == Least(With(login))
<1>1. c \in Client /\ clients \in [Slots -> Client]
  BY DEF TableInv
<1>2. login \in Names
  BY <1>1 DEF Client
<1>3. CASE ~ password
  <2>1. /\ clients' = [clients EXCEPT ![s] = [c EXCEPT !.login = login]]
        /\ UNCHANGED <<accounts, num_accounts, file>>
    BY <1>3 DEF Say
  <2> HIDE DEF login, c
  <2>2. [c EXCEPT !.login = login] \in Client
    BY <1>1, <1>2 DEF Client
  <2> QED
    BY <2>1, <2>2, ClientTable
<1>4. CASE password
  <2> DEFINE d == CASE result = "yes" -> [c EXCEPT !.logged = k, !.login = login]
                    [] result = "wrong" -> [c EXCEPT !.login = login]
                    [] OTHER -> [c EXCEPT !.login = NoName]
  <2>1. /\ AfterLogin(login, result) /\ UNCHANGED num_accounts
        /\ clients' = [clients EXCEPT ![s] = d]
    BY <1>4 DEF Say
  <2>2. d \in Client
    <3>1. result = "yes" => k \in Spots
      <4> SUFFICES ASSUME result = "yes" PROVE k \in Spots
        OBVIOUS
      <4> HIDE DEF login
      <4>1. With(login) # {}
        BY NotYes
      <4> QED
        BY <4>1, WithFacts
    <3> HIDE DEF login, result, k, c
    <3>2. CASE result = "yes"
      BY <1>1, <1>2, <3>1, <3>2 DEF Client
    <3>3. CASE result = "wrong"
      BY <1>1, <1>2, <3>3 DEF Client
    <3>4. CASE result \notin {"yes", "wrong"}
      BY <1>1, <3>4 DEF Client
    <3> QED
      BY <3>2, <3>3, <3>4
  <2> HIDE DEF d, login, result
  <2>3. clients' \in [Slots -> Client]
    BY <1>1, <2>1, <2>2
  <2> QED
    BY <2>1, <2>3, LoginTable
<1> QED
  BY <1>3, <1>4

LEMMA GoingTable ==
  ASSUME TableInv, NEW s \in Slots, Drop(s) \/ Free(s)
  PROVE  TableInv'
<1>1. CASE Drop(s)
  <2> DEFINE c == clients[s]
  <2>1. LoggedOut(c) \in Client
    BY LoggedOutType DEF TableInv
  <2>2. [LoggedOut(c) EXCEPT !.state = "zombie"] \in Client
    BY <2>1 DEF Client
  <2>3. /\ accounts' = Released(c) /\ UNCHANGED <<num_accounts, file>>
        /\ clients' = [clients EXCEPT ![s] = [LoggedOut(c) EXCEPT !.state = "zombie"]]
    BY <1>1 DEF Drop
  <2> QED
    BY <2>2, <2>3, ClientTable
<1>2. CASE Free(s)
  BY <1>2, GoneType, ClientTable DEF Free
<1> QED
  BY <1>1, <1>2

(* acc_block, acc_unblock.                                                 *)
LEMMA BlockTable ==
  ASSUME TableInv, NEW i \in Spots, Block(i) \/ Unblock(i)
  PROVE  TableInv'
<1> DEFINE a == accounts[i]
<1>1. /\ Usable(accounts) /\ Enough(accounts, num_accounts)
      /\ clients \in [Slots -> Client]
  BY DEF TableInv
<1>2. a \in Account /\ a.state # "free" /\ a.key \in Names \cup Addresses
  BY <1>1 DEF Usable, Block, Unblock, Listed
<1>3. /\ UNCHANGED <<num_accounts, clients>> /\ file' = Written(accounts', num_accounts)
  BY DEF Block, Unblock
<1>4. PICK b \in Account : /\ accounts' = [accounts EXCEPT ![i] = b]
                           /\ b.key = a.key /\ b.state # "free"
  <2>1. CASE Block(i)
    <3>1. accounts' = [accounts EXCEPT ![i] = [a EXCEPT !.state = "blocked"]]
      BY <2>1 DEF Block
    <3> HIDE DEF a
    <3>2. /\ [a EXCEPT !.state = "blocked"] \in Account
          /\ [a EXCEPT !.state = "blocked"].key = a.key
          /\ [a EXCEPT !.state = "blocked"].state # "free"
      BY <1>2 DEF Account
    <3> QED
      BY <3>1, <3>2
  <2>2. CASE Unblock(i) /\ a.state = "blocked"
    <3> DEFINE b == [state |-> "ok", key |-> a.key, name |-> a.name,
                     failures |-> 0, inuse |-> a.inuse]
    <3>1. accounts' = [accounts EXCEPT ![i] = [a EXCEPT !.state = "ok", !.failures = 0]]
      BY <2>2 DEF Unblock
    <3> HIDE DEF a
    <3>5. PICK e : e = [a EXCEPT !.state = "ok", !.failures = 0]
      OBVIOUS
    <3>2. e = b
      BY <1>2, <3>5 DEF Account
    <3>3. 0 \in 0 .. MAX_FAILURES
      BY AccountsAssumption
    <3>4. b \in Account /\ b.key = a.key /\ b.state # "free"
      BY <1>2, <3>3 DEF Account
    <3> QED
      BY <3>1, <3>2, <3>4, <3>5
  <2>3. CASE Unblock(i) /\ a.state # "blocked"
    <3>1. accounts' = [accounts EXCEPT ![i] = a]
      BY <1>1, <2>3 DEF Unblock, Usable
    <3> QED
      BY <1>2, <3>1
  <2> QED
    BY <2>1, <2>2, <2>3
<1>5. /\ Usable(accounts') /\ accounts'[i] = b
      /\ \A j \in Spots \ {i} : accounts'[j] = accounts[j]
  BY <1>1, <1>2, <1>4 DEF Usable
<1>6. Enough(accounts', num_accounts')
  <2>1. \A j \in Spots : accounts[j].state = "free" <=> accounts'[j].state = "free"
    BY <1>2, <1>4, <1>5
  <2>2. Enough(accounts', num_accounts)
    BY <1>1, <2>1, StillEnough
  <2> QED
    BY <1>3, <2>2
<1> QED
  BY <1>1, <1>3, <1>5, <1>6, WritingStep

(* acc_create finds a place, and what is listed then is one more.          *)
LEMMA CreateTable ==
  ASSUME TableInv, NEW key \in Names \cup Addresses, NEW name \in Names \cup {NoName},
         Create(key, name)
  PROVE  TableInv'
<1> DEFINE Last == {i \in Spots : Listed(i)}
           Open == {i \in Spots : ~ Listed(i) /\
                      (accounts[i].state = "free" \/ \A j \in Last : j < i)}
           spot == Least(Open)
           M == MAX_ACCOUNTS
           held == Cardinality(Before(accounts, M))
<1>1. /\ Usable(accounts) /\ Enough(accounts, num_accounts)
      /\ clients \in [Slots -> Client] /\ NoName \notin Names
  BY AccountsAssumption DEF TableInv
<1>2. /\ num_accounts < MAX_ACCOUNTS /\ num_accounts' = num_accounts + 1
      /\ file' = Written(accounts', num_accounts') /\ UNCHANGED clients
      /\ accounts' = [accounts EXCEPT ![spot].state = "ok", ![spot].key = key,
                                      ![spot].name = name]
      /\ name # NoName <=> key \in Addresses
  BY DEF Create
<1>3. num_accounts \in Nat /\ M \in Nat /\ M \in Spots /\ M \in 0 .. M
      /\ num_accounts < M /\ num_accounts + 1 \in 0 .. M
  <2>1. num_accounts \in 0 .. MAX_ACCOUNTS /\ num_accounts < MAX_ACCOUNTS
    BY <1>1, <1>2 DEF Enough
  <2> HIDE DEF Open, Last
  <2> QED
    BY <2>1, AccountsAssumption DEF Spots
<1>4. held \in Nat /\ num_accounts <= held
  BY <1>1, <1>3, BeforeSets DEF Enough
<1>5. \A i \in Spots : /\ i \in 0 .. M /\ Cardinality(Before(accounts, i)) \in Nat
                       /\ Cardinality(Before(accounts, i)) <= i
  BY BeforeNext, BeforeSets
<1>6. \A i \in Spots : ~ Listed(i) => i \in Open
  <2> SUFFICES ASSUME NEW i \in Spots, ~ Listed(i), accounts[i].state # "free",
                      NEW j \in Spots, Listed(j)
               PROVE  j < i
    OBVIOUS
  <2>1. /\ ~ (Cardinality(Before(accounts, i)) <= num_accounts)
        /\ Cardinality(Before(accounts, j)) <= num_accounts
    BY DEF Listed
  <2>2. i \in Nat /\ j \in Nat
    BY Numbers
  <2>3. CASE i <= j
    <3>1. j \in 0 .. M /\ i \in 0 .. j
      BY <1>5, <2>2, <2>3
    <3>2. Cardinality(Before(accounts, i)) <= Cardinality(Before(accounts, j))
      BY <3>1, BeforeSets
    <3> QED
      BY <1>3, <1>5, <2>1, <3>2
  <2> QED
    BY <2>2, <2>3
<1>7. Open # {}
  <2> SUFFICES ASSUME Open = {} PROVE FALSE
    OBVIOUS
  <2>1. \A i \in Spots : accounts[i].state # "free"
    BY <1>6 DEF Listed
  <2>2. Before(accounts, M) = 1 .. M
    BY <2>1 DEF Before, Spots
  <2>3. held = M
    BY <1>3, <2>2, FS_Interval
  <2>4. held <= num_accounts
    BY <1>3, <1>6 DEF Listed
  <2> HIDE DEF held, M
  <2> QED
    BY <1>3, <2>3, <2>4
<1>8. spot \in Open
  <2>1. Open \subseteq Nat
    BY Numbers
  <2> HIDE DEF Open
  <2> QED
    BY <1>7, <2>1, LeastIn
<1>9. spot \in Spots /\ ~ Listed(spot)
  BY <1>8
<1> HIDE DEF spot
<1> DEFINE a == accounts[spot]
           b == [state |-> "ok", key |-> key, name |-> name,
                 failures |-> a.failures, inuse |-> a.inuse]
<1>10. a \in Account
  BY <1>1, <1>9 DEF Usable
<1>11. b \in Account /\ b.state # "free" /\ b.key \in Names \cup Addresses
  <2>1. a.failures \in 0 .. MAX_FAILURES /\ a.inuse \in Int
    BY <1>10 DEF Account
  <2> HIDE DEF a
  <2> QED
    BY <2>1 DEF Account
<1>12. accounts' = [accounts EXCEPT ![spot] = b]
  <2>3. PICK e : e = [a EXCEPT !.state = "ok", !.key = key, !.name = name]
    OBVIOUS
  <2>1. e = b
    <3> HIDE DEF a
    <3> QED
      BY <1>10, <2>3 DEF Account
  <2>2. accounts' = [accounts EXCEPT ![spot] =
                       [a EXCEPT !.state = "ok", !.key = key, !.name = name]]
    BY <1>1, <1>2, <1>9 DEF Usable
  <2> QED
    BY <2>1, <2>2, <2>3
<1> HIDE DEF b
<1>13. /\ Usable(accounts') /\ accounts'[spot] = b
       /\ \A j \in Spots \ {spot} : accounts'[j] = accounts[j]
  BY <1>1, <1>9, <1>11, <1>12 DEF Usable
<1>14. Before(accounts', M) = Before(accounts, M) \cup {spot}
  <2>1. 1 .. M = Spots
    BY DEF Spots
  <2> QED
    BY <1>9, <1>11, <1>13, <2>1 DEF Before
<1>15. num_accounts + 1 <= Cardinality(Before(accounts', M))
  <2>1. IsFiniteSet(Before(accounts, M))
    BY <1>3, BeforeSets
  <2>2. Cardinality(Before(accounts', M)) =
          IF spot \in Before(accounts, M) THEN held ELSE held + 1
    BY <1>14, <2>1, FS_AddElement
  <2>3. CASE spot \in Before(accounts, M)
    <3>1. accounts[spot].state # "free"
      BY <2>3 DEF Before
    <3>2. ~ (Cardinality(Before(accounts, spot)) <= num_accounts)
      BY <1>9, <3>1 DEF Listed
    <3>3. Cardinality(Before(accounts, spot)) <= held
      BY <1>3, <1>5, <1>9, BeforeSets
    <3> QED
      BY <1>3, <1>4, <1>5, <1>9, <2>2, <2>3, <3>2, <3>3
  <2>4. CASE spot \notin Before(accounts, M)
    BY <1>3, <1>4, <2>2, <2>4
  <2> QED
    BY <2>3, <2>4
<1>16. Enough(accounts', num_accounts')
  BY <1>2, <1>3, <1>15 DEF Enough
<1> QED
  BY <1>1, <1>2, <1>13, <1>16, WritingStep

(* acc_remove: what is listed is one less.                                 *)
LEMMA RemoveTable ==
  ASSUME TableInv, NEW i \in Spots, Remove(i)
  PROVE  TableInv'
<1> DEFINE user == accounts[i].inuse
           Out == IF user = 0 THEN accounts ELSE Released(clients[user])
           M == MAX_ACCOUNTS
           held == Cardinality(Before(accounts, M))
<1>1. /\ Usable(accounts) /\ Enough(accounts, num_accounts)
      /\ clients \in [Slots -> Client]
  BY SMTT(30) DEF TableInv
<1>2. /\ user \in 0 .. MAX_CLIENTS /\ Listed(i)
      /\ num_accounts' = num_accounts - 1
      /\ file' = Written(accounts', num_accounts')
      /\ accounts' = [Out EXCEPT ![i].state = "free", ![i].key = NoName, ![i].name = NoName]
      /\ clients' = IF user = 0 THEN clients
                    ELSE [clients EXCEPT ![user] = LoggedOut(clients[user])]
  BY DEF Remove
<1>3. clients' \in [Slots -> Client]
  <2>1. CASE user = 0
    BY <1>1, <1>2, <2>1
  <2>2. CASE user # 0
    <3>1. user \in Slots
      <4>1. MAX_CLIENTS \in Nat /\ user \in 0 .. MAX_CLIENTS
        BY <1>2, AccountsAssumption
      <4> HIDE DEF user
      <4> QED
        BY <2>2, <4>1, SMTT(30) DEF Slots
    <3>2. LoggedOut(clients[user]) \in Client
      BY <1>1, <3>1, LoggedOutType
    <3> HIDE DEF user
    <3> QED
      BY <1>1, <1>2, <2>2, <3>1, <3>2
  <2> QED
    BY <2>1, <2>2
<1>4. /\ Usable(Out)
      /\ \A j \in Spots : Out[j].state = accounts[j].state /\ Out[j].key = accounts[j].key
  BY <1>1, ReleasedType
<1> HIDE DEF user, Out
<1> DEFINE a == Out[i]
           b == [state |-> "free", key |-> NoName, name |-> NoName,
                 failures |-> a.failures, inuse |-> a.inuse]
<1>5. a \in Account
  BY <1>4 DEF Usable
<1>6. b \in Account /\ b.state = "free"
  <2>1. a.failures \in 0 .. MAX_FAILURES /\ a.inuse \in Int
    BY <1>5 DEF Account
  <2> HIDE DEF a
  <2> QED
    BY <2>1 DEF Account
<1>7. accounts' = [Out EXCEPT ![i] = b]
  <2>1. PICK e : e = [a EXCEPT !.state = "free", !.key = NoName, !.name = NoName]
    OBVIOUS
  <2>2. e = b
    <3> HIDE DEF a
    <3> QED
      BY <1>5, <2>1 DEF Account
  <2>3. accounts' = [Out EXCEPT ![i] =
                       [a EXCEPT !.state = "free", !.key = NoName, !.name = NoName]]
    BY <1>2, <1>4 DEF Usable
  <2> QED
    BY <2>1, <2>2, <2>3
<1> HIDE DEF a, b
<1>8. /\ Usable(accounts') /\ accounts'[i] = b
      /\ \A j \in Spots \ {i} : accounts'[j] = Out[j]
  BY <1>4, <1>6, <1>7 DEF Usable
<1>9. M \in Nat /\ 1 .. M = Spots /\ M \in 0 .. M
  BY AccountsAssumption DEF Spots
<1>10. Before(accounts', M) = Before(accounts, M) \ {i}
  BY <1>4, <1>6, <1>8, <1>9 DEF Before
<1>11. i \in Before(accounts, M)
  BY <1>2, <1>9 DEF Before, Listed
<1>12. IsFiniteSet(Before(accounts, M)) /\ held \in Nat
  BY <1>9, BeforeSets
<1>13. Cardinality(Before(accounts', M)) = held - 1
  BY <1>10, <1>11, <1>12, FS_RemoveElement
<1>14. num_accounts \in 0 .. M /\ num_accounts <= held
  BY <1>1 DEF Enough
<1>15. num_accounts # 0
  <2>1. Cardinality(Before(accounts, i)) <= num_accounts /\ accounts[i].state # "free"
    BY <1>2 DEF Listed
  <2>2. Cardinality(Before(accounts, i - 1)) \in Nat
        /\ Cardinality(Before(accounts, i)) = Cardinality(Before(accounts, i - 1)) + 1
    BY <2>1, BeforeNext, BeforeSets
  <2> HIDE DEF held, M
  <2> QED
    BY <2>1, <2>2
<1>16. Enough(accounts', num_accounts')
  <2> HIDE DEF held
  <2>1. num_accounts - 1 \in 0 .. M /\ num_accounts - 1 <= held - 1
    BY <1>9, <1>12, <1>14, <1>15
  <2> QED
    BY <1>2, <1>13, <2>1 DEF Enough
<1> QED
  BY <1>2, <1>3, <1>8, <1>16, WritingStep

-----------------------------------------------------------------------------
(* The accounts of the file lie at the start of the table: they alone are  *)
(* listed.                                                                 *)
LEMMA ReadStep ==
  ASSUME file \in Seq(Entry), Len(file) <= MAX_ACCOUNTS, UNCHANGED file,
         Usable(accounts'), num_accounts' = Len(file),
         \A i \in DOMAIN file : /\ accounts'[i].state = file[i].state
                                /\ accounts'[i].key = file[i].key,
         clients' \in [Slots -> Client]
  PROVE  TableInv'
<1> DEFINE n == Len(file)
           table == accounts'
           M == MAX_ACCOUNTS
<1>1. n \in 0 .. M /\ M \in Nat /\ DOMAIN file = 1 .. n /\ M \in 0 .. M /\ n \in Nat
  BY AccountsAssumption
<1>2. \A i \in DOMAIN file : table[i].state # "free"
  <2> SUFFICES ASSUME NEW i \in DOMAIN file PROVE file[i].state # "free"
    OBVIOUS
  <2>1. file[i] \in Entry
    OBVIOUS
  <2> QED
    BY <2>1 DEF Entry
<1> HIDE DEF n, table
<1>3. \A i \in 0 .. M : n <= i => 1 .. n \subseteq Before(table, i)
  BY <1>1, <1>2 DEF Before
<1>4. Cardinality(1 .. n) = n
  BY <1>1, FS_Interval
<1>5. Enough(table, n)
  <2>1. 1 .. n \subseteq Before(table, M)
    BY <1>1, <1>3
  <2>2. n <= Cardinality(Before(table, M))
    BY <1>1, <1>4, <2>1, BeforeSets
  <2> QED
    BY <1>1, <2>2 DEF Enough
<1>6. ASSUME NEW i \in Spots, table[i].state # "free",
             Cardinality(Before(table, i)) <= n
      PROVE  i \in DOMAIN file
  <2> SUFFICES ASSUME i \notin 1 .. n PROVE FALSE
    BY <1>1
  <2>1. i \in 0 .. M /\ n <= i - 1 /\ i - 1 \in 0 .. M
    BY <1>1 DEF Spots
  <2>2. PICK j : j = i - 1
    OBVIOUS
  <2>3. n <= Cardinality(Before(table, j)) /\ Cardinality(Before(table, j)) \in Nat
    <3>1. j \in 0 .. MAX_ACCOUNTS
      BY <2>1, <2>2
    <3>2. 1 .. n \subseteq Before(table, j)
      BY <1>3, <2>1, <2>2
    <3> DEFINE S == 1 .. n
    <3>3. S \subseteq Before(table, j) /\ Cardinality(S) = n
      BY <1>4, <3>2
    <3> HIDE DEF S
    <3>4. Cardinality(S) <= Cardinality(Before(table, j))
      BY <3>1, <3>3, BeforeSets
    <3>5. Cardinality(Before(table, j)) \in Nat
      BY <3>1, BeforeSets
    <3> QED
      BY <3>3, <3>4, <3>5
  <2>4. Cardinality(Before(table, i)) = Cardinality(Before(table, i - 1)) + 1
    BY <1>6, BeforeNext
  <2> QED
    BY <1>1, <1>6, <2>2, <2>3, <2>4
<1>7. Says(file, table, n)
  BY <1>6 DEF Says, table
<1> QED
  BY <1>5, <1>7 DEF TableInv, n, table

(* What is read is an account.                                             *)
LEMMA ReadType ==
  ASSUME file \in Seq(Entry), NEW n \in DOMAIN file, NEW x \in Int
  PROVE  LET a == [Read(n) EXCEPT !.inuse = x]
         IN  /\ a \in Account /\ a.state = file[n].state /\ a.key = file[n].key
             /\ a.key \in Names \cup Addresses
             /\ Read(n) \in Account /\ Read(n).state = file[n].state
             /\ Read(n).key = file[n].key
<1>1. file[n] \in Entry
  OBVIOUS
<1>2. /\ file[n].key \in Names \cup Addresses /\ file[n].name \in Names \cup {NoName}
      /\ file[n].state \in {"ok", "blocked"} /\ file[n].failures \in 0 .. MAX_FAILURES
  BY <1>1 DEF Entry
<1> QED
  BY <1>2 DEF Read, Account

LEMMA FitsFacts ==
  ASSUME TableInv, NEW c, Fits(c) # {}
  PROVE  /\ Least(Fits(c)) \in DOMAIN file /\ Least(Fits(c)) \in Spots
         /\ file[Least(Fits(c))].name \in Names \cup {NoName}
<1>1. DOMAIN file \subseteq Spots /\ Fits(c) \subseteq DOMAIN file
  BY AccountsAssumption DEF TableInv, Spots, Fits
<1>2. Least(Fits(c)) \in Fits(c)
  BY <1>1, Numbers, LeastIn
<1>3. file[Least(Fits(c))] \in Entry
  BY <1>1, <1>2 DEF TableInv
<1> QED
  BY <1>1, <1>2, <1>3 DEF Entry

LEMMA RenewedType ==
  ASSUME TableInv, NEW s \in Slots
  PROVE  Renewed(s) \in Client
<1> DEFINE c == clients[s]
           k == Least(Fits(c))
<1>1. c \in Client
  BY DEF TableInv
<1>2. CASE ~ Asks(s)
  BY <1>1, <1>2 DEF Renewed
<1>3. CASE Asks(s) /\ StaysIn(s)
  <2>1. Fits(c) # {}
    BY <1>3 DEF StaysIn, Admits
  <2>2. k \in Spots /\ file[k].name \in Names \cup {NoName}
    BY <2>1, FitsFacts
  <2>3. PICK login \in Names \cup {NoName} :
          Renewed(s) = [c EXCEPT !.logged = k, !.login = login]
    <3>1. CASE file[k].key \in Addresses
      BY <1>3, <2>2, <3>1 DEF Renewed
    <3>2. CASE file[k].key \notin Addresses
      BY <1>1, <1>3, <3>2 DEF Renewed, Client
    <3> QED
      BY <3>1, <3>2
  <2> HIDE DEF k, c
  <2> QED
    BY <1>1, <2>2, <2>3 DEF Client
<1>4. CASE Asks(s) /\ ~ StaysIn(s)
  <2>1. Renewed(s) = [c EXCEPT !.logged = 0, !.login = NoName]
    BY <1>4 DEF Renewed
  <2> HIDE DEF c
  <2> QED
    BY <1>1, <2>1 DEF Client
<1> QED
  BY <1>2, <1>3, <1>4

LEMMA LevelTable ==
  ASSUME TableInv, LoadAccounts \/ LoadNothing \/ Restart
  PROVE  TableInv'
<1>1. /\ Usable(accounts) /\ file \in Seq(Entry) /\ Len(file) <= MAX_ACCOUNTS
      /\ clients \in [Slots -> Client] /\ Enough(accounts, num_accounts)
  BY DEF TableInv
<1>2. DOMAIN file \subseteq Spots
  BY <1>1, AccountsAssumption DEF Spots
<1>3. CASE LoadAccounts
  <2> DEFINE Users(i) == {s \in Slots : StaysIn(s) /\ clients'[s].logged = i}
             a(i) == [Read(i) EXCEPT !.inuse = Cardinality(Users(i))]
  <2>1. /\ clients' = [s \in Slots |-> Renewed(s)]
        /\ accounts' = [i \in Spots |-> IF i \in DOMAIN file THEN a(i) ELSE accounts[i]]
        /\ num_accounts' = Len(file) /\ UNCHANGED file
    BY <1>3 DEF LoadAccounts
  <2>2. clients' \in [Slots -> Client]
    BY <2>1, RenewedType
  <2>3. \A i \in DOMAIN file : Cardinality(Users(i)) \in Int
    <3>1. \A i \in DOMAIN file : Users(i) \subseteq Slots
      OBVIOUS
    <3> HIDE DEF Users
    <3> QED
      BY <3>1, SlotSets
  <2> HIDE DEF Users
  <2>4. \A i \in DOMAIN file : /\ a(i) \in Account /\ a(i).state = file[i].state
                               /\ a(i).key = file[i].key
                               /\ a(i).key \in Names \cup Addresses
    BY <1>1, <2>3, ReadType
  <2> HIDE DEF a
  <2>5. Usable(accounts')
    BY <1>1, <2>1, <2>4 DEF Usable
  <2>6. \A i \in DOMAIN file : /\ accounts'[i].state = file[i].state
                               /\ accounts'[i].key = file[i].key
    BY <1>2, <2>1, <2>4
  <2> QED
    BY <1>1, <2>1, <2>2, <2>5, <2>6, ReadStep
<1>4. CASE LoadNothing
  <2>1. /\ clients' = [s \in Slots |->
             [clients[s] EXCEPT !.logged = IF @ = Exempt THEN @ ELSE 0, !.login = NoName]]
        /\ num_accounts' = 0 /\ UNCHANGED <<accounts, file>>
    BY <1>4 DEF LoadNothing
  <2>2. clients' \in [Slots -> Client]
    <3> SUFFICES ASSUME NEW s \in Slots PROVE clients'[s] \in Client
      BY <2>1
    <3> DEFINE c == clients[s]
               x == IF c.logged = Exempt THEN c.logged ELSE 0
    <3>1. c \in Client /\ x \in {0, Exempt}
      BY <1>1
    <3>2. clients'[s] = [c EXCEPT !.logged = x, !.login = NoName]
      BY <2>1
    <3> HIDE DEF c, x
    <3> QED
      BY <3>1, <3>2 DEF Client
  <2>3. Enough(accounts', num_accounts')
    <3>1. MAX_ACCOUNTS \in 0 .. MAX_ACCOUNTS /\ 0 \in 0 .. MAX_ACCOUNTS
      BY AccountsAssumption
    <3>2. Cardinality(Before(accounts, MAX_ACCOUNTS)) \in Nat
      BY <3>1, BeforeSets
    <3>3. 0 <= Cardinality(Before(accounts, MAX_ACCOUNTS))
      BY <3>2
    <3>4. Enough(accounts, 0)
      BY <3>1, <3>3 DEF Enough
    <3> QED
      BY <2>1, <3>4
  <2> QED
    BY <1>1, <2>1, <2>2, <2>3 DEF TableInv
<1>5. CASE Restart
  <2>1. /\ clients' = [s \in Slots |-> Gone]
        /\ accounts' = [i \in Spots |-> IF i \in DOMAIN file THEN Read(i) ELSE NoAccount]
        /\ num_accounts' = Len(file) /\ UNCHANGED file
    BY <1>5 DEF Restart
  <2>2. clients' \in [Slots -> Client]
    BY <2>1, GoneType
  <2>3. \A i \in DOMAIN file : /\ Read(i) \in Account /\ Read(i).state = file[i].state
                               /\ Read(i).key = file[i].key
                               /\ Read(i).key \in Names \cup Addresses
    <3>1. 0 \in Int
      OBVIOUS
    <3> QED
      BY <1>1, <3>1, ReadType
  <2>4. NoAccount \in Account /\ NoAccount.state = "free"
    <3>1. 0 \in 0 .. MAX_FAILURES
      BY AccountsAssumption
    <3> QED
      BY <3>1 DEF NoAccount, Account
  <2>5. Usable(accounts')
    BY <2>1, <2>3, <2>4 DEF Usable
  <2>6. \A i \in DOMAIN file : /\ accounts'[i].state = file[i].state
                               /\ accounts'[i].key = file[i].key
    BY <1>2, <2>1, <2>3
  <2> QED
    BY <1>1, <2>1, <2>2, <2>5, <2>6, ReadStep
<1> QED
  BY <1>3, <1>4, <1>5

-----------------------------------------------------------------------------
LEMMA TableInit == Init => TableInv
<1> SUFFICES ASSUME Init PROVE TableInv
  OBVIOUS
<1>1. /\ accounts = [i \in Spots |-> NoAccount] /\ num_accounts = 0
      /\ file = <<>> /\ clients = [s \in Slots |-> Gone]
  BY DEF Init
<1>2. NoAccount \in Account /\ NoAccount.state = "free"
  <2>1. 0 \in 0 .. MAX_FAILURES
    BY AccountsAssumption
  <2> QED
    BY <2>1 DEF NoAccount, Account
<1>3. Usable(accounts)
  BY <1>1, <1>2 DEF Usable
<1>4. Enough(accounts, num_accounts)
  <2>1. MAX_ACCOUNTS \in 0 .. MAX_ACCOUNTS /\ 0 \in 0 .. MAX_ACCOUNTS
    BY AccountsAssumption
  <2>2. Cardinality(Before(accounts, MAX_ACCOUNTS)) \in Nat
    BY <2>1, BeforeSets
  <2> QED
    BY <1>1, <2>1, <2>2 DEF Enough
<1>5. clients \in [Slots -> Client]
  BY <1>1, GoneType
<1>6. file \in Seq(Entry) /\ Len(file) <= MAX_ACCOUNTS
  BY <1>1, AccountsAssumption
<1> QED
  BY <1>1, <1>3, <1>4, <1>5, <1>6 DEF TableInv

LEMMA TableStep ==
  ASSUME TableInv, [Next]_vars
  PROVE  TableInv'
<1>1. CASE UNCHANGED vars
  <2>1. Usable(accounts') /\ clients' \in [Slots -> Client]
    BY <1>1 DEF TableInv, Usable, vars
  <2> QED
    BY <1>1, <2>1, QuietStep DEF vars
<1>2. ASSUME NEW s \in Slots, NEW realip \in Addresses \cup {Elsewhere},
             NEW spectator \in BOOLEAN, Connect(s, realip, spectator)
      PROVE  TableInv'
  BY <1>2, ConnectTable
<1>3. ASSUME NEW s \in Slots, NEW name \in Names, NEW given \in BOOLEAN,
             NEW right \in BOOLEAN, Say(s, name, given, right)
      PROVE  TableInv'
  BY <1>3, SayTable
<1>4. ASSUME NEW s \in Slots, New(s) \/ Drop(s) \/ Free(s)
      PROVE  TableInv'
  BY <1>4, NewTable, GoingTable
<1>5. ASSUME NEW key \in Names \cup Addresses, NEW name \in Names \cup {NoName},
             Create(key, name)
      PROVE  TableInv'
  BY <1>5, CreateTable
<1>6. ASSUME NEW i \in Spots, Remove(i) \/ Block(i) \/ Unblock(i)
      PROVE  TableInv'
  BY <1>6, RemoveTable, BlockTable
<1>7. CASE LoadAccounts \/ LoadNothing \/ Restart
  BY <1>7, LevelTable
<1> QED
  BY <1>1, <1>2, <1>3, <1>4, <1>5, <1>6, <1>7 DEF Next

(* The types, whether or not commands come in turn: there is always an     *)
(* account for each line that is written, a place for an account that is   *)
(* made, and what the file says can be read back (WriteAccounts,           *)
(* SV_LoadAccounts, SV_CreateAccount_f).                                   *)
THEOREM AccountsTypes ==
  Spec => []TypeOK
<1>1. TableInv => TypeOK
  BY DEF TableInv, TypeOK, Usable, Enough
<1> QED
  BY <1>1, TableInit, TableStep, PTL DEF Spec

(* What was done to an account survives a crash: as long as the number of  *)
(* accounts is that of the file, the file says of each what the table does *)
(* (sv_login.c:73).                                                        *)
THEOREM TheFileIsCurrent ==
  Spec => []FileIsCurrent
<1>1. TableInv => FileIsCurrent
  <2> SUFFICES ASSUME TableInv, NEW i \in Spots, Listed(i), num_accounts = Len(file)
               PROVE  \E n \in DOMAIN file : /\ file[n].key = accounts[i].key
                                             /\ file[n].state = accounts[i].state
    BY DEF FileIsCurrent
  <2>1. accounts[i].state # "free" /\ Cardinality(Before(accounts, i)) <= num_accounts
    BY DEF Listed
  <2>2. num_accounts # 0
    <3>1. Cardinality(Before(accounts, i - 1)) \in Nat
          /\ Cardinality(Before(accounts, i)) = Cardinality(Before(accounts, i - 1)) + 1
      BY <2>1, BeforeNext, BeforeSets
    <3> QED
      BY <2>1, <3>1
  <2>3. Says(file, accounts, num_accounts)
    BY <2>2 DEF TableInv
  <2> QED
    BY <2>1, <2>3 DEF Says
<1> QED
  BY <1>1, TableInit, TableStep, PTL DEF Spec

=============================================================================
