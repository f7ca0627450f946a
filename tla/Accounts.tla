------------------------------ MODULE Accounts ------------------------------
(***************************************************************************)
(* Accounts and who is logged in (sv_login.c): the table, the file it is   *)
(* written to and read from on every map change, the console commands, and *)
(* the clients that hold an account by its place in the table.             *)
(*                                                                         *)
(* An account is for a name, and wants a password, or for an address.      *)
(* Names differ in more than their case, are no longer than               *)
(* CLIENT_LOGIN_LEN, and of a password only matters whether it is right.   *)
(***************************************************************************)
EXTENDS Integers, Sequences, FiniteSets

CONSTANTS MAX_CLIENTS, MAX_ACCOUNTS, MAX_FAILURES,
          MaxInUse,     \* bounds inuse, which grows without end when an
                        \* account for an address is made and removed
          Names, Addresses,
          Elsewhere,    \* an address that never has an account
          sv_login,
          OutOfTurn     \* do commands come before "new", or after a drop?

Slots == 1 .. MAX_CLIENTS
Spots == 1 .. MAX_ACCOUNTS
NoName == 0
Exempt == MAX_ACCOUNTS + 1      \* logged is -1

ASSUME AccountsAssumption ==
  /\ MAX_CLIENTS \in Nat /\ MAX_ACCOUNTS \in Nat \ {0}
  /\ MAX_FAILURES \in Nat \ {0} /\ MaxInUse \in Nat
  /\ NoName \notin Names
  /\ Names \cap Addresses = {} /\ Elsewhere \notin Names \cup Addresses
  /\ sv_login \in 0 .. 2
  /\ OutOfTurn \in BOOLEAN

VARIABLES accounts,      \* accounts[]
          num_accounts,
          file,          \* what WriteAccounts has written
          clients        \* svs.clients

vars == <<accounts, num_accounts, file, clients>>

Account ==
  [state : {"free", "ok", "blocked"},
   key : Names \cup Addresses \cup {NoName},   \* login
   name : Names \cup {NoName},                 \* pass, if key is an address
   failures : 0 .. MAX_FAILURES, inuse : Int]

Entry ==
  [key : Names \cup Addresses, name : Names \cup {NoName},
   state : {"ok", "blocked"}, failures : 0 .. MAX_FAILURES]

Client ==
  [state : {"free", "preconnected", "connected", "zombie"},
   logged : Spots \cup {0, Exempt}, login : Names \cup {NoName},
   spectator : BOOLEAN, realip : Addresses \cup {Elsewhere}]

NoAccount ==
  [state |-> "free", key |-> NoName, name |-> NoName, failures |-> 0, inuse |-> 0]

Gone ==
  [state |-> "free", logged |-> 0, login |-> NoName, spectator |-> FALSE,
   realip |-> Elsewhere]

-----------------------------------------------------------------------------
(* The loops over accounts[] count those that are not free and stop at     *)
(* num_accounts: what lies beyond is not seen.                             *)

Before(table, i) == {j \in 1 .. i : table[j].state # "free"}

Listed(i) ==
  accounts[i].state # "free" /\ Cardinality(Before(accounts, i)) <= num_accounts

With(key) == {i \in Spots : Listed(i) /\ accounts[i].key = key}

Least(S) == CHOOSE i \in S : \A j \in S : i <= j

(* Where the n-th account that is not free lies.                           *)
Place(table, n) ==
  Least({i \in Spots : table[i].state # "free" /\ Cardinality(Before(table, i)) = n})

(* WriteAccounts: failures are kept for names only.                        *)
Written(table, num) ==
  [n \in 1 .. num |->
     LET a == table[Place(table, n)]
     IN  [key |-> a.key, name |-> a.name, state |-> a.state,
          failures |-> IF a.key \in Names THEN a.failures ELSE 0]]

-----------------------------------------------------------------------------
(* A faulty variant: an account may be used by several clients.            *)
CheckLoginShared(key, right) ==
  IF With(key) = {} THEN "wrong"
  ELSE LET a == accounts[Least(With(key))]
       IN  IF a.state = "blocked" THEN "blocked"
           ELSE IF key \in Addresses \/ right THEN "yes"
           ELSE "wrong"

(* checklogin: what it returns, and what becomes of the account it found.  *)

CheckLogin(key, right) ==
  IF With(key) = {} THEN "wrong"
  ELSE LET a == accounts[Least(With(key))]
       IN  IF a.inuse # 0 /\ key \in Names THEN "in use"
           ELSE IF a.state = "blocked" THEN "blocked"
           ELSE IF key \in Addresses \/ right THEN "yes"
           ELSE "wrong"

(* A faulty variant: nothing is blocked.                                   *)
FailedUnblocked(a) == [a EXCEPT !.failures = @ + 1]

(* The failures of an account that is made in an old place are those of    *)
(* the old one; more than MAX_FAILURES are as good as MAX_FAILURES.        *)
Failed(a) ==
  IF a.failures + 1 >= MAX_FAILURES
  THEN [a EXCEPT !.failures = MAX_FAILURES, !.state = "blocked"]
  ELSE [a EXCEPT !.failures = @ + 1]

Entered(a) == [a EXCEPT !.failures = 0, !.inuse = @ + 1]

(* A failure is written to the file, a success is not.                     *)
AfterLogin(key, result) ==
  LET i == Least(With(key))
  IN  IF With(key) = {} \/ result \in {"in use", "blocked"}
      THEN UNCHANGED <<accounts, file>>
      ELSE IF result = "yes"
      THEN /\ accounts[i].inuse < MaxInUse
           /\ accounts' = [accounts EXCEPT ![i] = Entered(@)]
           /\ UNCHANGED file
      ELSE /\ accounts' = [accounts EXCEPT ![i] = Failed(@)]
           /\ file' = Written(accounts', num_accounts)

(* SV_Logout                                                               *)
LoggedOut(c) ==
  IF c.logged \in Spots THEN [c EXCEPT !.logged = 0, !.login = NoName] ELSE c

Released(c) ==
  IF c.logged \in Spots
  THEN [accounts EXCEPT ![c.logged].inuse = @ - 1] ELSE accounts

-----------------------------------------------------------------------------
(* Clients.                                                                *)

(* SVC_DirectConnect; the slot was free.                                   *)
Connect(s, realip, spectator) ==
  /\ clients[s].state = "free"
  /\ clients' = [clients EXCEPT ![s] = [Gone EXCEPT !.state = "preconnected",
                                          !.realip = realip,
                                          !.spectator = spectator]]
  /\ UNCHANGED <<accounts, num_accounts, file>>

Speaks(s) ==
  \/ clients[s].state = "connected"
  \/ OutOfTurn /\ clients[s].state \in {"preconnected", "zombie"}

(* Cmd_New_f with SV_Login.                                                *)
New(s) ==
  /\ Speaks(s) \/ clients[s].state = "preconnected"
  /\ LET c == [clients[s] EXCEPT
                 !.state = IF @ = "preconnected" THEN "connected" ELSE @]
         result == CheckLogin(c.realip, FALSE)
     IN  \/ /\ sv_login = 0 \/ (c.logged \notin Spots /\ sv_login = 1 /\ c.spectator)
            /\ accounts' = Released(c)
            /\ clients' = [clients EXCEPT ![s] = [LoggedOut(c) EXCEPT !.logged = Exempt]]
            /\ UNCHANGED file
         \/ /\ sv_login # 0 /\ c.logged \in Spots
            /\ clients' = [clients EXCEPT ![s] = c]
            /\ UNCHANGED <<accounts, file>>
         \/ /\ sv_login # 0 /\ c.logged \notin Spots
            /\ ~ (sv_login = 1 /\ c.spectator)
            /\ AfterLogin(c.realip, result)
            /\ clients' =
                 [clients EXCEPT ![s] =
                    IF result = "yes"
                    THEN [c EXCEPT !.logged = Least(With(c.realip)),
                                   !.login = accounts[Least(With(c.realip))].name]
                    ELSE [c EXCEPT !.logged = 0, !.login = NoName]]
  /\ UNCHANGED num_accounts

(* SV_Say, SV_ParseLogin.  A client that has given its name is asked for   *)
(* the password alone.                                                     *)
Say(s, name, given, right) ==
  /\ Speaks(s) /\ clients[s].logged = 0
  /\ LET c == clients[s]
         login == IF c.login = NoName THEN name ELSE c.login
         password == given \/ c.login # NoName
         result == CheckLogin(login, right)
     IN  \/ /\ ~ password
            /\ clients' = [clients EXCEPT ![s].login = login]
            /\ UNCHANGED <<accounts, file>>
         \/ /\ password
            /\ AfterLogin(login, result)
            /\ clients' =
                 [clients EXCEPT ![s] =
                    CASE result = "yes" ->
                           [c EXCEPT !.logged = Least(With(login)), !.login = login]
                      [] result = "wrong" -> [c EXCEPT !.login = login]
                      [] OTHER -> [c EXCEPT !.login = NoName]]
  /\ UNCHANGED num_accounts

(* SV_DropClient                                                           *)
Drop(s) ==
  /\ clients[s].state # "free"
  /\ clients[s].state = "zombie" => OutOfTurn
  /\ accounts' = Released(clients[s])
  /\ clients' = [clients EXCEPT ![s] = [LoggedOut(clients[s]) EXCEPT !.state = "zombie"]]
  /\ UNCHANGED <<num_accounts, file>>

(* SV_CheckTimeouts, for a zombie.  Whoever comes into the slot next finds *)
(* it cleared (sv_main.c, SVC_DirectConnect).                              *)
Free(s) ==
  /\ clients[s].state = "zombie"
  /\ clients' = [clients EXCEPT ![s] = Gone]
  /\ UNCHANGED <<accounts, num_accounts, file>>

-----------------------------------------------------------------------------
(* The console.                                                            *)

(* acc_create: the first free spot before the last account, or the one     *)
(* after it.  inuse and failures stay what they were.                      *)
Create(key, name) ==
  /\ num_accounts < MAX_ACCOUNTS
  /\ name # NoName <=> key \in Addresses
  /\ \A i \in Spots : Listed(i) => accounts[i].key \notin {key, name}
  /\ LET Last == {i \in Spots : Listed(i)}
         spot == Least({i \in Spots : ~ Listed(i) /\
                          (accounts[i].state = "free" \/ \A j \in Last : j < i)})
     IN  accounts' = [accounts EXCEPT ![spot].state = "ok", ![spot].key = key,
                                      ![spot].name = name]
  /\ num_accounts' = num_accounts + 1
  /\ file' = Written(accounts', num_accounts')
  /\ UNCHANGED clients

(* acc_remove: the client that is logged out is the one whose place in the *)
(* table of clients is the number of users of the account.  Nothing reads  *)
(* the key of an account that is free.                                     *)
Remove(i) ==
  /\ Listed(i)
  /\ LET user == accounts[i].inuse
         Out == IF user = 0 THEN accounts ELSE Released(clients[user])
     IN  /\ user \in 0 .. MAX_CLIENTS
         /\ accounts' = [Out EXCEPT ![i].state = "free", ![i].key = NoName,
                                    ![i].name = NoName]
         /\ clients' = IF user = 0 THEN clients
                       ELSE [clients EXCEPT ![user] = LoggedOut(@)]
  /\ num_accounts' = num_accounts - 1
  /\ file' = Written(accounts', num_accounts')

(* A faulty variant: the file is not written.                              *)
BlockInMemory(i) ==
  /\ Listed(i)
  /\ accounts' = [accounts EXCEPT ![i].state = "blocked"]
  /\ UNCHANGED <<num_accounts, clients, file>>

(* acc_block; its users stay.                                              *)
Block(i) ==
  /\ Listed(i)
  /\ accounts' = [accounts EXCEPT ![i].state = "blocked"]
  /\ file' = Written(accounts', num_accounts)
  /\ UNCHANGED <<num_accounts, clients>>

(* acc_unblock                                                             *)
Unblock(i) ==
  /\ Listed(i)
  /\ accounts' = IF accounts[i].state = "blocked"
                 THEN [accounts EXCEPT ![i].state = "ok", ![i].failures = 0]
                 ELSE accounts
  /\ file' = Written(accounts', num_accounts)
  /\ UNCHANGED <<num_accounts, clients>>

-----------------------------------------------------------------------------
(* SV_LoadAccounts, when a level starts.  The file's accounts come to lie  *)
(* side by side; what lies behind them is not cleared.                     *)

Read(i) ==
  [state |-> file[i].state, key |-> file[i].key, name |-> file[i].name,
   failures |-> file[i].failures, inuse |-> 0]

(* The account a client that is logged in finds: one for its name or its   *)
(* address.                                                                *)
Fits(c) == {i \in DOMAIN file : file[i].key \in {c.login, c.realip}}

Asks(s) == clients[s].state = "connected" /\ clients[s].logged \in Spots

Admits(s) ==
  Asks(s) /\ Fits(clients[s]) # {} /\ file[Least(Fits(clients[s]))].state = "ok"

(* Clients are looked at in the order of their slots, and an account for a *)
(* name takes the first.                                                   *)
StaysIn(s) ==
  /\ Admits(s)
  /\ LET i == Least(Fits(clients[s]))
     IN  \/ file[i].key \in Addresses
         \/ \A t \in 1 .. s - 1 : Admits(t) => Least(Fits(clients[t])) # i

Renewed(s) ==
  LET c == clients[s]
      i == Least(Fits(c))
  IN  IF ~ Asks(s) THEN c
      ELSE IF StaysIn(s)
      THEN [c EXCEPT !.logged = i,
                     !.login = IF file[i].key \in Addresses THEN file[i].name ELSE @]
      ELSE [c EXCEPT !.logged = 0, !.login = NoName]

(* A faulty variant: nobody is looked up again.                            *)
LoadAccountsOnly ==
  /\ accounts' = [i \in Spots |-> IF i \in DOMAIN file THEN Read(i) ELSE accounts[i]]
  /\ num_accounts' = Len(file)
  /\ UNCHANGED <<file, clients>>

LoadAccounts ==
  /\ clients' = [s \in Slots |-> Renewed(s)]
  /\ accounts' = [i \in Spots |->
       IF i \in DOMAIN file
       THEN [Read(i) EXCEPT !.inuse =
               Cardinality({s \in Slots : StaysIn(s) /\ clients'[s].logged = i})]
       ELSE accounts[i]]
  /\ num_accounts' = Len(file)
  /\ UNCHANGED file

(* The file cannot be opened (another gamedir, say): everybody is logged   *)
(* out, the table stays.                                                   *)
LoadNothing ==
  /\ clients' = [s \in Slots |->
       [clients[s] EXCEPT !.logged = IF @ = Exempt THEN @ ELSE 0,
                          !.login = NoName]]
  /\ num_accounts' = 0
  /\ UNCHANGED <<accounts, file>>

(* The server is started again and loads its first level.                  *)
Restart ==
  /\ clients' = [s \in Slots |-> Gone]
  /\ accounts' = [i \in Spots |-> IF i \in DOMAIN file THEN Read(i) ELSE NoAccount]
  /\ num_accounts' = Len(file)
  /\ UNCHANGED file

-----------------------------------------------------------------------------
Init ==
  /\ accounts = [i \in Spots |-> NoAccount]
  /\ num_accounts = 0
  /\ file = <<>>
  /\ clients = [s \in Slots |-> Gone]

Next ==
  \/ \E s \in Slots :
       \/ \E realip \in Addresses \cup {Elsewhere}, spectator \in BOOLEAN :
            Connect(s, realip, spectator)
       \/ New(s)
       \/ \E name \in Names, given, right \in BOOLEAN : Say(s, name, given, right)
       \/ Drop(s)
       \/ Free(s)
  \/ \E key \in Names \cup Addresses, name \in Names \cup {NoName} : Create(key, name)
  \/ \E i \in Spots : Remove(i) \/ Block(i) \/ Unblock(i)
  \/ LoadAccounts
  \/ LoadNothing
  \/ Restart

Spec == Init /\ [][Next]_vars

-----------------------------------------------------------------------------
TypeOK ==
  /\ accounts \in [Spots -> Account]
  /\ num_accounts \in 0 .. MAX_ACCOUNTS
  /\ file \in Seq(Entry)
  /\ clients \in [Slots -> Client]

UsersOf(i) == {s \in Slots : clients[s].logged = i}

(* No account is thought to have fewer users than it has: otherwise        *)
(* "Login in use!" (sv_login.c:625) is not said when it should be.  It     *)
(* may be thought to have more (LoginInUseIsTrue).                         *)
NeverUndercounted ==
  \A i \in Spots : Cardinality(UsersOf(i)) <= accounts[i].inuse

(* "Login in use!" (sv_login.c:625): whoever comes to hold an account for  *)
(* a name, by logging in (sv_login.c:449) or when a level starts           *)
(* (sv_login.c:170), is the only one who holds it.  Two who have it from   *)
(* an earlier account in its place may remain.                             *)
ComesAlone ==
  \A s \in Slots :
    LET i == clients'[s].logged
    IN  (i \in Spots /\ i # clients[s].logged /\ accounts'[i].key \in Names)
        => \A t \in Slots \ {s} : clients'[t].logged # i

TakenAlone == [][ComesAlone]_vars

(* What acc_create, acc_remove, acc_block, acc_unblock and a failed login  *)
(* have done survives a crash: the file says the same of every account as  *)
(* the table (sv_login.c:73).                                              *)
FileIsCurrent ==
  num_accounts = Len(file) =>
    \A i \in Spots : Listed(i) =>
      \E n \in DOMAIN file : /\ file[n].key = accounts[i].key
                             /\ file[n].state = accounts[i].state

(* "Login in use!" (sv_login.c:625) is only said of an account that        *)
(* somebody uses.                                                          *)
LoginInUseIsTrue ==
  \A i \in Spots :
    (Listed(i) /\ accounts[i].key \in Names /\ accounts[i].inuse # 0)
    => UsersOf(i) # {}
=============================================================================
