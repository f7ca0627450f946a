------------------------- MODULE ClientSlotsLiveness -------------------------
(***************************************************************************)
(* What becomes of the slot of a client that has gone away for good: it    *)
(* has crashed, or its line is dead, and it never sends a packet again.    *)
(***************************************************************************)
EXTENDS ClientSlots

CONSTANT Mortals  \* bound: the clients that may go away

ASSUME MortalsAssumption == Mortals \subseteq Clients

VARIABLE gone     \* the clients that have gone away

(* At any time and without a word.                                         *)
Vanish(client) ==
  /\ gone' = gone \cup {client}
  /\ UNCHANGED vars

(* Nobody kicks a client that has been dropped already.                    *)
LiveNext ==
  /\ ~ crashed
  /\ \/ /\ \/ \E client \in Clients \ gone : FromClient(client)
           \/ \E passes \in BOOLEAN : Frame(passes)
           \/ \E s \in Slots : Alive(clients[s]) /\ Kick(s)
           \/ AddBot
           \/ SpawnServer
        /\ UNCHANGED gone
     \/ \E client \in Mortals \ gone : Vanish(client)

(* The server's main loop calls SV_Frame again and again                   *)
(* (sv_main.c:4112-4199); as long as the game is not paused, time passes.  *)
LiveSpec ==
  /\ Init /\ gone = {}
  /\ [][LiveNext]_<<vars, gone>>
  /\ WF_<<vars, gone>>(Frame(TRUE) /\ UNCHANGED gone)
  /\ WF_<<vars, gone>>(Frame(FALSE) /\ UNCHANGED gone)

-----------------------------------------------------------------------------

(* "If a packet has not been received from a client in timeout.value       *)
(* seconds, drop the conneciton" (sv_main.c:3907-3908), and "become free   *)
(* in a few seconds" (sv_main.c:851): all slots of a client that has gone  *)
(* away are free in the end.                                               *)
Reclaimed ==
  \A client \in Mortals :
    client \in gone
      ~> \A s \in Reached(client) : clients[s].isBot
=============================================================================
