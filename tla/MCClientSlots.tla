--------------------------- MODULE MCClientSlots -----------------------------
(* Small instances of ClientSlots for TLC.                                 *)
EXTENDS ClientSlots, TLC

CONSTANTS h1, h2, h3, h4   \* hosts

HostSymmetry == Permutations(Hosts)

Asks(spectator, vip, spass) ==
  [spectator |-> spectator, vip |-> vip, spass |-> spass]

PlayersOnly == {Asks(0, FALSE, FALSE)}

(* A player, a spectator who knows the password, a stealth spectator and a *)
(* vip who knows the password.                                             *)
Everybody == {Asks(0, FALSE, FALSE), Asks(1, FALSE, TRUE),
              Asks(2, FALSE, FALSE), Asks(1, TRUE, TRUE)}

VipsOnly == {Asks(1, TRUE, TRUE)}
=============================================================================
