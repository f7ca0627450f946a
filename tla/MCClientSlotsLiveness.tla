----------------------- MODULE MCClientSlotsLiveness -------------------------
(* Small instances of ClientSlotsLiveness for TLC.                         *)
EXTENDS ClientSlotsLiveness

CONSTANTS h1, h2   \* hosts

Asks(spectator) == [spectator |-> spectator, vip |-> FALSE, spass |-> FALSE]

PlayersOnly == {Asks(0)}

(* Players and stealth spectators.                                         *)
PlayersAndWatchers == {Asks(0), Asks(2)}

FirstHost == {<<h1, 1>>}
=============================================================================
