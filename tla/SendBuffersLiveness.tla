------------------------- MODULE SendBuffersLiveness -------------------------
(***************************************************************************)
(* What the reliable output of a client must eventually do.                *)
(***************************************************************************)
EXTENDS SendBuffers

(* A client that has been dropped does not go on with its signon: that     *)
(* would throw the svc_disconnect away (Cmd_Begin_f, sv_user.c:1072-1078). *)
LiveNext == Next /\ ~ (state = "zombie" /\ ClearReliable)

(* Every turn of SV_Frame ends with SV_SendClientMessages; a client keeps  *)
(* sending packets, and what the channel has taken is acknowledged         *)
(* (NetchanLiveness!BufferDrains); the choke does not hit every frame in   *)
(* which a reply is due, because cleartime stands still while nothing is   *)
(* sent and realtime does not.                                             *)
Fairness ==
  /\ WF_vars(\E b \in Broadcasts : FrameDrop(b))
  /\ WF_vars(\E b \in Broadcasts, told \in BOOLEAN : FrameOverflow(b, told))
  /\ SF_vars(send_message /\ \E b \in Broadcasts : FrameReply(b, TRUE))
  /\ WF_vars(ClientPacket(TRUE, FALSE))

LiveSpec == Init /\ [][LiveNext]_vars /\ Fairness

-----------------------------------------------------------------------------

(* Again and again nothing that has been written is still waiting: every   *)
(* block reaches the channel (their number is bounded), even when it was   *)
(* saved in a back buffer, unless the client is given up or starts its     *)
(* signon again (sv_send.c:1050-1082).                                     *)
SavedGoesOut ==
  []<>(\A i \in blocks : i \in ToSet(sent) \/ i <= cleared)

(* A client that has been dropped is told: the zombie keeps answering      *)
(* until its svc_disconnect has gone out: "the client_t goes into a zombie *)
(* state for a few seconds to make sure any final reliable message gets    *)
(* resent if necessary" (sv_main.c:3910-3912).                             *)
DisconnectGoesOut ==
  (state = "zombie") ~> (SvcDisconnect \in ToSet(sent))
=============================================================================
