--------------------------- MODULE MCPacketSocket ---------------------------
(* Small instances of PacketSocket for TLC.                                 *)
EXTENDS PacketSocket, TLC
=============================================================================
