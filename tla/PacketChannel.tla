---------------------------- MODULE PacketChannel ----------------------------
(***************************************************************************)
(* What AsyncPacketSocket promises the code above it: packets arrive whole, *)
(* in the order they were written, none twice, and while the connection is  *)
(* up each one arrives.  The DP bus is built on this.                       *)
(***************************************************************************)
EXTENDS Naturals, Sequences

CONSTANT Packet

VARIABLES sent, received, up

vars == <<sent, received, up>>

Init == sent = <<>> /\ received = <<>> /\ up = TRUE

Write(p) == sent' = Append(sent, p) /\ UNCHANGED <<received, up>>

Deliver ==
  /\ Len(received) < Len(sent)
  /\ received' = Append(received, sent[Len(received) + 1])
  /\ UNCHANGED <<sent, up>>

\* What has not arrived may be lost.
Break == up /\ up' = FALSE /\ UNCHANGED <<sent, received>>

Next == (\E p \in Packet : Write(p)) \/ Deliver \/ Break

Spec == Init /\ [][Next]_vars /\ WF_vars(up /\ Deliver)
=============================================================================
