---------------------------- MODULE MCDpBroker ----------------------------
(* Instance of DpBroker: three connections of two processes. *)
EXTENDS DpBroker, TLC

CONSTANTS c1, c2, c3, p1, p2

MCConn == {c1, c2, c3}
MCPid == {p1, p2}
MCPidOf == c1 :> p1 @@ c2 :> p2 @@ c3 :> p2
MCMaxSend == c1 :> 1 @@ c2 :> 2 @@ c3 :> 1
MCUses == c1 :> {"send"} @@ c2 :> {"listen", "remove", "send"} @@ c3 :> {"listen"}
MCTwoConn == {c1, c2}
MCTwoPidOf == c1 :> p1 @@ c2 :> p2
MCTwoUses == [c \in MCTwoConn |-> {"listen", "remove", "send"}]
MCTwoSend == c1 :> 2 @@ c2 :> 1
===========================================================================
