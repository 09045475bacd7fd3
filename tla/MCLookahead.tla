---------------------------- MODULE MCLookahead ----------------------------
(***************************************************************************)
(* A network for Lookahead: two clients on one host, a bridge of two ports,*)
(* a server.                                                               *)
(***************************************************************************)
EXTENDS Lookahead

MCDeviceOf == [c \in LaClients |-> "c"]
MCPeerOf == [c |-> "b1", b1 |-> "c", b2 |-> "s", s |-> "b2"]
MCOutOf == [c |-> "c", b1 |-> "b2", b2 |-> "b1", s |-> "s"]
MCOnes == [d \in Devices |-> 1]
MCClientSize == [c \in LaClients |-> IF c = "k1" THEN 2 ELSE 3]
MCThrees == [c \in LaClients |-> 3]
=============================================================================
