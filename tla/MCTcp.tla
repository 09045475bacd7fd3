------------------------------- MODULE MCTcp -------------------------------
(***************************************************************************)
(* A transfer of one direction: the client sends two segments.             *)
(***************************************************************************)
EXTENDS TcpTransfer

MCSenderWrites == [e \in Ends |-> IF e = "client" THEN 2 ELSE 0]
=============================================================================
