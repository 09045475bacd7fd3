----------------------------- MODULE TcpTransfer -----------------------------
(***************************************************************************)
(* Tcp, and what it brings about: the client connects, sends, and closes;  *)
(* the server closes when the client has (m_normalCloseCallback).  The     *)
(* events of the simulator happen in the end: a segment on its way arrives *)
(* or is lost, a timer that runs expires, an application that holds a      *)
(* socket closes it.  The last-ACK timer is started by data that carries a *)
(* FIN from a socket in LAST_ACK; the server sends no data, so that event  *)
(* does not happen here.                                                   *)
(*                                                                         *)
(* act names the last event, with a bit that tells it from the one before, *)
(* so that fairness can be stated of an event by its name.  Every event    *)
(* named in Fairness is possible whenever its condition holds.             *)
(***************************************************************************)
EXTENDS Tcp

VARIABLE act      \* <<name, end, bit>> of the last event

ServerCloses(e) == e = "server" => sock[e].state = "CLOSE_WAIT"
May(e) == [
  connect  |-> e = "client" /\ sock[e] = NewSocket,
  deliver  |-> net[e] # <<>>,
  pending  |-> sock[e].sendEvent,
  retx     |-> sock[e].retx # {},
  timeWait |-> sock[e].state = "TIME_WAIT" /\ sock[e].endPoint,
  close    |-> Holds(e) /\ ServerCloses(e)]
Named == {"connect", "deliver", "pending", "retx", "timeWait", "close"}

Did(name, e) == act' = <<name, e, 1 - act[3]>>

TransferInit == TcpInit /\ act = <<"none", "client", 0>>
TransferNext == \E e \in Ends :
  \/ e = "client" /\ Connect /\ Did("connect", e)
  \/ Deliver(e, 1) /\ Did("deliver", e)
  \/ SendPendingEvent(e) /\ Did("pending", e)
  \/ RetxEvent(e) /\ Did("retx", e)
  \/ TimeWaitEvent(e) /\ Did("timeWait", e)
  \/ AppClose(e) /\ ServerCloses(e) /\ Did("close", e)
  \/ (AppSend(e) \/ Lose(e)) /\ Did("other", e)

Fairness == \A e \in Ends, name \in Named :
  WF_act(May(e)[name] /\ act' = <<name, e, 1 - act[3]>>)

TransferSpec == TransferInit /\ [][TransferNext]_<<tcpVars, act>> /\ Fairness

Failed == \E e \in Ends : sock[e].notified \cap {"error", "failed"} # {}

\* Reliable delivery: in the end the server application has all that the
\* client wrote, or one of them has been told that the connection failed,
\* whatever is lost and resent.
ClientDataArrives == <>[](delivered["server"] = wrote["client"] \/ Failed)

\* Orderly end: when nothing is lost and no timer sends anything again, both
\* sides close in the end and give their endpoints back.
BothEnd == <>[](losses > 0 \/ repeated \/ \A e \in Ends : ~sock[e].endPoint)
==============================================================================
