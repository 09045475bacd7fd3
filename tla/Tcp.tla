-------------------------------- MODULE Tcp ---------------------------------
(***************************************************************************)
(* One TCP connection of the internet module: the socket of a client, the  *)
(* socket that the listening socket of a server forks for it, and the      *)
(* network between them, which may lose, reorder and, because of           *)
(* retransmissions, repeat segments.  A function of TcpSocketBase is an    *)
(* operator from a socket to a socket; the segments it sends are collected *)
(* in the field out and handed to the network when the event ends.         *)
(*                                                                         *)
(* Abstractions.  Sequence numbers count segments: a data segment holds    *)
(* one.  Windows, congestion control and round-trip estimates are Window,  *)
(* the segments that may be in flight (one after a retransmission          *)
(* timeout); three duplicate ACKs do not occur within it, so there is no   *)
(* fast retransmit.  Sack, ECN and zero windows are off, DelAckCount is 1. *)
(* Applications read at once what the socket gives them.  A timer may      *)
(* expire whenever it runs.                                                *)
(***************************************************************************)
EXTENDS Integers, FiniteSets, Sequences, SequencesExt

CONSTANTS
  SynRetries,      \* m_synRetries
  DataRetries,     \* m_dataRetries
  Window,          \* segments in flight
  MaxWrites,       \* bound: MaxWrites[e], segments that the application of e sends
  Overtake,        \* segments that one may overtake in the network
  MaxLosses,       \* bound: segments lost
  MaxForks,        \* bound: connections the server application accepts
  MayShutdown      \* the applications may call ShutdownSend, not only Close

Ends == {"client", "server"}
Peer(e) == CHOOSE p \in Ends : p # e

TcpAssumption ==
  /\ SynRetries \in Nat \ {0} /\ DataRetries \in Nat /\ Window \in Nat \ {0}
  /\ MaxWrites \in [Ends -> Nat] /\ Overtake \in Nat /\ MaxLosses \in Nat /\ MaxForks \in Nat \ {0}
  /\ MayShutdown \in BOOLEAN

ASSUME TcpAssumption

VARIABLES
  sock,            \* sock[e], the socket of e
  net,             \* net[e], segments on their way to e
  wrote,           \* history: segments that the application of e sent
  delivered,       \* history: segments the socket of e put in order, at most
  losses,          \* history
  forks,           \* history: connections the server accepted
  closing,         \* history: closing[e], the application of e called Close or ShutdownSend
  repeated         \* history: a timer sent a segment again

tcpHist == <<wrote, delivered, losses, forks, closing, repeated>>
tcpVars == <<sock, net, tcpHist>>

States == {"CLOSED", "SYN_SENT", "SYN_RCVD", "ESTABLISHED", "CLOSE_WAIT", "LAST_ACK",
           "FIN_WAIT_1", "FIN_WAIT_2", "CLOSING", "TIME_WAIT"}
Timers == {{}, {"DATA"}, {"SYN"}, {"SYN", "ACK"}, {"FIN", "ACK"}}

(* A socket.  retx is the event m_retxEvent: none, ReTxTimeout ("DATA"), or *)
(* SendEmptyPacket with these flags.  finSeq is 0 before a FIN was seen.    *)
(* rxData counts the segments that were put in order (m_availBytes, read or *)
(* not).                                                                    *)
NewSocket == [
  state |-> "CLOSED", endPoint |-> FALSE, nextTx |-> 0, head |-> 0, size |-> 0,
  highTx |-> 0, lost |-> {}, recover |-> 0, rxNext |-> 0, rxHeld |-> {}, rxData |-> 0, finSeq |-> 0,
  closeOnEmpty |-> FALSE, shutdownSend |-> FALSE, notified |-> {}, synCount |-> SynRetries,
  dataRetr |-> DataRetries, retx |-> {}, lastAck |-> FALSE, sendEvent |-> FALSE, out |-> <<>>]

TcpInit ==
  /\ sock = [e \in Ends |-> NewSocket] /\ net = [e \in Ends |-> <<>>]
  /\ wrote = [e \in Ends |-> 0] /\ delivered = [e \in Ends |-> 0]
  /\ closing = [e \in Ends |-> FALSE] /\ losses = 0 /\ forks = 0 /\ repeated = FALSE

SetState(s, st) == [s EXCEPT !.state = st]
TailSequence(s) == s.head + s.size
Pending(s) == TailSequence(s) > s.nextTx         \* SizeFromSequence(m_nextTxSequence) > 0

----------------------------------------------------------------------------
(* Sending.                                                                *)

CancelAllTimers(s) == [s EXCEPT !.retx = {}, !.lastAck = FALSE, !.sendEvent = FALSE]

DeallocateEndPoint(s) ==
  IF s.endPoint THEN [CancelAllTimers(s) EXCEPT !.endPoint = FALSE] ELSE s

Notify(s, what) == [s EXCEPT !.notified = @ \cup {what}]

CloseAndNotify(s) == DeallocateEndPoint(SetState(Notify(s, "normal"), "CLOSED"))

Segment(s, flags, seq, data) == [flags |-> flags, seq |-> seq, ack |-> s.rxNext, data |-> data]

\* A FIN carries an ACK; without one the FIN sent before counts in the number.
\* A SYN that was sent often enough is the end of the socket.
SendEmptyPacket(s, f) ==
  LET flags == IF "FIN" \in f THEN f \cup {"ACK"} ELSE f
      after == "FIN" \notin f /\ s.state \in {"FIN_WAIT_1", "LAST_ACK", "CLOSING"}
      seq == IF after THEN s.nextTx + 1 ELSE s.nextTx
  IN IF ~s.endPoint THEN s
     ELSE IF "SYN" \in f /\ s.synCount = 0
       THEN DeallocateEndPoint(SetState(Notify(s, "failed"), "CLOSED"))
       ELSE [s EXCEPT !.out = Append(@, Segment(s, flags, seq, 0)),
                      !.synCount = IF "SYN" \in f THEN @ - 1 ELSE @,
                      !.retx = IF @ = {} /\ flags \cap {"SYN", "FIN"} # {} THEN flags ELSE @]

SendRST(s) == DeallocateEndPoint(Notify(SendEmptyPacket(s, {"RST"}), "error"))

DoClose(s) ==
  CASE s.state \in {"SYN_RCVD", "ESTABLISHED"} -> SetState(SendEmptyPacket(s, {"FIN"}), "FIN_WAIT_1")
    [] s.state = "CLOSE_WAIT" -> SetState(SendEmptyPacket(s, {"FIN", "ACK"}), "LAST_ACK")
    [] s.state \in {"SYN_SENT", "CLOSING"} -> CloseAndNotify(SendRST(s))
    [] OTHER -> s

Close_NotWhenEmpty(s) ==
  IF s.rxHeld # {} THEN SendRST(s) ELSE IF Pending(s) THEN s ELSE DoClose(s)
Close(s) ==
  IF s.rxHeld # {} THEN SendRST(s)
  ELSE IF Pending(s) THEN [s EXCEPT !.closeOnEmpty = TRUE]
  ELSE DoClose(s)

FinStates(s) ==
  CASE s.state = "ESTABLISHED" -> "FIN_WAIT_1"
    [] s.state = "CLOSE_WAIT" -> "LAST_ACK"
    [] OTHER -> s.state

ShutdownSend(s) ==
  LET t == [s EXCEPT !.shutdownSend = TRUE, !.closeOnEmpty = TRUE]
  IN IF s.size = 0 /\ s.state \in {"ESTABLISHED", "CLOSE_WAIT"}
     THEN SetState(SendEmptyPacket(t, {"FIN"}), FinStates(s)) ELSE t

\* The last segment of a closed buffer carries the FIN.
SendDataPacket(s, seq) ==
  LET last == s.closeOnEmpty /\ seq + 1 = TailSequence(s)
  IN [s EXCEPT !.out = Append(@, Segment(s, IF last THEN {"ACK", "FIN"} ELSE {"ACK"}, seq, 1)),
               !.state = IF last THEN FinStates(s) ELSE @,
               !.retx = IF @ = {} THEN {"DATA"} ELSE @,
               !.nextTx = seq + 1, !.lost = @ \ {seq},
               !.highTx = IF seq + 1 > @ THEN seq + 1 ELSE @]

InFlight(s) == s.highTx - s.head - Cardinality(s.lost)
Smallest(S) == CHOOSE i \in S : \A j \in S : i <= j

\* NextSeg: what is lost before what is new.
CanSend(s, win) ==
  /\ s.size > 0 /\ s.endPoint /\ InFlight(s) < win
  /\ s.recover # 0 \/ s.state # "FIN_WAIT_1"
  /\ s.lost # {} \/ s.highTx < TailSequence(s)
NextSeg(s) == IF s.lost # {} THEN Smallest(s.lost) ELSE s.highTx

SendPendingData(s, win) ==
  LET send[n \in 0 .. win] ==
        IF n = 0 THEN s
        ELSE IF CanSend(send[n - 1], win) THEN SendDataPacket(send[n - 1], NextSeg(send[n - 1]))
        ELSE send[n - 1]
  IN send[win]

----------------------------------------------------------------------------
(* Receiving.                                                              *)

TimeWait(s) == Notify(CancelAllTimers(SetState(s, "TIME_WAIT")), "normal")

LastAckTimer(s) ==
  IF s.state = "LAST_ACK" THEN [s EXCEPT !.dataRetr = DataRetries, !.lastAck = TRUE] ELSE s

DoPeerClose(s) ==
  LET t == Notify(SetState(s, "CLOSE_WAIT"), "normal")
  IN LastAckTimer(IF s.shutdownSend THEN Close(t) ELSE SendEmptyPacket(t, {"ACK"}))

Finished(s) == s.finSeq # 0 /\ s.finSeq < s.rxNext

SetFinSequence(s, seq) ==
  [s EXCEPT !.finSeq = seq, !.rxNext = IF @ = seq THEN @ + 1 ELSE @]

\* TcpRxBuffer::Add of a segment that is not there: the segments that are now
\* in order leave it, and a FIN behind them counts.
RxAdd_OverHole(s, seq) ==
  [s EXCEPT !.rxHeld = {i \in @ : i > seq}, !.rxData = @ + 1, !.rxNext = seq + 1]
RxAdd(s, seq) ==
  LET held == s.rxHeld \cup {seq}
      next == CHOOSE n \in s.rxNext .. s.rxNext + Cardinality(held) :
        n \notin held /\ (s.rxNext .. n - 1) \subseteq held
  IN [s EXCEPT !.rxHeld = {i \in held : i > next}, !.rxData = @ + (next - s.rxNext),
               !.rxNext = IF next = s.finSeq THEN next + 1 ELSE next]

ReceivedData(s, m) ==
  IF m.seq < s.rxNext \/ m.seq \in s.rxHeld THEN SendEmptyPacket(s, {"ACK"})
  ELSE LET t == RxAdd(s, m.seq)
       IN IF s.rxNext < t.rxNext /\ Finished(t) /\ "FIN" \notin m.flags
          THEN DoPeerClose(t) ELSE SendEmptyPacket(t, {"ACK"})
IfData(s, m) == IF m.data = 1 THEN ReceivedData(s, m) ELSE s

\* DiscardUpTo: an ACK of everything may be one of the FIN as well.
DiscardUpTo(s, ack) ==
  LET gone == IF ack - s.head < s.size THEN ack - s.head ELSE s.size
      head == IF gone = s.size THEN ack ELSE s.head + gone
  IN IF ack <= s.head THEN s
     ELSE [s EXCEPT !.head = head, !.size = @ - gone, !.lost = {i \in @ : i >= head}]

NewAck_TimerLeft(s, ack) ==
  [s EXCEPT !.dataRetr = DataRetries, !.retx = IF s.size = 0 THEN {} ELSE {"DATA"},
            !.nextTx = IF ack > @ THEN ack ELSE @]
NewAck(s, ack) ==
  [s EXCEPT !.dataRetr = DataRetries,
            !.retx = IF s.size = 0 /\ s.state \notin {"FIN_WAIT_1", "CLOSING"} THEN {}
                     ELSE IF s.state # "SYN_RCVD" THEN {"DATA"} ELSE @,
            !.nextTx = IF ack > @ THEN ack ELSE @]

ProcessAck(s, ack, oldHead) ==
  IF ack > oldHead THEN NewAck([s EXCEPT !.recover = IF ack >= @ THEN 0 ELSE @], ack)
  ELSE IF ack > s.highTx THEN [s EXCEPT !.nextTx = ack] ELSE s

ReceivedAck(s, m) ==
  IF m.ack < s.head THEN IfData(s, m)
  ELSE SendPendingData(IfData(ProcessAck(DiscardUpTo(s, m.ack), m.ack, s.head), m), Window)

\* What PeerClose and ProcessWait accept.
MaxRxSequence(s) == IF s.finSeq # 0 THEN s.finSeq ELSE s.rxNext + Window + 1

PeerClose_AtOnce(s, m) ==
  LET t == IfData(SetFinSequence(s, m.seq + m.data), m)
  IN IF t.state = "FIN_WAIT_1" THEN SetState(t, "CLOSING") ELSE DoPeerClose(t)
PeerClose(s, m) ==
  LET t == IfData(SetFinSequence(s, m.seq + m.data), m)
  IN IF m.seq < s.rxNext \/ m.seq > MaxRxSequence(s) \/ ~Finished(t)
     THEN IF m.seq < s.rxNext \/ m.seq > MaxRxSequence(s) THEN s ELSE t
     ELSE IF t.state = "FIN_WAIT_1" THEN SetState(t, "CLOSING") ELSE DoPeerClose(t)

ProcessSynSent(s, m) ==
  CASE m.flags = {"SYN", "ACK"} /\ m.ack = s.nextTx + 1 ->
         SendPendingData(SendEmptyPacket(
           [s EXCEPT !.state = "ESTABLISHED", !.retx = {}, !.rxNext = m.seq + 1,
                     !.nextTx = @ + 1, !.highTx = s.nextTx + 1, !.head = s.nextTx + 1],
           {"ACK"}), Window)
    [] "ACK" \in m.flags /\ "SYN" \notin m.flags -> s
    [] m.flags = {"SYN", "ACK"} /\ m.ack # s.nextTx + 1 -> CloseAndNotify(SendRST(s))
    [] OTHER -> CloseAndNotify(s)

HandshakeDone(s) ==
  [s EXCEPT !.retx = {}, !.nextTx = @ + 1, !.highTx = s.nextTx + 1, !.head = s.nextTx + 1]

ProcessSynRcvd(s, m) ==
  CASE m.flags = {"ACK"} /\ m.ack = s.nextTx + 1 ->
         ReceivedAck(SetState(HandshakeDone(s), "ESTABLISHED"), m)
    [] m.flags = {"SYN"} -> SendEmptyPacket([s EXCEPT !.rxNext = m.seq + 1], {"SYN", "ACK"})
    [] m.flags = {"FIN", "ACK"} ->
         IF m.seq = s.rxNext THEN PeerClose(HandshakeDone(s), m) ELSE s
    [] m.flags = {"RST"} -> CloseAndNotify(s)
    [] OTHER -> CloseAndNotify(SendRST(s))

ProcessEstablished(s, m) ==
  CASE m.flags = {"ACK"} ->
         IF m.ack < s.head THEN s
         ELSE IF m.ack > s.highTx THEN SendEmptyPacket(s, {"ACK"}) ELSE ReceivedAck(s, m)
    [] "SYN" \in m.flags -> s
    [] m.flags = {"FIN", "ACK"} -> PeerClose(s, m)
    [] m.flags = {"RST"} -> CloseAndNotify(s)
    [] OTHER -> CloseAndNotify(SendRST(s))

\* The FIN that ends ProcessWait, when everything before it is there.
WaitOver(s, ofFin) ==
  CASE s.state = "FIN_WAIT_1" /\ Finished(s) ->
         SendEmptyPacket(IF ofFin THEN TimeWait(s) ELSE SetState(s, "CLOSING"), {"ACK"})
    [] s.state = "FIN_WAIT_2" /\ Finished(s) -> SendEmptyPacket(TimeWait(s), {"ACK"})
    [] OTHER -> s

ProcessWait_AnyAck(s, m) ==
  LET acked == ReceivedAck(s, m)
  IN IF m.flags = {"ACK"}
     THEN WaitOver(IF acked.state = "FIN_WAIT_1" THEN SetState(acked, "FIN_WAIT_2") ELSE acked, TRUE)
     ELSE WaitOver(SetFinSequence(acked, m.seq), TRUE)
ProcessWait(s, m) ==
  LET acked == ReceivedAck(s, m)
      ofFin == acked.size = 0 /\ m.ack = acked.highTx + 1
  IN CASE m.flags = {"ACK"} ->
            WaitOver(IF acked.state = "FIN_WAIT_1" /\ ofFin
                     THEN SetState(acked, "FIN_WAIT_2") ELSE acked, ofFin)
       [] m.flags = {"FIN", "ACK"} -> WaitOver(SetFinSequence(acked, m.seq), ofFin)
       [] "SYN" \in m.flags -> s
       [] m.flags = {"RST"} -> CloseAndNotify(s)
       [] OTHER -> CloseAndNotify(SendRST(s))

ProcessClosing(s, m) ==
  CASE m.flags = {"ACK"} -> IF m.seq = s.rxNext THEN TimeWait(s) ELSE s
    [] m.flags = {"FIN", "ACK"} -> CloseAndNotify(SendEmptyPacket(s, {"ACK"}))
    [] m.flags = {"RST"} -> CloseAndNotify(s)
    [] OTHER -> CloseAndNotify(SendRST(s))

ProcessLastAck(s, m) ==
  CASE m.flags = {"ACK"} -> IF m.seq = s.rxNext THEN CloseAndNotify(s) ELSE s
    [] m.flags \in {{"FIN", "ACK"}, {"RST"}} -> CloseAndNotify(s)
    [] OTHER -> CloseAndNotify(SendRST(s))

OutOfRange(s, seq) ==
  CASE s.state \in {"SYN_SENT", "SYN_RCVD"} -> FALSE
    [] s.state \in {"LAST_ACK", "CLOSING", "CLOSE_WAIT"} -> s.rxNext # seq
    [] OTHER -> seq + 1 < s.rxNext \/ MaxRxSequence(s) <= seq

\* ForwardUp and DoForwardUp.
ForwardUp(s, m) ==
  IF m.data = 1 /\ OutOfRange(s, m.seq) THEN SendEmptyPacket(s, {"ACK"})
  ELSE CASE s.state = "SYN_SENT" -> ProcessSynSent(s, m)
         [] s.state = "SYN_RCVD" -> ProcessSynRcvd(s, m)
         [] s.state = "ESTABLISHED" -> ProcessEstablished(s, m)
         [] s.state \in {"FIN_WAIT_1", "FIN_WAIT_2", "CLOSE_WAIT"} -> ProcessWait(s, m)
         [] s.state = "CLOSING" -> ProcessClosing(s, m)
         [] s.state = "LAST_ACK" -> ProcessLastAck(s, m)
         [] OTHER -> s

\* No endpoint: a SYN is one for the listening socket, whose fork answers it,
\* if the application accepts; the listening socket ignores anything else.
CompleteFork(m) ==
  SendEmptyPacket([NewSocket EXCEPT !.state = "SYN_RCVD", !.endPoint = TRUE, !.rxNext = m.seq + 1],
                  {"SYN", "ACK"})
Forking(e, m) == e = "server" /\ m.flags = {"SYN"} /\ forks < MaxForks
\* TcpL4Protocol::NoEndPointsFound, on the client.
NoEndPointsFound(s, m) ==
  IF "RST" \in m.flags THEN s
  ELSE IF "ACK" \in m.flags
    THEN [s EXCEPT !.out = <<[flags |-> {"RST"}, seq |-> m.ack, ack |-> 0, data |-> 0]>>]
    ELSE [s EXCEPT !.out = <<[flags |-> {"RST", "ACK"}, seq |-> 0, ack |-> m.seq + 1, data |-> 0]>>]
Receive(e, m) ==
  CASE sock[e].endPoint -> ForwardUp(sock[e], m)
    [] ~sock[e].endPoint /\ Forking(e, m) -> CompleteFork(m)
    [] ~sock[e].endPoint /\ e = "client" -> NoEndPointsFound(sock[e], m)
    [] OTHER -> sock[e]

----------------------------------------------------------------------------
(* Events.  Become(e, s, inbox): the socket of e becomes s, with inbox still *)
(* on its way to it; what it sent goes to the network, a segment that is     *)
(* there already excepted.                                                   *)

Become(e, s, inbox) ==
  /\ sock' = [sock EXCEPT ![e] = [s EXCEPT !.out = <<>>]]
  /\ net' = [net EXCEPT ![e] = inbox,
                        ![Peer(e)] = @ \o SelectSeq(s.out, LAMBDA m : \A i \in DOMAIN net[Peer(e)] : net[Peer(e)][i] # m)]
  /\ delivered' = [delivered EXCEPT ![e] = IF s.rxData > @ THEN s.rxData ELSE @]

Connect ==
  /\ sock["client"] = NewSocket
  /\ Become("client", SetState(SendEmptyPacket([NewSocket EXCEPT !.endPoint = TRUE], {"SYN"}),
                               "SYN_SENT"), net["client"])
  /\ UNCHANGED <<wrote, losses, forks, closing, repeated>>

\* The application has the socket: it connected it, or the server accepted it;
\* it does not use it once an error was notified or it has closed it.
Holds(e) == sock[e].endPoint /\ sock[e].state # "SYN_RCVD" /\ ~closing[e]

\* Send; the packet waits for SendPendingData in an event of its own.
AppSend(e) ==
  LET s == sock[e]
  IN /\ Holds(e) /\ wrote[e] < MaxWrites[e]
     /\ s.state \in {"SYN_SENT", "ESTABLISHED", "CLOSE_WAIT"}
     /\ wrote' = [wrote EXCEPT ![e] = @ + 1]
     /\ Become(e, [s EXCEPT !.size = @ + 1,
                            !.sendEvent = @ \/ (~s.shutdownSend /\ s.state # "SYN_SENT"
                                                /\ InFlight(s) < Window)], net[e])
     /\ UNCHANGED <<losses, forks, closing, repeated>>

SendPendingEvent(e) ==
  /\ sock[e].sendEvent
  /\ Become(e, SendPendingData([sock[e] EXCEPT !.sendEvent = FALSE], Window), net[e])
  /\ UNCHANGED <<wrote, losses, forks, closing, repeated>>

AppClose(e) ==
  /\ Holds(e) /\ closing' = [closing EXCEPT ![e] = TRUE]
  /\ Become(e, Close(sock[e]), net[e])
  /\ UNCHANGED <<wrote, losses, forks, repeated>>

AppShutdown(e) ==
  /\ MayShutdown /\ Holds(e) /\ closing' = [closing EXCEPT ![e] = TRUE]
  /\ Become(e, ShutdownSend(sock[e]), net[e])
  /\ UNCHANGED <<wrote, losses, forks, repeated>>

ReTxTimeout_NoLimit(s) == SendPendingData(
  [s EXCEPT !.dataRetr = @ - 1, !.lost = s.head .. s.highTx - 1, !.recover = s.highTx], 1)
ReTxTimeout_MarksNothing(s) ==
  IF s.dataRetr = 0 THEN DeallocateEndPoint(Notify(s, "error"))
  ELSE SendPendingData([s EXCEPT !.dataRetr = @ - 1, !.recover = s.highTx], 1)
ReTxTimeout(s) ==
  CASE s.size = 0 ->
         IF s.state \in {"FIN_WAIT_1", "CLOSING"} THEN SendEmptyPacket(s, {"FIN"}) ELSE s
    [] s.size > 0 /\ s.dataRetr = 0 -> DeallocateEndPoint(Notify(s, "error"))
    [] OTHER -> SendPendingData(
         [s EXCEPT !.dataRetr = @ - 1, !.lost = s.head .. s.highTx - 1, !.recover = s.highTx], 1)

RetxEvent(e) ==
  LET s == [sock[e] EXCEPT !.retx = {}]
  IN /\ sock[e].retx # {}
     /\ Become(e, IF sock[e].retx = {"DATA"} THEN ReTxTimeout(s)
                  ELSE SendEmptyPacket(s, sock[e].retx), net[e])
     /\ repeated' = TRUE /\ UNCHANGED <<wrote, losses, forks, closing>>

LastAckTimeout(s) ==
  CASE s.state # "LAST_ACK" -> s
    [] s.state = "LAST_ACK" /\ s.dataRetr = 0 -> DeallocateEndPoint(Notify(s, "error"))
    [] OTHER -> [SendEmptyPacket([s EXCEPT !.dataRetr = @ - 1], {"FIN", "ACK"}) EXCEPT !.lastAck = TRUE]

LastAckEvent(e) ==
  /\ sock[e].lastAck
  /\ Become(e, LastAckTimeout([sock[e] EXCEPT !.lastAck = FALSE]), net[e])
  /\ repeated' = TRUE /\ UNCHANGED <<wrote, losses, forks, closing>>

\* After twice the lifetime of a segment.
TimeWaitEvent(e) ==
  /\ sock[e].state = "TIME_WAIT" /\ sock[e].endPoint
  /\ Become(e, CloseAndNotify(sock[e]), net[e])
  /\ UNCHANGED <<wrote, losses, forks, closing, repeated>>

Deliver(e, i) ==
  /\ i \in 1 .. Len(net[e]) /\ i <= Overtake + 1
  /\ Become(e, Receive(e, net[e][i]), RemoveAt(net[e], i))
  /\ forks' = IF ~sock[e].endPoint /\ Forking(e, net[e][i]) THEN forks + 1 ELSE forks
  /\ UNCHANGED <<wrote, losses, closing, repeated>>

Lose(e) ==
  /\ net[e] # <<>> /\ losses < MaxLosses
  /\ net' = [net EXCEPT ![e] = Tail(@)] /\ losses' = losses + 1
  /\ UNCHANGED <<sock, wrote, delivered, forks, closing, repeated>>

TimerEvent(e) == SendPendingEvent(e) \/ RetxEvent(e) \/ LastAckEvent(e) \/ TimeWaitEvent(e)

TcpNext ==
  \/ Connect
  \/ \E e \in Ends :
       \/ AppSend(e) \/ AppClose(e) \/ AppShutdown(e) \/ TimerEvent(e) \/ Lose(e)
       \/ \E i \in 1 .. Overtake + 1 : Deliver(e, i)

TcpSpec == TcpInit /\ [][TcpNext]_tcpVars

----------------------------------------------------------------------------
(* Properties.                                                             *)

\* Types and ranges.
TcpTypeOK ==
  /\ \A e \in Ends : LET s == sock[e] IN
       /\ s.state \in States /\ s.retx \in Timers /\ s.synCount \in 0 .. SynRetries
       /\ s.dataRetr \in 0 .. DataRetries /\ s.out = <<>> /\ s.notified \subseteq {"normal", "error", "failed"}
       /\ s.size \in 0 .. MaxWrites[e] /\ s.lost \subseteq s.head .. s.highTx - 1
       /\ s.rxHeld \subseteq s.rxNext + 1 .. MaxWrites[Peer(e)]

\* What a socket takes for acknowledged is with the application of its peer:
\* DiscardUpTo frees nothing that the peer may still need again.
AckedIsDelivered == \A e \in Ends : LET acked == sock[e].head - 1 IN
  acked >= 0 => delivered[Peer(e)] >= (IF acked <= wrote[e] THEN acked ELSE wrote[e])

\* A socket knows that its peer has finished only when it has everything the
\* peer ever sent, whatever was lost, resent or overtaken by the FIN.
FinMeansAll == \A e \in Ends :
  sock[e].state \in {"CLOSE_WAIT", "LAST_ACK", "CLOSING", "TIME_WAIT"}
    => sock[e].rxData = wrote[Peer(e)]

\* FIN_WAIT_2, "All buffered data sent": the peer has all of it.
FinWait2MeansAll == \A e \in Ends :
  sock[e].state = "FIN_WAIT_2" => delivered[Peer(e)] = wrote[e]

\* Nothing waits for ever: a socket that waits for an answer, or holds data
\* that is not acknowledged, has the timer running that sends it again.
TimerRuns == \A e \in Ends : LET s == sock[e] IN
  s.endPoint /\ s.state # "TIME_WAIT" =>
    /\ s.state \in {"SYN_SENT", "SYN_RCVD", "FIN_WAIT_1", "CLOSING"} => s.retx # {}
    /\ s.state = "LAST_ACK" => s.retx # {} \/ s.lastAck
    /\ s.size > 0 /\ s.head < s.highTx => s.retx # {}
    /\ s.state \in {"ESTABLISHED", "CLOSE_WAIT"} /\ s.size > 0 => s.retx # {} \/ s.sendEvent

\* Both sides are done before one of them lingers in TIME_WAIT.
NotHalfOpen == \A e \in Ends :
  sock[e].state = "TIME_WAIT" => sock[Peer(e)].state \notin {"SYN_RCVD", "ESTABLISHED"}

\* The sender forgets only what the other side has, and what it keeps has a
\* timer.
DataSafe == AckedIsDelivered /\ TimerRuns

\* The states a connection goes through mean the same at both ends.
FinishedMeansAll == FinMeansAll /\ FinWait2MeansAll /\ NotHalfOpen
=============================================================================
