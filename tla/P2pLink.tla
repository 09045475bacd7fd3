------------------------------- MODULE P2pLink -------------------------------
(***************************************************************************)
(* One direction of a point-to-point link: a sender that holds packets     *)
(* back while the device's transmission queue is stopped, the              *)
(* NetDeviceQueue with its DynamicQueueLimits, the DropTailQueue, the      *)
(* PointToPointNetDevice and the PointToPointChannel.                      *)
(*                                                                         *)
(* Abstractions.  A packet is its number; BytesOf gives its bytes, with the *)
(* PPP header that Send puts before it is queued: the queue and the limits   *)
(* count it, the test for room for one more packet, by the MTU, does not.    *)
(* Time is in ticks, one a byte; the packets on the wire keep the tick they  *)
(* are received at.  The byte counters of the limits wrap at Word.  The    *)
(* hold time of the slack may have passed at any completion.               *)
(***************************************************************************)
EXTENDS Integers, Sequences, FiniteSets, Totals

CONSTANTS
  BytesOf,            \* BytesOf[i] is the size of the i-th packet
  MaxQueue,           \* capacity of the queue in bytes
  Mtu, PppHeader,     \* largest packet before the header is added; bytes of the header
  Delay,              \* of the channel
  m_tInterframeGap,   \* ticks between the end of a packet and the next one
  m_minLimit, m_maxLimit,
  Word                \* 2^32: one more than the largest byte counter

P2pAssumption ==
  /\ Delay \in Nat /\ m_tInterframeGap \in Nat /\ Word \in Nat \ {0}
  /\ Mtu \in Nat \ {0} /\ PppHeader \in Nat /\ MaxQueue \in Nat /\ Mtu + PppHeader <= MaxQueue
  /\ m_minLimit \in Nat /\ m_maxLimit \in Nat /\ m_minLimit <= m_maxLimit
  /\ 2 * m_maxLimit < Word
  /\ BytesOf \in Seq(1 .. Mtu + PppHeader)

ASSUME P2pAssumption

VARIABLES
  backlog,        \* the next packet of the sender
  txQueue,        \* the packets in the device's queue
  stopped,        \* stopped.device, stopped.limits: m_stoppedBy...
  wake,           \* the wake callback is scheduled
  dql,            \* the fields of DynamicQueueLimits
  m_currentPkt,   \* the packet being transmitted, 0 when READY
  onWire,           \* packets on the wire, each with the tick it arrives at
  done,           \* the tick TransmitComplete is due
  tick,
  arrived, dropped,
  refused         \* history: the sender has held a packet back and was not woken up since

sending == <<txQueue, stopped, wake, dql>>
p2pVars == <<backlog, sending, m_currentPkt, onWire, done, tick, arrived, dropped, refused>>

Unsigned(x) == x % Word
Signed(x) == LET u == x % Word IN IF 2 * u >= Word THEN u - Word ELSE u
Larger(x, y) == IF x >= y THEN x ELSE y
Smaller(x, y) == IF x <= y THEN x ELSE y
Infinite == Word - 1

P2pInit ==
  /\ backlog = 1 /\ txQueue = <<>> /\ wake = FALSE /\ m_currentPkt = 0 /\ onWire = <<>>
  /\ stopped = [device |-> FALSE, limits |-> FALSE] /\ done = 0 /\ tick = 0
  /\ dql = [limit |-> 0, queued |-> 0, completed |-> 0, last |-> 0, adj |-> 0, prevQueued |-> 0,
            prevLast |-> 0, prevOver |-> 0, slack |-> Infinite]
  /\ arrived = <<>> /\ dropped = {} /\ refused = FALSE

----------------------------------------------------------------------------
(* DynamicQueueLimits.                                                     *)

Available_Unsigned(d) == Unsigned(d.adj - d.queued)
Available(d) == Signed(d.adj - d.queued)
Posdiff(a, b) == Larger(Signed(a - b), 0)
LimitQueued(d, count) == [d EXCEPT !.last = count, !.queued = Unsigned(@ + count)]

\* Completed(count): the limit grows when the device was starved for it, and
\* shrinks by what was never needed for a while (held: the hold time is over).
Completed(d, count, held) ==
  LET completed == Unsigned(d.completed + count)
      over == Posdiff(Unsigned(d.queued - d.completed), d.limit)
      inprogress == Unsigned(d.queued - completed)
      prevInprogress == Unsigned(d.prevQueued - d.completed)
      allPrevCompleted == Signed(completed - d.prevQueued) >= 0
      starved == (over > 0 /\ inprogress = 0) \/ (d.prevOver > 0 /\ allPrevCompleted)
      busy == inprogress # 0 /\ prevInprogress # 0 /\ ~allPrevCompleted
      unused == Larger(Posdiff(d.limit + d.prevOver, 2 * Unsigned(completed - d.completed)),
                       IF d.prevOver > 0 THEN Posdiff(d.prevLast, d.prevOver) ELSE 0)
      lowest == IF ~starved /\ busy THEN Smaller(d.slack, unused) ELSE d.slack
      wanted == CASE starved -> d.limit + Posdiff(completed, d.prevQueued) + d.prevOver
                  [] ~starved /\ busy /\ held -> Posdiff(d.limit, lowest)
                  [] OTHER -> d.limit
      limit == Smaller(Larger(wanted, m_minLimit), m_maxLimit)
  IN [d EXCEPT !.limit = limit, !.adj = Unsigned(limit + completed), !.completed = completed,
               !.prevOver = IF limit # d.limit THEN 0 ELSE over, !.prevLast = d.last,
               !.prevQueued = d.queued,
               !.slack = IF starved \/ (busy /\ held) THEN Infinite ELSE lowest]

----------------------------------------------------------------------------
(* The queue of the device and the NetDeviceQueue that listens to it.      *)

Link == [q |-> txQueue, s |-> stopped, w |-> wake, d |-> dql]
SetLink(l) == txQueue' = l.q /\ stopped' = l.s /\ wake' = l.w /\ dql' = l.d

QueueBytes(q) == Total([i \in DOMAIN q |-> BytesOf[q[i]]])
WouldOverflow(q) == QueueBytes(q) + Mtu > MaxQueue

NotifyQueuedBytes(l, p) ==
  LET d == LimitQueued(l.d, BytesOf[p])
  IN [l EXCEPT !.d = d, !.s.limits = @ \/ Available(d) < 0]
\* Whoever was held back by the limits, or by the device, is called back.
NotifyTransmittedBytes_Silent(l, p, held) ==
  LET d == Completed(l.d, BytesOf[p], held)
  IN [l EXCEPT !.d = d, !.s.limits = @ /\ Available(d) < 0]
NotifyTransmittedBytes(l, p, held) ==
  LET d == Completed(l.d, BytesOf[p], held)
  IN [l EXCEPT !.d = d, !.s.limits = @ /\ Available(d) < 0,
               !.w = @ \/ (l.s.limits /\ Available(d) >= 0)]
Wake(l) == [l EXCEPT !.s.device = FALSE, !.w = @ \/ l.s.device]

PacketEnqueued(l, p) ==
  LET n == NotifyQueuedBytes(l, p) IN [n EXCEPT !.s.device = @ \/ WouldOverflow(l.q)]
PacketDequeued_TestsBefore(l, p, held) ==
  LET n == NotifyTransmittedBytes(l, p, held)
  IN IF WouldOverflow(<<p>> \o l.q) THEN n ELSE Wake(n)
PacketDequeued(l, p, held) ==
  LET n == NotifyTransmittedBytes(l, p, held) IN IF WouldOverflow(l.q) THEN n ELSE Wake(n)
PacketDiscarded(l) == [l EXCEPT !.s.device = TRUE]

DoEnqueue(l, p) == PacketEnqueued([l EXCEPT !.q = Append(@, p)], p)
DoDequeue_Last(l, held) ==
  PacketDequeued([l EXCEPT !.q = SubSeq(@, 1, Len(@) - 1)], l.q[Len(l.q)], held)
DoDequeue(l, held) == PacketDequeued([l EXCEPT !.q = Tail(@)], Head(l.q), held)

----------------------------------------------------------------------------
(* The device and the channel.                                             *)

\* P2pTransmitStart, of both: p arrives when it has been sent and has crossed.
P2pTransmitStart(p) ==
  /\ m_currentPkt' = p /\ done' = tick + BytesOf[p] + m_tInterframeGap
  /\ onWire' = Append(onWire, [p |-> p, at |-> tick + BytesOf[p] + Delay])

\* Send, for the next packet, whether the sender has asked IsStopped or not.
P2pSend_EvenBusy ==
  /\ backlog \in DOMAIN BytesOf /\ backlog' = backlog + 1
  /\ \E held \in BOOLEAN : LET l == DoEnqueue(Link, backlog) IN
       SetLink(DoDequeue(l, held)) /\ P2pTransmitStart(Head(l.q))
  /\ UNCHANGED <<tick, arrived, refused, dropped>>
P2pSend ==
  /\ backlog \in DOMAIN BytesOf /\ backlog' = backlog + 1
  /\ UNCHANGED <<tick, arrived, refused>>
  /\ LET l == DoEnqueue(Link, backlog)
         full == QueueBytes(txQueue) + BytesOf[backlog] > MaxQueue
     IN \/ /\ full /\ SetLink(PacketDiscarded(Link)) /\ dropped' = dropped \cup {backlog}
           /\ UNCHANGED <<m_currentPkt, done, onWire>>
        \/ /\ ~full /\ m_currentPkt # 0 /\ SetLink(l)
           /\ UNCHANGED <<m_currentPkt, done, onWire, dropped>>
        \/ /\ ~full /\ m_currentPkt = 0 /\ P2pTransmitStart(Head(l.q)) /\ UNCHANGED dropped
           /\ \E held \in BOOLEAN : SetLink(DoDequeue(l, held))

TransmitComplete ==
  /\ m_currentPkt # 0 /\ tick = done
  /\ \/ txQueue = <<>> /\ m_currentPkt' = 0 /\ UNCHANGED <<sending, onWire, done>>
     \/ /\ txQueue # <<>> /\ P2pTransmitStart(Head(txQueue))
        /\ \E held \in BOOLEAN : SetLink(DoDequeue(Link, held))
  /\ UNCHANGED <<backlog, tick, arrived, dropped, refused>>

\* Receive: the error model may find the packet corrupt.
P2pReceive ==
  /\ onWire # <<>> /\ Head(onWire).at = tick /\ onWire' = Tail(onWire)
  /\ \/ arrived' = Append(arrived, Head(onWire).p) /\ UNCHANGED dropped
     \/ dropped' = dropped \cup {Head(onWire).p} /\ UNCHANGED arrived
  /\ UNCHANGED <<backlog, sending, m_currentPkt, done, tick, refused>>

\* Queue::Remove, of Flush.
RemoveQueued ==
  /\ txQueue # <<>> /\ dropped' = dropped \cup {Head(txQueue)}
  /\ \E held \in BOOLEAN : SetLink(DoDequeue(Link, held))
  /\ UNCHANGED <<backlog, m_currentPkt, onWire, done, tick, arrived, refused>>

----------------------------------------------------------------------------
(* The sender above: it holds its packets back while the queue is stopped, *)
(* until the wake callback makes it look again.                            *)

IsStopped == stopped.device \/ stopped.limits

HoldBack ==
  /\ backlog \in DOMAIN BytesOf /\ IsStopped /\ ~refused /\ refused' = TRUE
  /\ UNCHANGED <<backlog, sending, m_currentPkt, onWire, done, tick, arrived, dropped>>

LookAgain ==
  /\ wake /\ wake' = FALSE /\ refused' = (refused /\ IsStopped)
  /\ UNCHANGED <<backlog, txQueue, stopped, dql, m_currentPkt, onWire, done, tick, arrived, dropped>>

P2pTick ==
  /\ m_currentPkt # 0 \/ onWire # <<>>
  /\ m_currentPkt # 0 => tick < done
  /\ onWire # <<>> => tick < Head(onWire).at
  /\ tick' = tick + 1
  /\ UNCHANGED <<backlog, sending, m_currentPkt, onWire, done, arrived, dropped, refused>>

P2pNext == P2pSend \/ TransmitComplete \/ P2pReceive \/ RemoveQueued \/ HoldBack \/ LookAgain \/ P2pTick
P2pSpec == P2pInit /\ [][P2pNext]_p2pVars

----------------------------------------------------------------------------
(* Properties.                                                             *)

\* Types; the queue never exceeds its size, and the byte counters of the
\* limits say what is in it, also when they have wrapped round.
P2pTypeOK ==
  /\ backlog \in 1 .. Len(BytesOf) + 1 /\ m_currentPkt \in 0 .. Len(BytesOf)
  /\ stopped \in [device : BOOLEAN, limits : BOOLEAN] /\ wake \in BOOLEAN /\ refused \in BOOLEAN
  /\ QueueBytes(txQueue) <= MaxQueue
  /\ dql.queued \in 0 .. Word - 1 /\ dql.limit \in 0 .. m_maxLimit
  /\ Unsigned(dql.queued - dql.completed) = QueueBytes(txQueue)
  /\ Available(dql) = dql.limit - QueueBytes(txQueue)

\* A queue that is stopped holds a packet, and a device whose queue holds a
\* packet is transmitting: the dequeue that starts the queue again comes.
StoppedWillStart ==
  /\ IsStopped => txQueue # <<>>
  /\ txQueue # <<>> => m_currentPkt # 0

\* Whoever held a packet back because the queue was stopped, by the device, by
\* the limits or by both, is called back once it is stopped by neither.
NoMissedWake == refused /\ ~IsStopped => wake

\* Packets come out in the order they went in, each once, unless dropped.
LinkInOrder ==
  LET passed == arrived \o [i \in DOMAIN onWire |-> onWire[i].p] \o txQueue
  IN /\ \A i, j \in DOMAIN passed : i < j => passed[i] < passed[j]
     /\ \A p \in 1 .. backlog - 1 : (p \in dropped) # (\E i \in DOMAIN passed : passed[i] = p)

\* No two packets are on the sender's end of the wire at once.
OneAtATime == \A i, j \in DOMAIN onWire :
  i < j => onWire[j].at - onWire[i].at >= BytesOf[onWire[j].p]

\* The device, its queue and the flow control above it keep packets moving, one
\* at a time and in order.
LinkFlows == StoppedWillStart /\ NoMissedWake /\ LinkInOrder /\ OneAtATime
==============================================================================
