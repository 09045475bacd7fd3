------------------------------ MODULE Lookahead ------------------------------
(***************************************************************************)
(* The lookaheads that the network gives its events, and the conservative  *)
(* loop that believes them: clients (CalculateLookAhead, ELP_Send), devices*)
(* (TransmitStart, D_TransmitComplete), the channel and bridges, in a      *)
(* network given by the constants.                                         *)
(*                                                                         *)
(* Abstractions.  Handlers run in one step.  A bridge has learned where its*)
(* frames go; buffers and rings do not fill; the heap also holds the event *)
(* that stops the simulation, so that the loop goes on.  An event has the  *)
(* time bound: what the lookahead of the event that generated it promised. *)
(***************************************************************************)
EXTENDS Integers, Sequences, FiniteSets

CONSTANTS
  LaClients, Devices,
  DeviceOf,           \* the device of a client
  PeerOf,             \* the other end of a device's link
  OutOf,              \* where a bridge sends what a port receives; a host's device itself
  LinkDelay, ByteTime,       \* of the link and of the transmitter of a device
  ClientSize, ClientInterval, ClientCount,
  MTU,                \* m_mtu of every device
  Never               \* UINT64_MAX

LookaheadAssumption ==
  /\ DeviceOf \in [LaClients -> Devices] /\ PeerOf \in [Devices -> Devices]
  /\ OutOf \in [Devices -> Devices] /\ LinkDelay \in [Devices -> Nat]
  /\ \A d \in Devices : PeerOf[d] # d /\ PeerOf[PeerOf[d]] = d /\ LinkDelay[d] = LinkDelay[PeerOf[d]]
  /\ ByteTime \in [Devices -> Nat \ {0}] /\ ClientSize \in [LaClients -> 1 .. MTU]
  /\ ClientInterval \in [LaClients -> Nat] /\ ClientCount \in [LaClients -> Nat]
  /\ Never \in Nat /\ MTU \in Nat

ASSUME LookaheadAssumption

VARIABLES
  waiting,            \* m_events
  filling, running,   \* the host buffer being filled, the one the kernel reads
  d_safe_ts,          \* their bounds, <<filling, running>>
  born,               \* the output of the kernel
  m_currentTs,
  transmitting, line, \* of a device: m_txMachineState, ring
  devLookahead,       \* lookahead of a device
  numSent             \* m_sent of a client

loopVars == <<waiting, filling, d_safe_ts, m_currentTs>>
laVars == <<loopVars, running, born, transmitting, line, devLookahead, numSent>>

Bridged(d) == OutOf[d] # d
Tx(d, size) == size * ByteTime[d]
Earliest(e) == IF e.la = Never THEN Never ELSE e.ts + e.la

\* CalculateLookAhead: the delay of the link and the time to send m_size bytes.
CalculateLookAhead_Mtu(c) == LinkDelay[DeviceOf[c]] + Tx(DeviceOf[c], MTU)
CalculateLookAhead(c) == LinkDelay[DeviceOf[c]] + Tx(DeviceOf[c], ClientSize[c])

\* CudaP2PHelper::Install; a client that starts writes over the one of its
\* device, which keeps the one of the last.
InstalledLookahead(d) == LinkDelay[d] + Tx(d, MTU)
On(d) == {c \in LaClients : DeviceOf[c] = d}
DeviceLookaheads ==
  {[d \in Devices |-> IF On(d) = {} THEN InstalledLookahead(d) ELSE CalculateLookAhead(last[d])] :
     last \in {f \in [Devices -> LaClients] : \A d \in Devices : On(d) # {} => f[d] \in On(d)}}

\* An event of client c, or of device d about packet p; it comes from event e.
SendEvent(c, n, ts, bound) ==
  [kind |-> "send", at |-> DeviceOf[c], p |-> <<c, n>>, ts |-> ts, la |-> CalculateLookAhead(c), bound |-> bound]
CompleteEvent(d, p, e) ==
  [kind |-> "complete", at |-> d, p |-> p, ts |-> e.ts + Tx(d, ClientSize[p[1]]),
   la |-> devLookahead[d], bound |-> Earliest(e)]
ReceiveLookahead(d) ==
  IF Bridged(PeerOf[d]) THEN Tx(d, MTU) + LinkDelay[d] ELSE Never
ReceiveEvent(d, p, e) ==
  [kind |-> "receive", at |-> PeerOf[d], p |-> p, ts |-> e.ts + Tx(d, ClientSize[p[1]]) + LinkDelay[d],
   la |-> ReceiveLookahead(d), bound |-> Earliest(e)]

LaInit ==
  /\ waiting = {SendEvent(c, 1, 0, 0) : c \in LaClients}
  /\ filling = {} /\ running = {} /\ born = {}
  /\ d_safe_ts = <<Never, Never>> /\ m_currentTs = 0
  /\ transmitting = [d \in Devices |-> FALSE] /\ line = [d \in Devices |-> <<>>]
  /\ devLookahead \in DeviceLookaheads
  /\ numSent = [c \in LaClients |-> 0]

----------------------------------------------------------------------------
(* The loop: ELP_ProcessOneEvent of a safe event; when the first event is  *)
(* not safe, ChangeHostQueue and the collection of what the kernel wrote.  *)

SmallerOf(a, b) == IF a < b THEN a ELSE b
IsFirst(e) == \A f \in waiting : e.ts <= f.ts
LaIsSafe(e) == e.ts < SmallerOf(d_safe_ts[1], d_safe_ts[2])

Dispatch(e) ==
  /\ IsFirst(e) /\ LaIsSafe(e)
  /\ waiting' = waiting \ {e} /\ filling' = filling \cup {e}
  /\ d_safe_ts' = [d_safe_ts EXCEPT ![1] = SmallerOf(@, Earliest(e))]
  /\ m_currentTs' = IF e.ts > m_currentTs THEN e.ts ELSE m_currentTs
  /\ UNCHANGED <<running, born, transmitting, line, devLookahead, numSent>>

ChangeBuffers ==
  /\ running = {} /\ filling \cup born # {}
  /\ \A e \in waiting : IsFirst(e) => ~LaIsSafe(e)
  /\ running' = filling /\ filling' = {}
  /\ d_safe_ts' = <<Never, d_safe_ts[1]>>
  /\ waiting' = waiting \cup born /\ born' = {}
  /\ UNCHANGED <<m_currentTs, transmitting, line, devLookahead, numSent>>

----------------------------------------------------------------------------
(* The handlers, of event e.                                               *)

\* TransmitStart, of the device and of the channel.
Transmitted(d, p, e) == {CompleteEvent(d, p, e), ReceiveEvent(d, p, e)}

\* CudaNetDevice::SendFrom.
LaSendFrom(d, p, e, others) ==
  IF transmitting[d]
  THEN /\ line' = [line EXCEPT ![d] = Append(@, p)]
       /\ born' = born \cup others /\ UNCHANGED transmitting
  ELSE /\ transmitting' = [transmitting EXCEPT ![d] = TRUE]
       /\ born' = born \cup others \cup Transmitted(d, p, e) /\ UNCHANGED line

\* CudaUdpClient::ELP_Send, D_TransmitComplete and D_Receive of the device.
LaSend(e) ==
  LET c == e.p[1]
  IN /\ e.kind = "send"
     /\ IF numSent[c] >= ClientCount[c] THEN UNCHANGED <<born, transmitting, line, numSent>>
        ELSE /\ numSent' = [numSent EXCEPT ![c] = @ + 1]
             /\ LaSendFrom(e.at, e.p, e, {SendEvent(c, e.p[2] + 1, e.ts + ClientInterval[c], Earliest(e))})

LaComplete(e) ==
  /\ e.kind = "complete"
  /\ IF line[e.at] = <<>>
     THEN transmitting' = [transmitting EXCEPT ![e.at] = FALSE] /\ UNCHANGED <<born, line>>
     ELSE /\ line' = [line EXCEPT ![e.at] = Tail(@)]
          /\ born' = born \cup Transmitted(e.at, Head(line[e.at]), e) /\ UNCHANGED transmitting
  /\ UNCHANGED numSent

LaReceive(e) ==
  /\ e.kind = "receive"
  /\ IF Bridged(e.at) THEN LaSendFrom(OutOf[e.at], e.p, e, {}) ELSE UNCHANGED <<born, transmitting, line>>
  /\ UNCHANGED numSent

LaHandle(e) ==
  /\ running' = running \ {e}
  /\ LaSend(e) \/ LaComplete(e) \/ LaReceive(e)
  /\ UNCHANGED <<loopVars, devLookahead>>

LaNext == (\E e \in waiting : Dispatch(e)) \/ ChangeBuffers \/ (\E e \in running : LaHandle(e))

LaSpec == LaInit /\ [][LaNext]_laVars

----------------------------------------------------------------------------
(* Properties.                                                             *)

Fed(d) == \E b \in Devices : Bridged(b) /\ OutOf[b] = d

\* A bridge promises the time of a full frame on the link by which one came;
\* the link by which it goes may be faster.
FasterOut(d, p) == \E b \in Devices : Bridged(b) /\ OutOf[b] = d
  /\ Tx(d, ClientSize[p[1]]) + LinkDelay[d] < Tx(PeerOf[b], MTU) + LinkDelay[b]

\* A lookahead is kept towards other nodes: of the events that come earlier
\* than the one they descend from promised, those at the other end of a link
\* are of a packet smaller than the MTU, or faster than where it came from, and
\* come from a bridge, or from a device with clients of different sizes.
EarlyOnlyAtHome == \A e \in waiting \cup filling \cup running \cup born :
  e.ts < e.bound /\ e.kind = "receive" =>
    \/ Fed(PeerOf[e.at]) /\ ClientSize[e.p[1]] < MTU
    \/ FasterOut(PeerOf[e.at], e.p)
    \/ \E c \in On(PeerOf[e.at]) : ClientSize[c] > ClientSize[e.p[1]]

\* The assertion of ELP_ProcessOneEvent that is commented out: no event that is
\* taken off the heap is in the past.
NotInThePast == [][\A e \in waiting \ waiting' : e.ts >= m_currentTs]_laVars
=============================================================================
