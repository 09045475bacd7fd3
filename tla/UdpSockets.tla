------------------------------ MODULE UdpSockets ------------------------------
(***************************************************************************)
(* UDP sockets of a node and the endpoints they receive through            *)
(* (UdpSocketImpl, UdpL4Protocol, Ipv4EndPointDemux): binding to addresses,*)
(* ports and devices in any order, ephemeral ports, shutting down and      *)
(* closing, the choice of the endpoint for a packet.  Mode "TCP" adds the  *)
(* endpoints with a peer that a listening socket forks, which the same     *)
(* class keeps.                                                            *)
(*                                                                         *)
(* Abstractions: IPv4 only; a peer is an address with a port; tags, TTLs   *)
(* and the way of a sent packet are left out, since they change nothing    *)
(* here.  crashed: the program has ended in an assertion or a null pointer.*)
(***************************************************************************)
EXTENDS Integers, FiniteSets, Sequences, SequencesExt, FiniteSetsExt, Totals

CONSTANTS
  UdpSocks,          \* the sockets
  NetIfs,            \* the devices, each with one address in a subnet of its own
  NoDev,             \* no device
  m_portFirst, m_portLast,   \* the ephemeral ports
  FixedPorts,        \* the ports that applications ask for
  UdpRcvBuf,         \* m_rcvBufSize
  MaxUdpOps          \* bound: operations

UdpAssumption ==
  /\ NoDev \notin NetIfs /\ UdpRcvBuf \in Nat /\ MaxUdpOps \in Nat
  /\ m_portFirst \in Nat \ {0} /\ m_portLast \in Nat /\ m_portFirst <= m_portLast
  /\ FixedPorts \subseteq Nat \ {0}

ASSUME UdpAssumption

VARIABLES
  mode,              \* whose endpoints: "UDP" or "TCP"
  endPoints,         \* m_endPoints, in order
  udpSock,           \* the sockets
  m_ephemeral,       \* the last ephemeral port
  crashed,
  udpOps             \* history

udpVars == <<mode, endPoints, udpSock, m_ephemeral, crashed, udpOps>>

(* Addresses: any, that of a device, that of its subnet, and the broadcast *)
(* address of its subnet.                                                  *)
AnyAddr == <<"any", NoDev>>
Addr(d) == <<"host", d>>
Net(d) == <<"net", d>>
Bcast(d) == <<"bcast", d>>
NoPeer == 0
Peers == {1, 2}

NewUdpSocket == [bound |-> FALSE, dev |-> NoDev, shutSend |-> FALSE, shutRecv |-> FALSE,
              queue |-> <<>>, rxAvailable |-> 0,
              moved |-> FALSE]  \* history: bound to a device after it was bound to a port

UdpInit ==
  /\ mode \in {"UDP", "TCP"}
  /\ endPoints = <<>> /\ udpSock = [s \in UdpSocks |-> NewUdpSocket]
  /\ m_ephemeral = m_portLast /\ crashed = FALSE /\ udpOps = 0

UdpStep == ~crashed /\ udpOps < MaxUdpOps /\ udpOps' = udpOps + 1 /\ UNCHANGED mode

EndPoints == {endPoints[i] : i \in DOMAIN endPoints}
\* The places of m_endPoint of socket s: one or none.
Own(s) == {i \in DOMAIN endPoints : endPoints[i].owner = s /\ endPoints[i].peer = NoPeer}

----------------------------------------------------------------------------
(* The endpoints.                                                          *)

LookupPortLocal(port) == \E e \in EndPoints : e.port = port
LookupLocal(dev, addr, port) == \E e \in EndPoints : e.port = port /\ e.addr = addr /\ e.dev = dev

AllocateEphemeralPort_Any == IF m_ephemeral = m_portLast THEN m_portFirst ELSE m_ephemeral + 1
\* The next free port after the last one, or 0.
AllocateEphemeralPort ==
  LET free == {p \in m_portFirst .. m_portLast : ~LookupPortLocal(p)}
      later == {p \in free : p > m_ephemeral}
  IN IF free = {} THEN 0 ELSE IF later = {} THEN Min(free) ELSE Min(later)

EndPoint(s, dev, addr, port, peer) ==
  [owner |-> s, dev |-> dev, addr |-> addr, port |-> port, peer |-> peer, rx |-> TRUE]

\* Allocate with a port: not if the address is taken on that device or on any.
MayAllocate_Device(dev, addr, port) == ~LookupLocal(dev, addr, port)
MayAllocate(dev, addr, port) == ~LookupLocal(dev, addr, port) /\ ~LookupLocal(NoDev, addr, port)

MayFork(dev, addr, port, peer) ==
  ~\E e \in EndPoints : e.port = port /\ e.addr = addr /\ e.peer = peer /\ e.dev \in {dev, NoDev}

AddressMatches(e, daddr, dev) ==
  \/ e.addr = daddr \/ e.addr = AnyAddr
  \/ e.addr = Net(dev) /\ daddr \in {Addr(dev), Bcast(dev)}

Matching(daddr, dport, peer, dev) ==
  {i \in DOMAIN endPoints : LET e == endPoints[i] IN
     /\ e.rx /\ e.port = dport /\ e.dev \in {NoDev, dev}
     /\ AddressMatches(e, daddr, dev) /\ e.peer \in {NoPeer, peer}}

\* 4: address and peer; 3: peer; 2: address; 1: neither.
Exactness(e, daddr, peer) ==
  (IF e.peer = peer THEN 2 ELSE 0) + (IF e.addr = daddr THEN 2 ELSE 1)

LookupEndPoint(daddr, dport, peer, dev) ==
  LET found == Matching(daddr, dport, peer, dev)
  IN {i \in found : \A j \in found :
        Exactness(endPoints[j], daddr, peer) <= Exactness(endPoints[i], daddr, peer)}

----------------------------------------------------------------------------
(* The sockets.                                                            *)

\* Socket s has now endpoint e; the device of the socket is that of e.
Bound(s, e) ==
  /\ endPoints' = Append(endPoints, e)
  /\ udpSock' = [udpSock EXCEPT ![s].bound = TRUE]

\* UdpBind with port 0, and UdpBind without an address.
BindEphemeral(s, addr) ==
  IF AllocateEphemeralPort = 0 THEN UNCHANGED <<endPoints, udpSock, m_ephemeral>>
  ELSE /\ m_ephemeral' = AllocateEphemeralPort
       /\ Bound(s, EndPoint(s, udpSock[s].dev, addr, AllocateEphemeralPort, NoPeer))

BindPort(s, addr, port) ==
  /\ UNCHANGED m_ephemeral
  /\ IF MayAllocate(udpSock[s].dev, addr, port)
     THEN Bound(s, EndPoint(s, udpSock[s].dev, addr, port, NoPeer))
     ELSE UNCHANGED <<endPoints, udpSock>>

UdpBind(s, addr, port) ==
  /\ UdpStep /\ ~udpSock[s].bound /\ (mode = "TCP" => ~udpSock[s].shutRecv)
  /\ IF port = 0 THEN BindEphemeral(s, addr) ELSE BindPort(s, addr, port)
  /\ UNCHANGED crashed

\* The endpoint follows; nobody looks whether another one is there.
BindToNetDevice(s, d) ==
  /\ UdpStep
  /\ udpSock' = [udpSock EXCEPT ![s].dev = d, ![s].moved = @ \/ udpSock[s].bound]
  /\ endPoints' = [i \in DOMAIN endPoints |->
       IF i \in Own(s) THEN [endPoints[i] EXCEPT !.dev = d] ELSE endPoints[i]]
  /\ UNCHANGED <<m_ephemeral, crashed>>

\* A socket without an endpoint binds before it looks whether it was shut
\* down; without a free port, a bound device is set on a null pointer.
SendTo(s) ==
  /\ UdpStep /\ mode = "UDP"
  /\ IF udpSock[s].bound THEN UNCHANGED <<endPoints, udpSock, m_ephemeral, crashed>>
     ELSE /\ BindEphemeral(s, AnyAddr)
          /\ crashed' = (AllocateEphemeralPort = 0 /\ udpSock[s].dev # NoDev)

UdpShutdownSend(s) ==
  /\ UdpStep /\ mode = "UDP" /\ udpSock' = [udpSock EXCEPT ![s].shutSend = TRUE]
  /\ UNCHANGED <<endPoints, m_ephemeral, crashed>>

UdpShutdownRecv(s) ==
  /\ UdpStep /\ mode = "UDP" /\ udpSock' = [udpSock EXCEPT ![s].shutRecv = TRUE]
  /\ endPoints' = [i \in DOMAIN endPoints |->
       IF i \in Own(s) THEN [endPoints[i] EXCEPT !.rx = FALSE] ELSE endPoints[i]]
  /\ UNCHANGED <<m_ephemeral, crashed>>

\* A socket that was shut down in both directions keeps its endpoint.
UdpClose(s) ==
  /\ UdpStep
  /\ IF udpSock[s].shutRecv /\ udpSock[s].shutSend THEN UNCHANGED <<endPoints, udpSock>>
     ELSE /\ endPoints' = IF Own(s) = {} THEN endPoints ELSE RemoveAt(endPoints, CHOOSE i \in Own(s) : TRUE)
          /\ udpSock' = [udpSock EXCEPT ![s].shutRecv = TRUE, ![s].shutSend = TRUE, ![s].bound = FALSE]
  /\ UNCHANGED <<m_ephemeral, crashed>>

UdpForwardUp_Unlimited(s, size) ==
  udpSock' = IF udpSock[s].shutRecv THEN udpSock
             ELSE [udpSock EXCEPT ![s].queue = Append(@, size), ![s].rxAvailable = @ + size]
UdpForwardUp(s, size) ==
  udpSock' = IF udpSock[s].shutRecv \/ udpSock[s].rxAvailable + size > UdpRcvBuf THEN udpSock
             ELSE [udpSock EXCEPT ![s].queue = Append(@, size), ![s].rxAvailable = @ + size]

\* UdpL4Protocol::UdpReceive: more than one endpoint of the same exactness ends
\* the program.
UdpReceive(daddr, dport, dev, size) ==
  /\ UdpStep /\ mode = "UDP"
  /\ LET found == LookupEndPoint(daddr, dport, 1, dev) IN
       /\ crashed' = (Cardinality(found) > 1)
       /\ IF Cardinality(found) = 1 THEN UdpForwardUp(endPoints[CHOOSE i \in found : TRUE].owner, size)
          ELSE UNCHANGED udpSock
  /\ UNCHANGED <<endPoints, m_ephemeral>>

\* A segment from a peer; a listening socket forks one with an endpoint.
ReceiveSyn(dport, peer, dev) ==
  /\ UdpStep /\ mode = "TCP"
  /\ LET found == LookupEndPoint(Addr(dev), dport, peer, dev)
         e == endPoints[CHOOSE i \in found : TRUE]
     IN /\ crashed' = (Cardinality(found) > 1)
        /\ endPoints' =
             IF Cardinality(found) = 1 /\ e.peer = NoPeer /\ MayFork(udpSock[e.owner].dev, Addr(dev), dport, peer)
             THEN Append(endPoints, EndPoint(e.owner, udpSock[e.owner].dev, Addr(dev), dport, peer))
             ELSE endPoints
  /\ UNCHANGED <<udpSock, m_ephemeral>>

\* A packet larger than the reader's buffer stays.
RecvFrom(s, maxSize) ==
  /\ UdpStep /\ udpSock[s].queue # <<>> /\ Head(udpSock[s].queue) <= maxSize
  /\ udpSock' = [udpSock EXCEPT ![s].queue = Tail(@), ![s].rxAvailable = @ - Head(udpSock[s].queue)]
  /\ UNCHANGED <<endPoints, m_ephemeral, crashed>>

UdpNext ==
  \/ \E s \in UdpSocks, addr \in {AnyAddr} \cup {Addr(d) : d \in NetIfs} \cup {Net(d) : d \in NetIfs},
        port \in {0} \cup FixedPorts : UdpBind(s, addr, port)
  \/ \E s \in UdpSocks, d \in NetIfs : BindToNetDevice(s, d)
  \/ \E s \in UdpSocks : SendTo(s) \/ UdpShutdownSend(s) \/ UdpShutdownRecv(s) \/ UdpClose(s)
  \/ \E d \in NetIfs, port \in FixedPorts \cup m_portFirst .. m_portLast, size \in {1, 2} :
       \E daddr \in {Addr(d), Bcast(d)} : UdpReceive(daddr, port, d, size)
  \/ \E d \in NetIfs, port \in FixedPorts, peer \in Peers : ReceiveSyn(port, peer, d)
  \/ \E s \in UdpSocks, maxSize \in {1, 2} : RecvFrom(s, maxSize)

UdpSpec == UdpInit /\ [][UdpNext]_udpVars

----------------------------------------------------------------------------
(* Properties.                                                             *)

UdpTypeOK ==
  /\ \A e \in EndPoints : e.owner \in UdpSocks /\ e.dev \in NetIfs \cup {NoDev} /\ e.port \in Nat \ {0}
  /\ \A s \in UdpSocks : udpSock[s].dev \in NetIfs \cup {NoDev} /\ udpSock[s].rxAvailable \in 0 .. UdpRcvBuf
  /\ m_ephemeral \in m_portFirst .. m_portLast /\ crashed \in BOOLEAN /\ udpOps \in 0 .. MaxUdpOps

\* While no socket is bound to a device or to a subnet, a packet has at most
\* one endpoint, whatever was bound, closed and forked, and no null endpoint
\* is used.
CrashNeedsDevice == crashed =>
  (\E s \in UdpSocks : udpSock[s].dev # NoDev) \/ (\E e \in EndPoints, d \in NetIfs : e.addr = Net(d))

\* A bound socket has one endpoint without a peer, one that is not has none,
\* and the endpoint receives on the socket's device.
OneEndPoint == \A s \in UdpSocks :
  /\ Cardinality(Own(s)) = IF udpSock[s].bound THEN 1 ELSE 0
  /\ \A i \in Own(s) : endPoints[i].dev = udpSock[s].dev

\* Of two endpoints with the same address, port and peer, the later one is on
\* a device on which the earlier one does not receive, or it is on any device
\* and the earlier one is not, unless one was put on its device after it was
\* bound: Allocate keeps sockets apart however they were bound and closed.
AddressesApart == \A i, j \in DOMAIN endPoints :
  LET e == endPoints[i]
      f == endPoints[j]
  IN i < j /\ e.port = f.port /\ e.addr = f.addr /\ e.peer = f.peer
       /\ ~udpSock[e.owner].moved /\ ~udpSock[f.owner].moved
     => IF f.dev = NoDev THEN e.dev # NoDev ELSE e.dev \notin {NoDev, f.dev}

\* The bytes available are those of the packets in the queue.
RxCounted == \A s \in UdpSocks : udpSock[s].rxAvailable = Total(udpSock[s].queue)

\* What sockets and endpoints promise each other.
EndPointsRight == CrashNeedsDevice /\ OneEndPoint /\ AddressesApart /\ RxCounted
=============================================================================
