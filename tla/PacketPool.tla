----------------------------- MODULE PacketPool ------------------------------
(***************************************************************************)
(* The life of a packet on the device.  A kernel thread that runs the send *)
(* event of a client claims a packet of its own pool (ELP_Send) and gives  *)
(* it to the device; a later kernel runs the receive event, in which the   *)
(* packet goes through the delivery queue of the one server's socket       *)
(* (ForwardPacket, Cuda_PairList, CudaRecv) and is released (HandleRead).  *)
(* Threads of a kernel receive at the same time; each adds its packet to   *)
(* the queue and then takes one out, its own or another's.                 *)
(*                                                                         *)
(* Abstractions.  wire counts the receive events that hold a packet,       *)
(* waiting for a transmitter included.  A path without a route leads to    *)
(* the interface of index 0, and nowhere if the ARP table has no entry:    *)
(* such clients are Unreachable.  m_sent and m_stop are left out: a send   *)
(* may find that its client has sent enough or was stopped by the CPU, and *)
(* as it then inserts no next send nothing reads them again.               *)
(***************************************************************************)
EXTENDS Integers, FiniteSets

CONSTANTS
  Tids,               \* threads of a kernel
  Clients,            \* UDP clients
  Unreachable,        \* clients whose packets get lost in the IPv4 layer
  SizeOf,             \* SizeOf[c]: m_size of client c
  PerThread,          \* MAX_PACKET_PER_THREAD
  QueueCapacity,      \* capacity of the delivery queue, a power of 2
  m_rcvBufSize,
  WordSize,           \* 2^32
  NoPacket,           \* nullptr
  MaxPoolKernels      \* bound: kernels launched

PoolAssumption ==
  /\ IsFiniteSet(Tids) /\ IsFiniteSet(Clients) /\ Unreachable \subseteq Clients
  /\ PerThread \in Nat \ {0} /\ QueueCapacity \in Nat \ {0}
  /\ SizeOf \in [Clients -> 1 .. WordSize - 1] /\ m_rcvBufSize \in Nat
  /\ WordSize \in Nat /\ WordSize > m_rcvBufSize /\ WordSize > QueueCapacity + 1
  /\ NoPacket \notin Clients \cup Tids \X (0 .. PerThread - 1)
  /\ \A c \in Clients : c \notin Tids \X (0 .. PerThread - 1)
  /\ MaxPoolKernels \in Nat

ASSUME PoolAssumption

PoolPlaces == 0 .. PerThread - 1
PoolPackets == Tids \X PoolPlaces
QueueSlots == 0 .. QueueCapacity - 1

VARIABLES
  ready,              \* ready[p]: the packet is in use
  size,               \* size[p]: m_size of what it holds
  job,                \* of a thread: where it is
  client, scan,       \* the client it sends for, i of ELP_Send
  held,               \* the packet it holds
  rearCopy, frontCopy,
  pairs, qFront, qRear,  \* m_deliveryQueue
  m_rxAvailable, m_received,
  wire,               \* receive events that hold a packet
  sendDue,            \* clients with a send event to run
  crowded,            \* history: a kernel held two receive events
  lostInStack,        \* history: packets dropped and not released
  poolKernels         \* kernels launched

queueVars == <<pairs, qFront, qRear, rearCopy, frontCopy>>
rxVars == <<m_rxAvailable, m_received>>
sendVars == <<client, scan, sendDue>>
poolHist == <<crowded, lostInStack, poolKernels>>
poolVars == <<ready, size, job, held, queueVars, rxVars, wire, sendVars, poolHist>>

PoolInit ==
  /\ ready = [p \in PoolPackets |-> 0] /\ size = [p \in PoolPackets |-> 0]
  /\ job = [t \in Tids |-> "idle"] /\ scan = [t \in Tids |-> 0]
  /\ client = [t \in Tids |-> NoPacket]
  /\ held = [t \in Tids |-> NoPacket]
  /\ rearCopy = [t \in Tids |-> 0] /\ frontCopy = [t \in Tids |-> 0]
  /\ pairs = [i \in QueueSlots |-> NoPacket] /\ qFront = 0 /\ qRear = 0
  /\ m_rxAvailable = 0 /\ m_received = 0
  /\ wire = [p \in PoolPackets |-> 0]
  /\ sendDue = Clients
  /\ crowded = FALSE /\ lostInStack = {} /\ poolKernels = 0

PoolIdle == \A t \in Tids : job[t] = "idle"
Goes(t, where) == job' = [job EXCEPT ![t] = where]

(* A kernel starts: each thread has a send event, a receive event or none. *)
PoolLaunch ==
  /\ PoolIdle /\ poolKernels < MaxPoolKernels
  /\ \E sends \in SUBSET sendDue, recvs \in SUBSET {p \in PoolPackets : wire[p] > 0} :
       /\ sends # {} \/ recvs # {}
       /\ \E work \in [Tids -> sends \cup recvs \cup {NoPacket}] :
            /\ \A x \in sends \cup recvs : Cardinality({t \in Tids : work[t] = x}) = 1
            /\ job' = [t \in Tids |-> IF work[t] \in sends THEN "send"
                                      ELSE IF work[t] \in recvs THEN "recv" ELSE "idle"]
            /\ client' = [t \in Tids |-> IF work[t] \in sends THEN work[t] ELSE NoPacket]
            /\ held' = [t \in Tids |-> IF work[t] \in recvs THEN work[t] ELSE NoPacket]
       /\ wire' = [p \in PoolPackets |-> IF p \in recvs THEN wire[p] - 1 ELSE wire[p]]
       /\ sendDue' = sendDue \ sends
       /\ crowded' = (crowded \/ Cardinality(recvs) > 1)
  /\ poolKernels' = poolKernels + 1
  /\ rearCopy' = [t \in Tids |-> 0] /\ frontCopy' = [t \in Tids |-> 0]
  /\ UNCHANGED <<ready, size, scan, pairs, qFront, qRear, rxVars, lostInStack>>

----------------------------------------------------------------------------
(* ELP_Send.                                                               *)

\* Nothing more to send: the chain of send events ends here.
SendTest(t) ==
  /\ job[t] = "send"
  /\ Goes(t, "idle") \/ Goes(t, "claim")
  /\ scan' = [scan EXCEPT ![t] = 0]
  /\ UNCHANGED <<ready, size, held, queueVars, rxVars, wire, client, sendDue, poolHist>>

\* The next index of the thread's pool.
NextPlace_NoWrap(i) == i + 1
NextPlace(i) == (i + 1) % PerThread

\* The CAS on the next packet of the thread's pool, round and round.
Claim(t) ==
  /\ job[t] = "claim"
  /\ LET p == <<t, scan[t]>> IN
     IF ready[p] = 0
     THEN /\ ready' = [ready EXCEPT ![p] = 1]
          /\ size' = [size EXCEPT ![p] = SizeOf[client[t]]]
          /\ held' = [held EXCEPT ![t] = p]
          /\ Goes(t, "down") /\ scan' = scan
     ELSE /\ scan' = [scan EXCEPT ![t] = NextPlace(@)]
          /\ UNCHANGED <<ready, size, held, job>>
  /\ UNCHANGED <<queueVars, rxVars, wire, client, sendDue, poolHist>>

(* Socket, UDP and IPv4 layers and the device: the packet goes to the      *)
(* wire, or a full ring drops and releases it, or it stops on the way.     *)
(* The next send is inserted in any case.                                  *)
SendDown(t) ==
  /\ job[t] = "down"
  /\ LET p == held[t] IN
     IF client[t] \in Unreachable
     THEN lostInStack' = lostInStack \cup {p} /\ UNCHANGED <<wire, ready>>
     ELSE /\ UNCHANGED lostInStack
          /\ \/ wire' = [wire EXCEPT ![p] = @ + 1] /\ UNCHANGED ready
             \/ ready' = [ready EXCEPT ![p] = 0] /\ UNCHANGED wire
  /\ sendDue' = sendDue \cup {client[t]}
  /\ held' = [held EXCEPT ![t] = NoPacket] /\ Goes(t, "idle")
  /\ UNCHANGED <<size, queueVars, rxVars, client, scan, crowded, poolKernels>>

----------------------------------------------------------------------------
(* d_Receive up to ForwardPacket: not for a packet that is not in use.  A  *)
(* packet is dropped as it is, still in use, where the interface is down,  *)
(* where the host has shut the receiving side of the socket, and where the *)
(* receive buffer has no room for it.                                      *)
RoomTest(t) ==
  /\ job[t] = "recv"
  /\ \E listening \in BOOLEAN :
       LET p == held[t]
           taken == listening /\ (m_rxAvailable + size[p]) % WordSize <= m_rcvBufSize
       IN /\ Goes(t, IF ready[p] = 1 /\ taken THEN "rear" ELSE "idle")
          /\ lostInStack' = IF ready[p] = 1 /\ ~taken THEN lostInStack \cup {p} ELSE lostInStack
  /\ UNCHANGED <<ready, size, held, queueVars, rxVars, wire, sendVars, crowded, poolKernels>>

(* Cuda_PairList::Add: rear and front are read, then the rear is advanced  *)
(* by a CAS, then the pair is written.                                     *)
AddReadRear(t) ==
  /\ job[t] = "rear" /\ Goes(t, "front")
  /\ rearCopy' = [rearCopy EXCEPT ![t] = qRear]
  /\ UNCHANGED <<ready, size, held, pairs, qFront, qRear, frontCopy, rxVars, wire, sendVars,
                 poolHist>>

AddReadFront(t) ==
  /\ job[t] = "front" /\ Goes(t, "add")
  /\ frontCopy' = [frontCopy EXCEPT ![t] = qFront]
  /\ UNCHANGED <<ready, size, held, pairs, qFront, qRear, rearCopy, rxVars, wire, sendVars,
                 poolHist>>

QueueFull_OneMore(t) == (rearCopy[t] - frontCopy[t]) % WordSize > QueueCapacity
QueueFull(t) == (rearCopy[t] - frontCopy[t]) % WordSize >= QueueCapacity

\* The queue is full: the packet is released.
AddFull(t) ==
  /\ job[t] = "add" /\ QueueFull(t)
  /\ ready' = [ready EXCEPT ![held[t]] = 0] /\ Goes(t, "idle")
  /\ UNCHANGED <<size, held, queueVars, rxVars, wire, sendVars, poolHist>>

AddClaim(t) ==
  /\ job[t] = "add" /\ ~QueueFull(t)
  /\ IF qRear = rearCopy[t] THEN qRear' = qRear + 1 /\ Goes(t, "store")
                            ELSE qRear' = qRear /\ Goes(t, "rear")
  /\ UNCHANGED <<ready, size, held, pairs, qFront, rearCopy, frontCopy, rxVars, wire,
                 sendVars, poolHist>>

AddStore(t) ==
  /\ job[t] = "store" /\ Goes(t, "account")
  /\ pairs' = [pairs EXCEPT ![rearCopy[t] % QueueCapacity] = held[t]]
  /\ UNCHANGED <<ready, size, held, qFront, qRear, rearCopy, frontCopy, rxVars, wire,
                 sendVars, poolHist>>

Account(t) ==
  /\ job[t] = "account" /\ Goes(t, "read")
  /\ m_rxAvailable' = (m_rxAvailable + size[held[t]]) % WordSize
  /\ UNCHANGED <<ready, size, held, queueVars, m_received, wire, sendVars, poolHist>>

(* HandleRead, CudaRecv, pop_front: the rear is read once; the slot that   *)
(* the CAS on the front claims is read as it is.                           *)
RecvEmpty(t) ==
  /\ job[t] = "read"
  /\ IF qFront = qRear THEN Goes(t, "idle") /\ UNCHANGED rearCopy
     ELSE Goes(t, "pop") /\ rearCopy' = [rearCopy EXCEPT ![t] = qRear]
  /\ UNCHANGED <<ready, size, held, pairs, qFront, qRear, frontCopy, rxVars, wire, sendVars,
                 poolHist>>

PopClaim(t) ==
  /\ job[t] = "pop"
  /\ frontCopy' = [frontCopy EXCEPT ![t] = qFront]
  /\ IF rearCopy[t] = qFront THEN Goes(t, "idle") /\ UNCHANGED qFront
     ELSE qFront' = qFront + 1 /\ Goes(t, "take")
  /\ UNCHANGED <<ready, size, held, pairs, qRear, rearCopy, rxVars, wire, sendVars, poolHist>>

\* The receive buffer without packet p.
Drained_Kept(p) == m_rxAvailable
Drained(p) == (m_rxAvailable - size[p]) % WordSize

CudaRecv(t) ==
  /\ job[t] = "take"
  /\ LET p == pairs[frontCopy[t] % QueueCapacity] IN
     IF p = NoPacket
     THEN Goes(t, "idle") /\ UNCHANGED <<held, m_rxAvailable>>
     ELSE /\ held' = [held EXCEPT ![t] = p]
          /\ m_rxAvailable' = Drained(p)
          /\ Goes(t, "release")
  /\ UNCHANGED <<ready, size, queueVars, m_received, wire, sendVars, poolHist>>

HandleRead_Kept(t) ==
  /\ job[t] = "release" /\ Goes(t, "idle")
  /\ m_received' = m_received + 1
  /\ UNCHANGED <<ready, size, held, queueVars, m_rxAvailable, wire, sendVars, poolHist>>
HandleRead(t) ==
  /\ job[t] = "release" /\ Goes(t, "idle")
  /\ m_received' = m_received + 1
  /\ ready' = [ready EXCEPT ![held[t]] = 0]
  /\ UNCHANGED <<size, held, queueVars, m_rxAvailable, wire, sendVars, poolHist>>

PoolStep(t) ==
  \/ SendTest(t) \/ Claim(t) \/ SendDown(t)
  \/ RoomTest(t) \/ AddReadRear(t) \/ AddReadFront(t) \/ AddFull(t) \/ AddClaim(t)
  \/ AddStore(t) \/ Account(t) \/ RecvEmpty(t) \/ PopClaim(t) \/ CudaRecv(t) \/ HandleRead(t)

PoolNext == PoolLaunch \/ \E t \in Tids : PoolStep(t)

PoolSpec == PoolInit /\ [][PoolNext]_poolVars

----------------------------------------------------------------------------
(* Properties.                                                             *)

PoolTypeOK ==
  /\ ready \in [PoolPackets -> {0, 1}] /\ size \in [PoolPackets -> 0 .. WordSize - 1]
  /\ job \in [Tids -> {"idle", "send", "claim", "down", "recv", "rear", "front", "add",
                       "store", "account", "read", "pop", "take", "release"}]
  /\ client \in [Tids -> Clients \cup {NoPacket}] /\ scan \in [Tids -> PoolPlaces]
  /\ held \in [Tids -> PoolPackets \cup {NoPacket}]
  /\ rearCopy \in [Tids -> Nat] /\ frontCopy \in [Tids -> Nat]
  /\ pairs \in [QueueSlots -> PoolPackets \cup {NoPacket}] /\ qFront \in Nat /\ qRear \in Nat
  /\ m_rxAvailable \in 0 .. WordSize - 1 /\ m_received \in Nat
  /\ wire \in [PoolPackets -> Nat] /\ sendDue \subseteq Clients
  /\ crowded \in BOOLEAN
  /\ lostInStack \subseteq PoolPackets /\ poolKernels \in 0 .. MaxPoolKernels

\* Who may still use packet p: events, threads, and written slots of the
\* delivery queue between its two counters.
Users(p) ==
  wire[p]
  + Cardinality({t \in Tids : held[t] = p /\ job[t] \in
                   {"down", "recv", "rear", "front", "add", "store", "release"}})
  + Cardinality({t \in Tids : job[t] = "take" /\ pairs[frontCopy[t] % QueueCapacity] = p})
  + Cardinality({i \in qFront .. qRear - 1 : pairs[i % QueueCapacity] = p
                   /\ \A t \in Tids : job[t] = "store" => rearCopy[t] # i})

\* "Successfully claimed it": a packet that a thread claims is used by nobody
\* else, nor is any packet used twice.
OneUser == \A p \in PoolPackets : Users(p) <= 1

\* While no two threads of a kernel receive for the same socket: a packet is
\* marked in use exactly while one event, thread or queue slot has it, or the
\* stack has forgotten to release it; none is released early or kept.
EveryPacketAccounted == ~crowded => \A p \in PoolPackets :
  Users(p) + (IF p \in lostInStack THEN 1 ELSE 0) = ready[p]

\* However many threads add and take at the same time, with counters read one
\* by one and a rear that may be stale, the queue neither holds more than its
\* capacity nor gives out more than it got.
QueueInRange == qFront <= qRear /\ qRear <= qFront + QueueCapacity

\* The receive buffer is empty between kernels, so that what a kernel can
\* receive does not depend on the ones before, as long as none was crowded.
ReceiveBufferDrained == PoolIdle /\ ~crowded => m_rxAvailable = 0 /\ qFront = qRear

\* A thread that looks for a packet of its pool can find one: the kernel it
\* belongs to ends.
ClaimEnds == \A t \in Tids : job[t] = "claim" => \E i \in PoolPlaces : ready[<<t, i>>] = 0

\* From ELP_Send to HandleRead no packet, slot or byte of room goes missing but
\* by the two ways the code has to lose one.
PacketsAccounted == EveryPacketAccounted /\ QueueInRange /\ ReceiveBufferDrained
==============================================================================
