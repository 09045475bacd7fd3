------------------------------ MODULE NetDevice ------------------------------
(***************************************************************************)
(* The transmitter of a CudaNetDevice: SendFrom, TransmitStart,            *)
(* D_TransmitComplete and the ring EnqueuePacket / DequeuePacket, run by   *)
(* the threads of one kernel at the same time.  A kernel may hold any      *)
(* number of send events of the device, each with a packet of its own, and *)
(* a transmit-complete event.  What a kernel generates (the completion of  *)
(* a transmission it starts) runs in a later kernel.                       *)
(*                                                                         *)
(* Abstractions.  A send is named after its packet.  Headers, times and    *)
(* the channel, which is up, are left out.  d_packetQueue is managed       *)
(* memory nobody initialises; it is zero, as fresh pages are.  A packet in *)
(* the ring is in use (ready is not 0) and held by nobody else.  A slot is *)
(* read once by DequeuePacket.  The two counters are read in any order, as *)
(* the build may.                                                          *)
(***************************************************************************)
EXTENDS Integers, FiniteSets

CONSTANTS
  Packets,            \* packets sent through the device, one send each
  Completion,         \* the thread of a transmit-complete event
  None,               \* nullptr
  m_queueSize,        \* slots of the ring, a power of 2
  UintModulus,        \* 2^32: wrap of unsigned int
  MaxKernels          \* bound: kernels launched

ASSUME DeviceAssumption ==
  /\ IsFiniteSet(Packets) /\ Completion \notin Packets /\ None \notin Packets
  /\ m_queueSize \in Nat \ {0} /\ UintModulus \in Nat /\ UintModulus > m_queueSize + 1
  /\ MaxKernels \in Nat

Threads == Packets \cup {Completion}
Positions == 0 .. m_queueSize - 1
Unread == -1

VARIABLES
  m_txMachineState,
  d_queueFront, d_queueRear, d_packetQueue,
  tpc,                \* where each thread is
  packet,             \* the packet each thread holds
  rear, front,        \* its copies of the two counters
  due,                \* completions that wait for a later kernel
  transmitted,        \* transmitted[p]: times p was given to the channel
  lost,               \* packets dropped by a full ring
  asked,              \* packets whose send has been in a kernel
  kernels,            \* kernels launched so far
  mixed               \* history: a kernel held sends and a completion

ringVars == <<d_queueFront, d_queueRear, d_packetQueue>>
threadVars == <<tpc, packet, rear, front>>
historyVars == <<transmitted, lost, asked, kernels, mixed>>
vars == <<m_txMachineState, ringVars, threadVars, due, historyVars>>

Init ==
  /\ m_txMachineState = "READY" /\ d_queueFront = 0 /\ d_queueRear = 0
  /\ d_packetQueue = [i \in Positions |-> None]
  /\ tpc = [t \in Threads |-> "idle"] /\ packet = [t \in Threads |-> None]
  /\ rear = [t \in Threads |-> Unread] /\ front = [t \in Threads |-> Unread]
  /\ due = 0 /\ transmitted = [p \in Packets |-> 0] /\ lost = {}
  /\ asked = {} /\ kernels = 0 /\ mixed = FALSE

KernelIdle == \A t \in Threads : tpc[t] = "idle"

(* A kernel starts, with some sends and perhaps a completion.              *)
Launch ==
  /\ KernelIdle /\ kernels < MaxKernels
  /\ \E S \in SUBSET (Packets \ asked), c \in 0 .. 1 :
       /\ c <= due /\ (S # {} \/ c = 1)
       /\ mixed' = (mixed \/ (S # {} /\ c = 1))
       /\ tpc' = [t \in Threads |-> IF t \in S THEN "send"
                                    ELSE IF t = Completion /\ c = 1 THEN "complete"
                                    ELSE "idle"]
       /\ packet' = [t \in Threads |-> IF t \in S THEN t ELSE None]
       /\ asked' = asked \cup S
       /\ due' = due - c
  /\ kernels' = kernels + 1
  /\ UNCHANGED <<m_txMachineState, ringVars, rear, front, transmitted, lost>>

\* Thread t goes on to pc, its copies of the counters forgotten.
Go(t, pc) ==
  /\ tpc' = [tpc EXCEPT ![t] = pc]
  /\ rear' = [rear EXCEPT ![t] = Unread] /\ front' = [front EXCEPT ![t] = Unread]

----------------------------------------------------------------------------
(* A plain test of the state decides between transmission and the ring.    *)
SendFrom(t) ==
  /\ tpc[t] = "send"
  /\ Go(t, IF m_txMachineState = "READY" THEN "start" ELSE "enqueue")
  /\ UNCHANGED <<m_txMachineState, ringVars, packet, due, historyVars>>

(* The CAS from READY to BUSY; the winner schedules its own completion and *)
(* gives the packet to the channel, a loser goes to the ring.              *)
TransmitStart_NoCas(t) ==
  /\ tpc[t] = "start"
  /\ m_txMachineState' = "BUSY" /\ due' = due + 1
  /\ transmitted' = [transmitted EXCEPT ![packet[t]] = @ + 1]
  /\ Go(t, "idle")
  /\ UNCHANGED <<ringVars, packet, lost, asked, kernels, mixed>>
TransmitStart(t) ==
  /\ tpc[t] = "start"
  /\ \/ /\ m_txMachineState = "READY" /\ m_txMachineState' = "BUSY"
        /\ due' = due + 1
        /\ transmitted' = [transmitted EXCEPT ![packet[t]] = @ + 1]
        /\ Go(t, "idle")
     \/ /\ m_txMachineState = "BUSY" /\ Go(t, "enqueue")
        /\ UNCHANGED <<m_txMachineState, due, transmitted>>
  /\ UNCHANGED <<ringVars, packet, lost, asked, kernels, mixed>>

\* The copies of the counters, for EnqueuePacket and DequeuePacket.
ReadRear(t) ==
  /\ tpc[t] \in {"enqueue", "dequeue"} /\ rear[t] = Unread
  /\ rear' = [rear EXCEPT ![t] = d_queueRear]
  /\ UNCHANGED <<m_txMachineState, ringVars, tpc, packet, front, due, historyVars>>

ReadFront(t) ==
  /\ tpc[t] \in {"enqueue", "dequeue"} /\ front[t] = Unread
  /\ front' = [front EXCEPT ![t] = d_queueFront]
  /\ UNCHANGED <<m_txMachineState, ringVars, tpc, packet, rear, due, historyVars>>

Read(t) == rear[t] # Unread /\ front[t] # Unread

\* The difference as unsigned int.
Full_OneMore(t) == (rear[t] - front[t]) % UintModulus > m_queueSize
Full(t) == (rear[t] - front[t]) % UintModulus >= m_queueSize

(* EnqueuePacket: drop the packet (ready = 0), or claim a slot with a CAS  *)
(* on the rear counter, or read the counters again.                        *)
EnqueueDrop(t) ==
  /\ tpc[t] = "enqueue" /\ Read(t) /\ Full(t)
  /\ lost' = lost \cup {packet[t]}
  /\ Go(t, "idle")
  /\ UNCHANGED <<m_txMachineState, ringVars, packet, due, transmitted, asked, kernels, mixed>>

EnqueueClaim_NoCas(t) ==
  /\ tpc[t] = "enqueue" /\ Read(t) /\ ~Full(t)
  /\ d_queueRear' = rear[t] + 1 /\ tpc' = [tpc EXCEPT ![t] = "store"]
  /\ UNCHANGED <<m_txMachineState, d_queueFront, d_packetQueue, packet, rear, front, due,
                 historyVars>>
EnqueueClaim(t) ==
  /\ tpc[t] = "enqueue" /\ Read(t) /\ ~Full(t)
  /\ IF d_queueRear = rear[t]
     THEN d_queueRear' = rear[t] + 1 /\ tpc' = [tpc EXCEPT ![t] = "store"]
          /\ UNCHANGED <<rear, front>>
     ELSE d_queueRear' = d_queueRear /\ Go(t, "enqueue")
  /\ UNCHANGED <<m_txMachineState, d_queueFront, d_packetQueue, packet, due, historyVars>>

\* Only now is the packet written into the slot.
EnqueueStore(t) ==
  /\ tpc[t] = "store"
  /\ d_packetQueue' = [d_packetQueue EXCEPT ![rear[t] % m_queueSize] = packet[t]]
  /\ Go(t, "idle")
  /\ UNCHANGED <<m_txMachineState, d_queueFront, d_queueRear, packet, due, historyVars>>

(* D_TransmitComplete: BUSY to READY, then the next packet of the ring.    *)
D_TransmitComplete(t) ==
  /\ tpc[t] = "complete"
  /\ IF m_txMachineState = "BUSY"
     THEN m_txMachineState' = "READY" /\ Go(t, "dequeue")
     ELSE m_txMachineState' = m_txMachineState /\ Go(t, "idle")
  /\ UNCHANGED <<ringVars, packet, due, historyVars>>

\* Nothing to take, by the counters that were read.
Empty_LeavesLast(t) == rear[t] - front[t] <= 1
Empty(t) == rear[t] - front[t] <= 0

(* DequeuePacket: nothing there, or claim the first slot with a CAS on the *)
(* front counter, or read the counters again.                              *)
DequeueClaim(t) ==
  /\ tpc[t] = "dequeue" /\ Read(t)
  /\ IF Empty(t)
     THEN Go(t, "idle") /\ UNCHANGED d_queueFront
     ELSE IF d_queueFront = front[t]
          THEN /\ d_queueFront' = front[t] + 1
               /\ tpc' = [tpc EXCEPT ![t] = "take"] /\ UNCHANGED <<rear, front>>
          ELSE Go(t, "dequeue") /\ UNCHANGED d_queueFront
  /\ UNCHANGED <<m_txMachineState, d_queueRear, d_packetQueue, packet, due, historyVars>>

(* A slot claimed but not yet written gives nothing; the slot is claimed   *)
(* all the same.                                                           *)
DequeueTake(t) ==
  /\ tpc[t] = "take"
  /\ LET p == d_packetQueue[front[t] % m_queueSize] IN
     IF p = None
     THEN Go(t, "idle") /\ UNCHANGED packet
     ELSE /\ packet' = [packet EXCEPT ![t] = p]
          /\ tpc' = [tpc EXCEPT ![t] = "clear"] /\ UNCHANGED <<rear, front>>
  /\ UNCHANGED <<m_txMachineState, ringVars, due, historyVars>>

DequeueClear_Kept(t) ==
  /\ tpc[t] = "clear"
  /\ Go(t, "start")
  /\ UNCHANGED <<m_txMachineState, ringVars, packet, due, historyVars>>
DequeueClear(t) ==
  /\ tpc[t] = "clear"
  /\ d_packetQueue' = [d_packetQueue EXCEPT ![front[t] % m_queueSize] = None]
  /\ Go(t, "start")
  /\ UNCHANGED <<m_txMachineState, d_queueFront, d_queueRear, packet, due, historyVars>>

Step(t) ==
  \/ SendFrom(t) \/ TransmitStart(t) \/ ReadRear(t) \/ ReadFront(t)
  \/ EnqueueDrop(t) \/ EnqueueClaim(t) \/ EnqueueStore(t)
  \/ D_TransmitComplete(t) \/ DequeueClaim(t) \/ DequeueTake(t) \/ DequeueClear(t)

Finished == KernelIdle /\ (kernels = MaxKernels \/ (asked = Packets /\ due = 0))
            /\ UNCHANGED vars

Next == Launch \/ (\E t \in Threads : Step(t)) \/ Finished

Spec == Init /\ [][Next]_vars

----------------------------------------------------------------------------
(* Properties.                                                             *)

\* Types; the ring never holds more than m_queueSize claimed slots, in spite
\* of the counters being read one by one.
TypeOK ==
  /\ m_txMachineState \in {"READY", "BUSY"}
  /\ d_queueFront \in Nat /\ d_queueRear \in d_queueFront .. d_queueFront + m_queueSize
  /\ d_packetQueue \in [Positions -> Packets \cup {None}]
  /\ tpc \in [Threads -> {"idle", "send", "start", "enqueue", "store", "complete",
                          "dequeue", "take", "clear"}]
  /\ packet \in [Threads -> Packets \cup {None}]
  /\ \A t \in Threads :
       tpc[t] \in {"send", "start", "enqueue", "store", "clear"} => packet[t] # None
  /\ rear \in [Threads -> Nat \cup {Unread}] /\ front \in [Threads -> Nat \cup {Unread}]
  /\ due \in Nat /\ transmitted \in [Packets -> Nat]
  /\ lost \subseteq Packets /\ asked \subseteq Packets /\ kernels \in 0 .. MaxKernels
  /\ mixed \in BOOLEAN

\* The transmitter is busy exactly while one completion is on its way, so
\* D_TransmitComplete never finds it READY and two packets never share it.
BusyMeansOneCompletion ==
  due + (IF tpc[Completion] = "complete" THEN 1 ELSE 0)
    = IF m_txMachineState = "BUSY" THEN 1 ELSE 0

\* A packet is transmitted at most once, and never after it was dropped and
\* its buffer released for reuse.
AtMostOnce == \A p \in Packets :
  transmitted[p] + (IF p \in lost THEN 1 ELSE 0) <= 1

\* Positions of the ring between the two counters.
Claimed == {i % m_queueSize : i \in d_queueFront .. d_queueRear - 1}

\* Between kernels, a packet that was sent has been transmitted, or dropped,
\* or is in a slot of the ring that DequeuePacket will come to.
NothingLost == KernelIdle => \A p \in asked :
  \/ transmitted[p] > 0 \/ p \in lost
  \/ \E i \in Claimed : d_packetQueue[i] = p

\* "Enqueue packet and start transmit": between kernels, packets wait in the
\* ring only while a transmission goes on, whose end will fetch them.
NoneStranded == KernelIdle /\ m_txMachineState = "READY" => d_queueRear = d_queueFront

\* Both hold as long as no kernel held a send and a completion together: what
\* loses and strands packets is only that they run at the same time.
ApartNothingLost == ~mixed => NothingLost
ApartNoneStranded == ~mixed => NoneStranded

\* As long as no kernel holds a send and a completion together, SendFrom and
\* D_TransmitComplete pass every packet on or drop it at a full ring.
ApartAllTransmitted == ApartNothingLost /\ ApartNoneStranded
==============================================================================
