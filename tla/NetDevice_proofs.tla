--------------------------- MODULE NetDevice_proofs ---------------------------
(***************************************************************************)
(* Proofs about the transmitter for any number of packets and kernels, any *)
(* size of the ring and any mix of sends and completions in a kernel.      *)
(***************************************************************************)
EXTENDS NetDevice, TLAPS

LEMMA Constants ==
  /\ Completion \notin Packets /\ None \notin Packets
  /\ m_queueSize \in Nat \ {0} /\ UintModulus \in Nat /\ UintModulus > m_queueSize + 1
BY DeviceAssumption

\* Remainders: the position of a counter in the ring, and no wrap in range.
LEMMA Position == ASSUME NEW n \in Nat PROVE n % m_queueSize \in Positions
BY Constants DEF Positions

LEMMA NoWrap == ASSUME NEW n \in 0 .. m_queueSize + 1 PROVE n % UintModulus = n
BY Constants

----------------------------------------------------------------------------
(* The counters.  A copy of d_queueRear is never ahead of it.  A copy of    *)
(* d_queueFront is at most one behind: the only dequeuer of a kernel has    *)
(* not claimed a slot yet, or claims no other one.                          *)
Copies ==
  /\ \A t \in Threads : tpc[t] \in {"complete", "dequeue", "take", "clear"} => t = Completion
  /\ \A t \in Threads : tpc[t] \in {"idle", "send", "start", "complete"}
                          => rear[t] = Unread /\ front[t] = Unread
  /\ \A t \in Threads : tpc[t] \in {"store", "take", "clear"}
                          => rear[t] # Unread /\ front[t] # Unread
  /\ \A t \in Threads : rear[t] # Unread => rear[t] <= d_queueRear
  /\ \A t \in Threads : front[t] # Unread =>
       /\ front[t] <= d_queueFront /\ d_queueFront <= front[t] + 1
       /\ tpc[Completion] \in {"complete", "dequeue"} => front[t] = d_queueFront

TypeInv == TypeOK /\ Copies

\* The threads that a step leaves alone keep where they are and what they hold.
LEMMA GoTypes == ASSUME TypeOK, NEW t \in Threads, NEW pc, Go(t, pc)
  PROVE  /\ \A s \in Threads : s # t => /\ tpc'[s] = tpc[s] /\ rear'[s] = rear[s]
                                        /\ front'[s] = front[s]
         /\ tpc'[t] = pc /\ rear'[t] = Unread /\ front'[t] = Unread
         /\ tpc' = [tpc EXCEPT ![t] = pc]
         /\ rear' \in [Threads -> Nat \cup {Unread}]
         /\ front' \in [Threads -> Nat \cup {Unread}]
BY DEF TypeOK, Go

LEMMA InitTypeInv == Init => TypeInv
<1> SUFFICES ASSUME Init PROVE TypeInv
  OBVIOUS
<1>0. mixed \in BOOLEAN
  BY Zenon DEF Init
<1>1. TypeOK
  BY <1>0, Constants, DeviceAssumption DEF Init, TypeOK
<1>2. Copies
  BY DEF Init, Copies
<1> QED
  BY <1>1, <1>2 DEF TypeInv

\* A free slot, by copies no older than one dequeue, is a free slot.
LEMMA ClaimIsFree ==
  ASSUME TypeInv, NEW t \in Threads, tpc[t] = "enqueue", Read(t), ~Full(t),
         d_queueRear = rear[t]
  PROVE  d_queueRear + 1 <= d_queueFront + m_queueSize
<1>1. /\ d_queueFront \in Nat /\ d_queueRear \in Nat /\ front[t] \in Nat
      /\ d_queueFront <= d_queueRear /\ d_queueRear <= d_queueFront + m_queueSize
      /\ front[t] <= d_queueFront /\ d_queueFront <= front[t] + 1
  BY Constants DEF TypeInv, TypeOK, Copies, Read
<1>2. rear[t] - front[t] \in 0 .. m_queueSize + 1
  BY <1>1, Constants
<1>3. (rear[t] - front[t]) % UintModulus = rear[t] - front[t]
  BY <1>2, NoWrap
<1>4. rear[t] - front[t] < m_queueSize
  BY <1>1, <1>3, Constants DEF Full
<1> QED
  BY <1>1, <1>4, Constants

\* Every step preserves the types and the bounds of the counters.
LEMMA TypeInvStep == TypeInv /\ [Next]_vars => TypeInv'
<1> SUFFICES ASSUME TypeInv, [Next]_vars PROVE TypeInv'
  OBVIOUS
<1>t. TypeOK /\ Copies
  BY DEF TypeInv
<1>c. Completion \in Threads /\ Packets \subseteq Threads
  BY DEF Threads
<1> USE DEF ringVars, threadVars, historyVars
<1>1. ASSUME Launch PROVE TypeInv'
  <2>1. PICK S \in SUBSET (Packets \ asked), c \in 0 .. 1 :
          /\ c <= due
          /\ tpc' = [t \in Threads |-> IF t \in S THEN "send"
                                       ELSE IF t = Completion /\ c = 1 THEN "complete"
                                       ELSE "idle"]
          /\ packet' = [t \in Threads |-> IF t \in S THEN t ELSE None]
          /\ asked' = asked \cup S
          /\ due' = due - c
          /\ mixed' = (mixed \/ (S # {} /\ c = 1))
    BY <1>1 DEF Launch
  <2>2. \A t \in Threads : rear[t] = Unread /\ front[t] = Unread
    BY <1>1, <1>t DEF Launch, KernelIdle, Copies
  <2>3. /\ kernels < MaxKernels /\ kernels' = kernels + 1
        /\ UNCHANGED <<m_txMachineState, ringVars, rear, front, transmitted, lost>>
    BY <1>1 DEF Launch
  <2>4. Copies'
    BY <2>1, <2>2, <2>3, Constants DEF Copies
  <2>5. /\ tpc' \in [Threads -> {"idle", "send", "complete"}]
        /\ packet' \in [Threads -> Packets \cup {None}]
        /\ \A t \in Threads : tpc'[t] = "send" => packet'[t] # None
    BY <2>1, Constants
  <2>6. due' \in Nat /\ asked' \subseteq Packets /\ kernels' \in 0 .. MaxKernels
    BY <1>t, <2>1, <2>3, Constants, DeviceAssumption DEF TypeOK
  <2>7. mixed' \in BOOLEAN
    BY <1>t, <2>1, Zenon DEF TypeOK
  <2> QED
    BY <1>t, <2>3, <2>4, <2>5, <2>6, <2>7 DEF TypeInv, TypeOK
<1>2. ASSUME NEW t \in Threads, SendFrom(t) PROVE TypeInv'
  <2>1. PICK pc \in {"start", "enqueue"} : Go(t, pc)
    BY <1>2 DEF SendFrom
  <2>2. TypeOK'
    BY <1>2, <1>t, <2>1, GoTypes DEF SendFrom, TypeOK
  <2>3. Copies'
    BY <1>2, <1>t, <1>c, <2>1, GoTypes DEF SendFrom, Copies, TypeOK
  <2> QED
    BY <2>2, <2>3 DEF TypeInv
<1>3. ASSUME NEW t \in Threads, TransmitStart(t) PROVE TypeInv'
  <2>1. PICK pc \in {"idle", "enqueue"} : Go(t, pc)
    BY <1>3 DEF TransmitStart
  <2>2. TypeOK'
    <3>1. m_txMachineState' \in {"READY", "BUSY"} /\ due' \in Nat
      BY <1>3, <1>t DEF TransmitStart, TypeOK
    <3>2. transmitted' \in [Packets -> Nat]
      BY <1>3, <1>t DEF TransmitStart, TypeOK
    <3> QED
      BY <1>3, <1>t, <2>1, <3>1, <3>2, GoTypes DEF TransmitStart, TypeOK
  <2>3. Copies'
    BY <1>3, <1>t, <1>c, <2>1, GoTypes DEF TransmitStart, Copies, TypeOK
  <2> QED
    BY <2>2, <2>3 DEF TypeInv
<1>4. ASSUME NEW t \in Threads, ReadRear(t) \/ ReadFront(t) PROVE TypeInv'
  <2>1. TypeOK'
    BY <1>4, <1>t DEF ReadRear, ReadFront, TypeOK
  <2>2. Copies'
    BY <1>4, <1>t, <1>c, Constants DEF ReadRear, ReadFront, Copies, TypeOK
  <2> QED
    BY <2>1, <2>2 DEF TypeInv
<1>5. ASSUME NEW t \in Threads, EnqueueDrop(t) PROVE TypeInv'
  <2>1. Go(t, "idle") /\ tpc[t] = "enqueue"
    BY <1>5 DEF EnqueueDrop
  <2>2. packet[t] \in Packets
    BY <1>t, <2>1 DEF TypeOK
  <2>3. TypeOK'
    BY <1>5, <1>t, <2>1, <2>2, GoTypes DEF EnqueueDrop, TypeOK
  <2>4. Copies'
    BY <1>5, <1>t, <1>c, <2>1, GoTypes DEF EnqueueDrop, Copies, TypeOK
  <2> QED
    BY <2>3, <2>4 DEF TypeInv
<1>6. ASSUME NEW t \in Threads, EnqueueClaim(t) PROVE TypeInv'
  <2>1. CASE d_queueRear = rear[t]
    <3>1. /\ d_queueRear' = d_queueRear + 1 /\ tpc' = [tpc EXCEPT ![t] = "store"]
          /\ UNCHANGED <<m_txMachineState, d_queueFront, d_packetQueue, packet, rear, front,
                         due, historyVars>>
      BY <1>6, <2>1 DEF EnqueueClaim
    <3>2. d_queueRear' \in d_queueFront .. d_queueFront + m_queueSize
      BY <1>6, <1>t, <2>1, <3>1, ClaimIsFree, Constants DEF EnqueueClaim, TypeInv, TypeOK
    <3>3. TypeOK'
      BY <1>6, <1>t, <3>1, <3>2 DEF EnqueueClaim, TypeOK
    <3>4. Copies'
      BY <1>6, <1>t, <1>c, <3>1, Constants DEF EnqueueClaim, Read, Copies, TypeOK
    <3> QED
      BY <3>3, <3>4 DEF TypeInv
  <2>2. CASE d_queueRear # rear[t]
    <3>1. Go(t, "enqueue")
          /\ UNCHANGED <<m_txMachineState, ringVars, packet, due, historyVars>>
      BY <1>6, <2>2 DEF EnqueueClaim
    <3>2. TypeOK'
      BY <1>6, <1>t, <3>1, GoTypes DEF EnqueueClaim, TypeOK
    <3>3. Copies'
      BY <1>6, <1>t, <1>c, <3>1, GoTypes DEF EnqueueClaim, Copies, TypeOK
    <3> QED
      BY <3>2, <3>3 DEF TypeInv
  <2> QED
    BY <2>1, <2>2
<1>7. ASSUME NEW t \in Threads, EnqueueStore(t) PROVE TypeInv'
  <2>1. Go(t, "idle") /\ rear[t] \in Nat /\ packet[t] \in Packets
    BY <1>7, <1>t DEF EnqueueStore, Copies, TypeOK
  <2>2. d_packetQueue' \in [Positions -> Packets \cup {None}]
    BY <1>7, <1>t, <2>1, Position DEF EnqueueStore, TypeOK
  <2>3. TypeOK'
    BY <1>7, <1>t, <2>1, <2>2, GoTypes DEF EnqueueStore, TypeOK
  <2>4. Copies'
    BY <1>7, <1>t, <1>c, <2>1, GoTypes DEF EnqueueStore, Copies, TypeOK
  <2> QED
    BY <2>3, <2>4 DEF TypeInv
<1>8. ASSUME NEW t \in Threads, D_TransmitComplete(t) PROVE TypeInv'
  <2>1. PICK pc \in {"dequeue", "idle"} : Go(t, pc)
    BY <1>8 DEF D_TransmitComplete
  <2>2. TypeOK'
    BY <1>8, <1>t, <2>1, GoTypes DEF D_TransmitComplete, TypeOK
  <2>3. Copies'
    BY <1>8, <1>t, <1>c, <2>1, GoTypes DEF D_TransmitComplete, Copies, TypeOK
  <2> QED
    BY <2>2, <2>3 DEF TypeInv
<1>9. ASSUME NEW t \in Threads, DequeueClaim(t) PROVE TypeInv'
  <2>0. t = Completion /\ tpc[t] = "dequeue" /\ front[t] = d_queueFront
        /\ rear[t] \in Nat /\ rear[t] <= d_queueRear
    BY <1>9, <1>t DEF DequeueClaim, Read, Copies, TypeOK
  <2>1. CASE ~Empty(t)
    <3>1. /\ d_queueFront' = d_queueFront + 1 /\ tpc' = [tpc EXCEPT ![t] = "take"]
          /\ UNCHANGED <<m_txMachineState, d_queueRear, d_packetQueue, packet, rear, front,
                         due, historyVars>>
      BY <1>9, <2>0, <2>1 DEF DequeueClaim
    <3>2. d_queueFront' \in Nat
          /\ d_queueRear \in d_queueFront' .. d_queueFront' + m_queueSize
      BY <1>t, <2>0, <2>1, <3>1, Constants DEF Empty, TypeOK
    <3>3. TypeOK'
      BY <1>t, <3>1, <3>2 DEF TypeOK
    <3>4. Copies'
      BY <1>9, <1>t, <1>c, <2>0, <3>1, Constants DEF DequeueClaim, Read, Copies, TypeOK
    <3> QED
      BY <3>3, <3>4 DEF TypeInv
  <2>2. CASE Empty(t)
    <3>1. Go(t, "idle") /\ UNCHANGED <<m_txMachineState, ringVars, packet, due, historyVars>>
      BY <1>9, <2>2 DEF DequeueClaim
    <3>2. TypeOK'
      BY <1>t, <3>1, GoTypes DEF TypeOK
    <3>3. Copies'
      BY <1>t, <1>c, <2>0, <3>1, GoTypes DEF Copies, TypeOK
    <3> QED
      BY <3>2, <3>3 DEF TypeInv
  <2> QED
    BY <2>1, <2>2
<1>10. ASSUME NEW t \in Threads, DequeueTake(t) PROVE TypeInv'
  <2>1. front[t] \in Nat /\ d_packetQueue[front[t] % m_queueSize] \in Packets \cup {None}
    BY <1>10, <1>t, Position DEF DequeueTake, Copies, TypeOK
  <2>2. CASE d_packetQueue[front[t] % m_queueSize] = None
    <3>1. Go(t, "idle") /\ UNCHANGED <<m_txMachineState, ringVars, packet, due, historyVars>>
      BY <1>10, <2>2 DEF DequeueTake
    <3>2. TypeOK'
      BY <1>t, <3>1, GoTypes DEF TypeOK
    <3>3. Copies'
      BY <1>10, <1>t, <1>c, <3>1, GoTypes DEF DequeueTake, Copies, TypeOK
    <3> QED
      BY <3>2, <3>3 DEF TypeInv
  <2>3. CASE d_packetQueue[front[t] % m_queueSize] # None
    <3>1. /\ packet' = [packet EXCEPT ![t] = d_packetQueue[front[t] % m_queueSize]]
          /\ tpc' = [tpc EXCEPT ![t] = "clear"]
          /\ UNCHANGED <<m_txMachineState, ringVars, rear, front, due, historyVars>>
      BY <1>10, <2>3 DEF DequeueTake
    <3>2. TypeOK'
      BY <1>t, <2>1, <2>3, <3>1 DEF TypeOK
    <3>3. Copies'
      BY <1>10, <1>t, <1>c, <3>1 DEF DequeueTake, Copies, TypeOK
    <3> QED
      BY <3>2, <3>3 DEF TypeInv
  <2> QED
    BY <2>2, <2>3
<1>11. ASSUME NEW t \in Threads, DequeueClear(t) PROVE TypeInv'
  <2>1. Go(t, "start")
    BY <1>11 DEF DequeueClear
  <2>2. d_packetQueue' \in [Positions -> Packets \cup {None}]
    BY <1>11, <1>t DEF DequeueClear, TypeOK
  <2>3. TypeOK'
    BY <1>11, <1>t, <2>1, <2>2, GoTypes DEF DequeueClear, TypeOK
  <2>4. Copies'
    BY <1>11, <1>t, <1>c, <2>1, GoTypes DEF DequeueClear, Copies, TypeOK
  <2> QED
    BY <2>3, <2>4 DEF TypeInv
<1>12. ASSUME Finished \/ UNCHANGED vars PROVE TypeInv'
  BY <1>12, <1>t DEF Finished, vars, TypeInv, TypeOK, Copies
<1> QED
  BY <1>1, <1>2, <1>3, <1>4, <1>5, <1>6, <1>7, <1>8, <1>9, <1>10, <1>11, <1>12
     DEF Next, Step

\* In any run the ring holds at most m_queueSize claimed slots, although the
\* counters are read one by one and compared modulo the width of unsigned.
THEOREM TypeCorrect == Spec => []TypeOK
<1>1. Init => TypeInv
  BY InitTypeInv
<1>2. TypeInv /\ [Next]_vars => TypeInv'
  BY TypeInvStep
<1>3. TypeInv => TypeOK
  BY DEF TypeInv
<1> QED
  BY <1>1, <1>2, <1>3, PTL DEF Spec

----------------------------------------------------------------------------
\* The transmitter is busy exactly while one completion is on its way.
LEMMA CompletionStep == TypeInv /\ BusyMeansOneCompletion /\ [Next]_vars
                          => BusyMeansOneCompletion'
<1> SUFFICES ASSUME TypeInv, BusyMeansOneCompletion, [Next]_vars
             PROVE  BusyMeansOneCompletion'
  OBVIOUS
<1>t. TypeOK /\ Copies
  BY DEF TypeInv
<1>c. Completion \in Threads
  BY DEF Threads
<1> USE DEF ringVars, threadVars, historyVars
<1>1. ASSUME Launch PROVE BusyMeansOneCompletion'
  <2>1. PICK S \in SUBSET (Packets \ asked), c \in 0 .. 1 :
          /\ c <= due /\ due' = due - c
          /\ tpc' = [t \in Threads |-> IF t \in S THEN "send"
                                       ELSE IF t = Completion /\ c = 1 THEN "complete"
                                       ELSE "idle"]
    BY <1>1 DEF Launch
  <2>2. tpc'[Completion] = (IF c = 1 THEN "complete" ELSE "idle")
    BY <1>c, <2>1, Constants
  <2>3. tpc[Completion] = "idle" /\ UNCHANGED m_txMachineState
    BY <1>1, <1>c DEF Launch, KernelIdle
  <2> QED
    BY <1>t, <2>1, <2>2, <2>3 DEF BusyMeansOneCompletion, TypeOK
<1>2. ASSUME NEW t \in Threads, TransmitStart(t) PROVE BusyMeansOneCompletion'
  <2>1. tpc[t] = "start" /\ tpc'[t] \in {"idle", "enqueue"}
        /\ \A s \in Threads : s # t => tpc'[s] = tpc[s]
    BY <1>2, <1>t, GoTypes DEF TransmitStart
  <2>2. (tpc'[Completion] = "complete") = (tpc[Completion] = "complete")
    BY <1>c, <2>1
  <2> QED
    BY <1>2, <1>t, <2>2 DEF TransmitStart, BusyMeansOneCompletion, TypeOK
<1>3. ASSUME NEW t \in Threads, D_TransmitComplete(t) PROVE BusyMeansOneCompletion'
  <2>1. t = Completion /\ tpc[t] = "complete" /\ tpc'[t] \in {"dequeue", "idle"}
    BY <1>3, <1>t, GoTypes DEF D_TransmitComplete, Copies
  <2> QED
    BY <1>3, <1>t, <2>1 DEF D_TransmitComplete, BusyMeansOneCompletion, TypeOK
<1>4. ASSUME NEW t \in Threads,
             \/ SendFrom(t) \/ ReadRear(t) \/ ReadFront(t) \/ EnqueueDrop(t)
             \/ EnqueueClaim(t) \/ EnqueueStore(t) \/ DequeueClaim(t) \/ DequeueTake(t)
             \/ DequeueClear(t)
      PROVE BusyMeansOneCompletion'
  <2>1. UNCHANGED <<m_txMachineState, due>> /\ tpc[t] # "complete" /\ tpc'[t] # "complete"
        /\ \A s \in Threads : s # t => tpc'[s] = tpc[s]
    <3>1. UNCHANGED <<m_txMachineState, due>> /\ tpc[t] # "complete"
      BY <1>4 DEF SendFrom, ReadRear, ReadFront, EnqueueDrop, EnqueueClaim, EnqueueStore,
         DequeueClaim, DequeueTake, DequeueClear
    <3>2. \E pc \in {"idle", "start", "enqueue", "dequeue", "store", "take", "clear"} :
            tpc' = [tpc EXCEPT ![t] = pc]
      BY <1>4, <1>t DEF SendFrom, ReadRear, ReadFront, EnqueueDrop, EnqueueClaim,
         EnqueueStore, DequeueClaim, DequeueTake, DequeueClear, Go, TypeOK
    <3> QED
      BY <1>t, <3>1, <3>2 DEF TypeOK
  <2> QED
    BY <1>c, <2>1 DEF BusyMeansOneCompletion
<1>5. ASSUME Finished \/ UNCHANGED vars PROVE BusyMeansOneCompletion'
  BY <1>5 DEF Finished, vars, BusyMeansOneCompletion
<1> QED
  BY <1>1, <1>2, <1>3, <1>4, <1>5 DEF Next, Step

\* In any run the transmitter is busy exactly while one completion is due.
THEOREM BusyMeansOneCompletionHolds == Spec => []BusyMeansOneCompletion
<1>1. Init => TypeInv /\ BusyMeansOneCompletion
  BY InitTypeInv DEF Init, BusyMeansOneCompletion, Threads
<1>2. TypeInv /\ BusyMeansOneCompletion /\ [Next]_vars
        => TypeInv' /\ BusyMeansOneCompletion'
  BY TypeInvStep, CompletionStep
<1> QED
  BY <1>1, <1>2, PTL DEF Spec

----------------------------------------------------------------------------
(* Where a packet is.  Until it is transmitted or dropped, a packet that    *)
(* was sent is held by one thread, or lies in one slot, or has vanished;    *)
(* only DequeuePacket has it for a moment in both places.                   *)
Untouched(p) == transmitted[p] = 0 /\ p \notin lost

Holds(t) == tpc[t] \in {"send", "start", "enqueue", "store", "clear"}

Held == \A t \in Threads : Holds(t) => packet[t] \in asked /\ Untouched(packet[t])

Queued == \A i \in Positions : d_packetQueue[i] # None =>
  d_packetQueue[i] \in asked /\ Untouched(d_packetQueue[i])

OneHolder == \A s, t \in Threads : Holds(s) /\ Holds(t) /\ packet[s] = packet[t] => s = t

OneSlot == \A i, j \in Positions :
  d_packetQueue[i] # None /\ d_packetQueue[i] = d_packetQueue[j] => i = j

HolderOrSlot == \A t \in Threads : \A i \in Positions :
  Holds(t) /\ d_packetQueue[i] = packet[t] => tpc[t] = "clear" /\ i = front[t] % m_queueSize

NotYetSent == \A p \in Packets \ asked : Untouched(p)

PlaceInv == /\ Held /\ Queued /\ OneHolder /\ OneSlot /\ HolderOrSlot
            /\ NotYetSent /\ AtMostOnce

\* A step that moves no packet.
LEMMA QuietKeepsPlaces ==
  ASSUME PlaceInv, UNCHANGED <<packet, d_packetQueue, transmitted, lost, asked>>,
         \A s \in Threads : Holds(s)' => Holds(s),
         \A s \in Threads : tpc[s] = "clear" /\ Holds(s)'
                              => tpc'[s] = "clear" /\ front'[s] = front[s]
  PROVE  PlaceInv'
BY DEF PlaceInv, Held, Queued, OneHolder, OneSlot, HolderOrSlot, NotYetSent, AtMostOnce,
   Untouched

\* A step in which thread t gives its packet away, to the channel or to lost.
LEMMA GivingAwayKeepsPlaces ==
  ASSUME TypeOK, PlaceInv, NEW t \in Threads, tpc[t] \in {"start", "enqueue"},
         ~Holds(t)', UNCHANGED <<packet, d_packetQueue, asked>>,
         \A s \in Threads : s # t => tpc'[s] = tpc[s] /\ front'[s] = front[s],
         \/ /\ transmitted' = [transmitted EXCEPT ![packet[t]] = @ + 1]
            /\ lost' = lost
         \/ /\ lost' = lost \cup {packet[t]}
            /\ transmitted' = transmitted
  PROVE  PlaceInv'
<1>1. Holds(t) /\ packet[t] \in Packets /\ packet[t] \in asked /\ Untouched(packet[t])
  BY DEF Holds, TypeOK, PlaceInv, Held
<1>2. \A p \in Packets : p # packet[t] => /\ transmitted'[p] = transmitted[p]
                                          /\ p \in lost' => p \in lost
  BY <1>1 DEF TypeOK
<1>3. \A s \in Threads : Holds(s)' => Holds(s) /\ s # t /\ packet[s] # packet[t]
  BY <1>1 DEF Holds, PlaceInv, OneHolder
<1>4. \A i \in Positions : d_packetQueue[i] # packet[t]
  BY <1>1 DEF PlaceInv, HolderOrSlot
<1>5. AtMostOnce'
  <2>1. transmitted'[packet[t]] + (IF packet[t] \in lost' THEN 1 ELSE 0) <= 1
    BY <1>1 DEF Untouched, TypeOK
  <2> QED
    BY <1>2, <2>1 DEF PlaceInv, AtMostOnce, TypeOK
<1>6. Held' /\ OneHolder'
  BY <1>2, <1>3 DEF PlaceInv, Held, OneHolder, Untouched, TypeOK, Holds
<1>7. Queued' /\ OneSlot' /\ NotYetSent'
  BY <1>1, <1>2, <1>4 DEF PlaceInv, Queued, OneSlot, NotYetSent, Untouched, TypeOK
<1>8. HolderOrSlot'
  BY <1>3 DEF PlaceInv, HolderOrSlot
<1> QED
  BY <1>5, <1>6, <1>7, <1>8 DEF PlaceInv

\* Every step keeps a packet in one place.
LEMMA PlaceStep == TypeInv /\ PlaceInv /\ [Next]_vars => PlaceInv'
<1> SUFFICES ASSUME TypeInv, PlaceInv, [Next]_vars PROVE PlaceInv'
  OBVIOUS
<1>t. TypeOK /\ Copies
  BY DEF TypeInv
<1> USE DEF ringVars, threadVars, historyVars
<1>1. ASSUME Launch PROVE PlaceInv'
  <2>1. PICK S \in SUBSET (Packets \ asked), c \in 0 .. 1 :
          /\ tpc' = [t \in Threads |-> IF t \in S THEN "send"
                                       ELSE IF t = Completion /\ c = 1 THEN "complete"
                                       ELSE "idle"]
          /\ packet' = [t \in Threads |-> IF t \in S THEN t ELSE None]
          /\ asked' = asked \cup S
    BY <1>1 DEF Launch
  <2>2. UNCHANGED <<d_packetQueue, transmitted, lost>>
    BY <1>1 DEF Launch
  <2>3. \A t \in Threads : Holds(t)' => /\ packet'[t] = t /\ t \in S /\ t \in Packets
                                        /\ t \notin asked
    BY <2>1 DEF Holds
  <2>4. \A i \in Positions : d_packetQueue[i] # None => d_packetQueue[i] \in asked
    BY DEF PlaceInv, Queued
  <2>5. None \notin Packets
    BY Constants
  <2> QED
    BY <2>1, <2>2, <2>3, <2>4, <2>5 DEF PlaceInv, Held, Queued, OneHolder, OneSlot,
       HolderOrSlot, NotYetSent, AtMostOnce, Untouched
<1>2. ASSUME NEW t \in Threads,
             \/ SendFrom(t) \/ ReadRear(t) \/ ReadFront(t) \/ EnqueueClaim(t)
             \/ D_TransmitComplete(t) \/ DequeueClaim(t)
      PROVE PlaceInv'
  <2>1. UNCHANGED <<packet, d_packetQueue, transmitted, lost, asked>> /\ tpc[t] # "clear"
    BY <1>2 DEF SendFrom, ReadRear, ReadFront, EnqueueClaim, D_TransmitComplete, DequeueClaim
  <2>2. /\ \A s \in Threads : s # t => tpc'[s] = tpc[s] /\ front'[s] = front[s]
        /\ tpc'[t] \in {"start", "enqueue", "store"} => Holds(t)
        /\ tpc'[t] \in {tpc[t], "idle", "start", "enqueue", "dequeue", "store", "take"}
    BY <1>2, <1>t DEF SendFrom, ReadRear, ReadFront, EnqueueClaim, D_TransmitComplete,
       DequeueClaim, Go, TypeOK, Holds
  <2>3. \A s \in Threads : Holds(s)' => Holds(s)
    BY <2>2 DEF Holds
  <2> QED
    BY <2>1, <2>2, <2>3, QuietKeepsPlaces
<1>3. ASSUME NEW t \in Threads, TransmitStart(t) PROVE PlaceInv'
  <2>1. CASE m_txMachineState = "READY"
    <3>1. /\ transmitted' = [transmitted EXCEPT ![packet[t]] = @ + 1] /\ lost' = lost
          /\ Go(t, "idle") /\ tpc[t] = "start" /\ UNCHANGED <<packet, d_packetQueue, asked>>
      BY <1>3, <2>1 DEF TransmitStart
    <3> QED
      BY <1>t, <3>1, GoTypes, GivingAwayKeepsPlaces, ZenonT(60) DEF Holds
  <2>2. CASE m_txMachineState # "READY"
    <3>1. /\ UNCHANGED <<packet, d_packetQueue, transmitted, lost, asked>>
          /\ Go(t, "enqueue") /\ tpc[t] = "start"
      BY <1>3, <2>2 DEF TransmitStart
    <3> QED
      BY <1>t, <3>1, GoTypes, QuietKeepsPlaces DEF Holds
  <2> QED
    BY <2>1, <2>2
<1>4. ASSUME NEW t \in Threads, EnqueueDrop(t) PROVE PlaceInv'
  <2>1. /\ lost' = lost \cup {packet[t]} /\ transmitted' = transmitted
        /\ Go(t, "idle") /\ tpc[t] = "enqueue" /\ UNCHANGED <<packet, d_packetQueue, asked>>
    BY <1>4 DEF EnqueueDrop
  <2> QED
    BY <1>t, <2>1, GoTypes, GivingAwayKeepsPlaces DEF Holds
<1>5. ASSUME NEW t \in Threads, EnqueueStore(t) PROVE PlaceInv'
  <2> DEFINE pos == rear[t] % m_queueSize
  <2>1. /\ tpc[t] = "store" /\ Go(t, "idle") /\ pos \in Positions
        /\ d_packetQueue' = [d_packetQueue EXCEPT ![pos] = packet[t]]
        /\ UNCHANGED <<packet, transmitted, lost, asked>>
    BY <1>5, <1>t, Position DEF EnqueueStore, Copies, TypeOK
  <2>2. /\ packet[t] \in Packets /\ packet[t] \in asked /\ Untouched(packet[t])
        /\ \A i \in Positions : d_packetQueue[i] # packet[t]
    BY <1>t, <2>1 DEF PlaceInv, Held, HolderOrSlot, Holds, TypeOK
  <2>3. \A i \in Positions : d_packetQueue'[i] = IF i = pos THEN packet[t] ELSE d_packetQueue[i]
    BY <1>t, <2>1 DEF TypeOK
  <2>4. \A s \in Threads : Holds(s)' => /\ Holds(s) /\ packet[s] # packet[t]
                                        /\ tpc'[s] = tpc[s] /\ front'[s] = front[s]
    BY <1>t, <2>1, GoTypes DEF PlaceInv, OneHolder, Holds
  <2>5. Held' /\ OneHolder' /\ NotYetSent' /\ AtMostOnce'
    BY <2>1, <2>4 DEF PlaceInv, Held, OneHolder, NotYetSent, AtMostOnce, Untouched
  <2>6. Queued' /\ OneSlot'
    BY <2>1, <2>2, <2>3 DEF PlaceInv, Queued, OneSlot, Untouched
  <2>7. HolderOrSlot'
    BY <2>1, <2>3, <2>4 DEF PlaceInv, HolderOrSlot
  <2> QED
    BY <2>5, <2>6, <2>7 DEF PlaceInv
<1>6. ASSUME NEW t \in Threads, DequeueTake(t) PROVE PlaceInv'
  <2> DEFINE pos == front[t] % m_queueSize
  <2>1. /\ tpc[t] = "take" /\ pos \in Positions
        /\ UNCHANGED <<d_packetQueue, transmitted, lost, asked>>
    BY <1>6, <1>t, Position DEF DequeueTake, Copies, TypeOK
  <2>2. CASE d_packetQueue[pos] = None
    <3>1. Go(t, "idle") /\ UNCHANGED packet
      BY <1>6, <2>2 DEF DequeueTake
    <3> QED
      BY <1>t, <2>1, <3>1, GoTypes, QuietKeepsPlaces DEF Holds
  <2>3. CASE d_packetQueue[pos] # None
    <3>1. /\ packet' = [packet EXCEPT ![t] = d_packetQueue[pos]]
          /\ tpc' = [tpc EXCEPT ![t] = "clear"] /\ UNCHANGED front
      BY <1>6, <2>3 DEF DequeueTake
    <3>2. /\ packet'[t] = d_packetQueue[pos] /\ tpc'[t] = "clear"
          /\ \A s \in Threads : s # t => packet'[s] = packet[s] /\ tpc'[s] = tpc[s]
      BY <1>t, <3>1 DEF TypeOK
    <3>3. \A s \in Threads : s # t /\ Holds(s) => packet[s] # d_packetQueue[pos]
      <4> SUFFICES ASSUME NEW s \in Threads, s # t, Holds(s), packet[s] = d_packetQueue[pos]
                   PROVE  FALSE
        OBVIOUS
      <4>1. tpc[s] = "clear"
        BY <2>1 DEF PlaceInv, HolderOrSlot
      <4>2. s = Completion /\ t = Completion
        BY <1>t, <2>1, <4>1 DEF Copies
      <4> QED
        BY <4>2
    <3>4. Held' /\ OneHolder'
      BY <2>1, <2>3, <3>2, <3>3 DEF PlaceInv, Held, Queued, OneHolder, Holds, Untouched
    <3>5. HolderOrSlot'
      BY <2>1, <2>3, <3>1, <3>2 DEF PlaceInv, HolderOrSlot, OneSlot, Holds
    <3>6. Queued' /\ OneSlot' /\ NotYetSent' /\ AtMostOnce'
      BY <2>1 DEF PlaceInv, Queued, OneSlot, NotYetSent, AtMostOnce, Untouched
    <3> QED
      BY <3>4, <3>5, <3>6 DEF PlaceInv
  <2> QED
    BY <2>2, <2>3
<1>7. ASSUME NEW t \in Threads, DequeueClear(t) PROVE PlaceInv'
  <2> DEFINE pos == front[t] % m_queueSize
  <2>1. /\ tpc[t] = "clear" /\ Go(t, "start")
        /\ d_packetQueue' = [d_packetQueue EXCEPT ![pos] = None]
        /\ UNCHANGED <<packet, transmitted, lost, asked>>
    BY <1>7 DEF DequeueClear
  <2>2. \A i \in Positions : d_packetQueue'[i] = IF i = pos THEN None ELSE d_packetQueue[i]
    BY <1>t, <2>1 DEF TypeOK
  <2>3. /\ \A s \in Threads : s # t => tpc'[s] = tpc[s] /\ front'[s] = front[s]
        /\ tpc'[t] = "start" /\ \A s \in Threads : Holds(s)' => Holds(s)
    BY <1>t, <2>1, GoTypes DEF Holds
  <2>4. Held' /\ OneHolder' /\ NotYetSent' /\ AtMostOnce'
    BY <2>1, <2>3 DEF PlaceInv, Held, OneHolder, NotYetSent, AtMostOnce, Untouched
  <2>5. Queued' /\ OneSlot'
    BY <2>1, <2>2 DEF PlaceInv, Queued, OneSlot, Untouched
  <2>6. HolderOrSlot'
    <3> SUFFICES ASSUME NEW s \in Threads, NEW i \in Positions,
                        Holds(s)', d_packetQueue'[i] = packet[s]
                 PROVE  s # t /\ tpc[s] = "clear" /\ i = front[s] % m_queueSize
      BY <2>1, <2>3 DEF HolderOrSlot
    <3>1. packet[s] # None /\ Holds(s)
      BY <1>t, <2>3 DEF TypeOK, Holds
    <3>2. i # pos /\ d_packetQueue[i] = packet[s]
      BY <2>2, <3>1, Constants
    <3> QED
      BY <3>1, <3>2 DEF PlaceInv, HolderOrSlot
  <2> QED
    BY <2>4, <2>5, <2>6 DEF PlaceInv
<1>8. ASSUME Finished \/ UNCHANGED vars PROVE PlaceInv'
  BY <1>8 DEF Finished, vars, PlaceInv, Held, Queued, OneHolder, OneSlot, HolderOrSlot,
     NotYetSent, AtMostOnce, Untouched, Holds
<1> QED
  BY <1>1, <1>2, <1>3, <1>4, <1>5, <1>6, <1>7, <1>8 DEF Next, Step

\* In any run a packet is transmitted at most once and never after its drop.
THEOREM AtMostOnceHolds == Spec => []AtMostOnce
<1>1. Init => TypeInv /\ PlaceInv
  BY InitTypeInv DEF Init, PlaceInv, Held, Queued, OneHolder, OneSlot, HolderOrSlot,
     NotYetSent, AtMostOnce, Untouched, Holds
<1>2. TypeInv /\ PlaceInv /\ [Next]_vars => TypeInv' /\ PlaceInv'
  BY TypeInvStep, PlaceStep
<1>3. PlaceInv => AtMostOnce
  BY DEF PlaceInv
<1> QED
  BY <1>1, <1>2, <1>3, PTL DEF Spec

----------------------------------------------------------------------------
(* Kernels that hold only sends, or only a completion.                     *)

\* Counters less than a turn of the ring apart are at different positions;
\* a whole turn apart, at the same one.
LEMMA PositionsDiffer ==
  ASSUME NEW m \in Nat, NEW n \in Nat, m < n, n < m + m_queueSize
  PROVE  m % m_queueSize # n % m_queueSize
<1> SUFFICES ASSUME m % m_queueSize = n % m_queueSize PROVE FALSE
  OBVIOUS
<1> DEFINE a == m \div m_queueSize
           b == n \div m_queueSize
<1>1. /\ a \in Int /\ b \in Int /\ m_queueSize \in Nat \ {0}
      /\ m = m_queueSize * a + (m % m_queueSize) /\ n = m_queueSize * b + (n % m_queueSize)
  BY Constants
<1>2. n - m = m_queueSize * b - m_queueSize * a
  BY <1>1
<1>3. m_queueSize * b - m_queueSize * a = m_queueSize * (b - a)
  BY <1>1
<1>4. b - a \in Int /\ m_queueSize * (b - a) > 0 /\ m_queueSize * (b - a) < m_queueSize
  BY <1>1, <1>2, <1>3
<1>5. CASE b - a <= 0
  BY <1>1, <1>4, <1>5
<1>6. CASE b - a >= 1
  BY <1>1, <1>4, <1>6
<1> QED
  BY <1>4, <1>5, <1>6

LEMMA PositionRepeats == ASSUME NEW n \in Nat
  PROVE  (n + m_queueSize) % m_queueSize = n % m_queueSize
<1> DEFINE m == n + m_queueSize
           a == n \div m_queueSize
           b == m \div m_queueSize
           r == n % m_queueSize
           s == m % m_queueSize
<1> SUFFICES r = s
  OBVIOUS
<1>1. /\ a \in Int /\ b \in Int /\ m_queueSize \in Nat \ {0} /\ m \in Nat
      /\ r \in 0 .. m_queueSize - 1 /\ s \in 0 .. m_queueSize - 1
      /\ n = m_queueSize * a + r /\ m = m_queueSize * b + s
  BY Constants
<1> HIDE DEF a, b, r, s
<1>2. m_queueSize * (b - a - 1) = m_queueSize * b - m_queueSize * a - m_queueSize
  BY <1>1
<1>3. PICK d \in Int : d = b - a - 1
  BY <1>1
<1>4. m_queueSize * d = r - s
  BY <1>1, <1>2, <1>3
<1>5. d = 0
  BY <1>1, <1>4
<1>6. m_queueSize * d = 0
  BY <1>1, <1>5
<1> QED
  BY <1>1, <1>4, <1>6

\* The packet at the position of a counter.
Slot(n) == d_packetQueue[n % m_queueSize]

OneKind == \A p \in Packets : tpc[p] = "idle" \/ tpc[Completion] = "idle"

\* A send that goes to the ring has seen the transmitter busy, and nobody
\* frees it in a kernel of sends.
SendSteps == \A p \in Packets :
  /\ tpc[p] \in {"idle", "send", "start", "enqueue", "store"}
  /\ tpc[p] \in {"enqueue", "store"} => m_txMachineState = "BUSY"

\* A completion that fetches a packet has freed the transmitter, and nobody
\* takes it, nor moves the rear counter, in its kernel.
CompletionSteps ==
  /\ tpc[Completion] \in {"idle", "complete", "dequeue", "take", "clear", "start"}
  /\ tpc[Completion] \in {"dequeue", "take", "clear", "start"} => m_txMachineState = "READY"
  /\ tpc[Completion] = "dequeue" /\ rear[Completion] # Unread => rear[Completion] = d_queueRear
  /\ tpc[Completion] \in {"take", "clear"} =>
       d_queueFront = front[Completion] + 1 /\ d_queueRear <= front[Completion] + m_queueSize

\* With the transmitter free, whatever is in the ring is being fetched.
Fetched == m_txMachineState = "READY" /\ d_queueRear # d_queueFront
             => tpc[Completion] \in {"dequeue", "take", "clear", "start"}

\* A claimed slot holds a packet, or a send is about to store one there,
\* alone; a slot not claimed is free, or is being emptied.
Written == \A n \in d_queueFront .. d_queueRear - 1 :
  Slot(n) # None \/ \E p \in Packets : tpc[p] = "store" /\ rear[p] = n
Stores ==
  /\ \A p \in Packets : tpc[p] = "store" =>
       rear[p] \in d_queueFront .. d_queueRear - 1 /\ Slot(rear[p]) = None
  /\ \A p, q \in Packets : tpc[p] = "store" /\ tpc[q] = "store" /\ rear[p] = rear[q] => p = q
Vacant ==
  /\ \A n \in d_queueRear .. d_queueFront + m_queueSize - 1 :
       \/ Slot(n) = None
       \/ tpc[Completion] \in {"take", "clear"} /\ n = front[Completion] + m_queueSize
  /\ tpc[Completion] = "take" => Slot(front[Completion]) # None

\* A packet that was sent is done with, or held, or in a claimed slot, or in
\* the slot that the completion has just claimed for itself.
Settled(p) == transmitted[p] > 0 \/ p \in lost
Somewhere == \A p \in asked :
  \/ Settled(p)
  \/ \E t \in Threads : Holds(t) /\ packet[t] = p
  \/ \E n \in d_queueFront .. d_queueRear - 1 : Slot(n) = p
  \/ tpc[Completion] = "take" /\ Slot(front[Completion]) = p

Apart == /\ OneKind /\ SendSteps /\ CompletionSteps /\ Fetched
         /\ Written /\ Stores /\ Vacant /\ Somewhere
ApartInv == ~mixed => Apart

\* Between kernels it says that nothing is lost and nothing stranded.
LEMMA ApartIsEnough == TypeInv /\ ApartInv => ApartAllTransmitted
<1> SUFFICES ASSUME TypeInv, Apart, KernelIdle
             PROVE  /\ \A p \in asked : \/ transmitted[p] > 0 \/ p \in lost
                                        \/ \E i \in Claimed : d_packetQueue[i] = p
                    /\ m_txMachineState = "READY" => d_queueRear = d_queueFront
  BY DEF ApartInv, ApartAllTransmitted, ApartNothingLost, ApartNoneStranded, NothingLost,
     NoneStranded
<1>1. \A t \in Threads : ~Holds(t) /\ tpc[t] = "idle"
  BY DEF KernelIdle, Holds
<1>2. tpc[Completion] = "idle"
  BY <1>1 DEF Threads
<1>3. \A n \in d_queueFront .. d_queueRear - 1 : n % m_queueSize \in Claimed
  BY DEF Claimed
<1>4. \A p \in asked : \/ transmitted[p] > 0 \/ p \in lost
                       \/ \E i \in Claimed : d_packetQueue[i] = p
  BY <1>1, <1>2, <1>3 DEF Apart, Somewhere, Settled, Slot
<1> QED
  BY <1>2, <1>4 DEF Apart, Fetched

\* Different counters of one turn of the ring have different positions.
LEMMA InWindow ==
  ASSUME NEW m \in Nat, NEW n \in Nat, m # n, m < n + m_queueSize, n < m + m_queueSize
  PROVE  m % m_queueSize # n % m_queueSize
<1>1. CASE m < n
  BY <1>1, PositionsDiffer
<1>2. CASE n < m
  BY <1>2, PositionsDiffer
<1> QED
  BY <1>1, <1>2

\* Writing the slot of a counter leaves the other positions alone.
LEMMA OneSlotWritten ==
  ASSUME TypeOK, NEW n \in Nat, NEW x,
         d_packetQueue' = [d_packetQueue EXCEPT ![n % m_queueSize] = x]
  PROVE  \A m \in Nat : Slot(m)' = IF m % m_queueSize = n % m_queueSize THEN x ELSE Slot(m)
BY Position DEF TypeOK, Slot

\* What is left alone by a step that changes no slot and no counter.
LEMMA RingUntouched ==
  ASSUME UNCHANGED ringVars
  PROVE  \A n : Slot(n)' = Slot(n)
BY DEF Slot, ringVars

\* A step that changes neither ring nor what threads hold loses no packet if
\* who stops holding one has settled it.
LEMMA SomewhereStays ==
  ASSUME Somewhere, UNCHANGED <<ringVars, packet, asked>>,
         \A p \in asked : Settled(p) => Settled(p)',
         \A s \in Threads : Holds(s) /\ packet[s] \in asked => Holds(s)' \/ Settled(packet[s])',
         tpc[Completion] = "take" => tpc'[Completion] = "take"
                                     /\ front'[Completion] = front[Completion]
  PROVE  Somewhere'
BY RingUntouched DEF Somewhere, ringVars

\* Every step of kernels that hold only sends, or only a completion.
LEMMA ApartStep == TypeInv /\ ApartInv /\ [Next]_vars => ApartInv'
<1> SUFFICES ASSUME TypeInv, ApartInv, [Next]_vars, ~mixed' PROVE Apart'
  BY DEF ApartInv
<1>t. TypeOK /\ Copies
  BY DEF TypeInv
<1>c. /\ Completion \in Threads /\ Packets \subseteq Threads /\ Completion \notin Packets
      /\ None \notin Packets /\ Threads = Packets \cup {Completion}
  BY Constants DEF Threads
<1>n. /\ d_queueFront \in Nat /\ d_queueRear \in Nat /\ m_queueSize \in Nat \ {0}
      /\ d_queueFront <= d_queueRear /\ d_queueRear <= d_queueFront + m_queueSize
  BY <1>t, Constants DEF TypeOK
<1> USE DEF ringVars, threadVars, historyVars
<1>m. ~mixed /\ Apart
  <2>1. mixed => mixed'
    BY DEF Next, Launch, Step, SendFrom, TransmitStart, ReadRear, ReadFront, EnqueueDrop,
       EnqueueClaim, EnqueueStore, D_TransmitComplete, DequeueClaim, DequeueTake,
       DequeueClear, Finished, vars
  <2> QED
    BY <2>1 DEF ApartInv
<1>a. /\ OneKind /\ SendSteps /\ CompletionSteps /\ Fetched
      /\ Written /\ Stores /\ Vacant /\ Somewhere
  BY <1>m DEF Apart
<1>1. ASSUME Launch PROVE Apart'
  <2>1. PICK S \in SUBSET (Packets \ asked), c \in 0 .. 1 :
          /\ S # {} \/ c = 1
          /\ mixed' = (mixed \/ (S # {} /\ c = 1))
          /\ tpc' = [t \in Threads |-> IF t \in S THEN "send"
                                       ELSE IF t = Completion /\ c = 1 THEN "complete"
                                       ELSE "idle"]
          /\ packet' = [t \in Threads |-> IF t \in S THEN t ELSE None]
          /\ asked' = asked \cup S
    BY <1>1 DEF Launch
  <2>2. UNCHANGED <<m_txMachineState, ringVars, rear, front, transmitted, lost>>
    BY <1>1 DEF Launch
  <2>3. \A t \in Threads : tpc[t] = "idle" /\ ~Holds(t)
    BY <1>1 DEF Launch, KernelIdle, Holds
  <2>4. S = {} \/ c # 1
    BY <2>1, Zenon
  <2>5. /\ \A p \in Packets : tpc'[p] = IF p \in S THEN "send" ELSE "idle"
        /\ tpc'[Completion] = IF c = 1 THEN "complete" ELSE "idle"
    BY <1>c, <2>1
  <2>6. \A n : Slot(n)' = Slot(n)
    BY <2>2, RingUntouched
  <2>7. OneKind' /\ SendSteps' /\ CompletionSteps'
    BY <2>4, <2>5 DEF OneKind, SendSteps, CompletionSteps
  <2>8. Fetched'
    BY <1>a, <1>c, <2>2, <2>3 DEF Fetched
  <2>9. Written' /\ Stores' /\ Vacant'
    BY <1>a, <1>c, <2>2, <2>3, <2>5, <2>6 DEF Written, Stores, Vacant
  <2>10. Somewhere'
    <3> SUFFICES ASSUME NEW p \in asked \cup S
                 PROVE  \/ Settled(p)' \/ \E t \in Threads : Holds(t)' /\ packet'[t] = p
                        \/ \E n \in d_queueFront .. d_queueRear - 1 : Slot(n) = p
      BY <2>1, <2>2, <2>6 DEF Somewhere
    <3>1. CASE p \in S
      <4>1. p \in Threads /\ Holds(p)' /\ packet'[p] = p
        BY <1>c, <2>1, <3>1 DEF Holds
      <4> QED
        BY <4>1
    <3>2. CASE p \in asked
      BY <1>a, <1>c, <2>2, <2>3, <3>2 DEF Somewhere, Settled
    <3> QED
      BY <3>1, <3>2
  <2> QED
    BY <2>7, <2>8, <2>9, <2>10 DEF Apart
<1>2. ASSUME NEW t \in Threads, SendFrom(t) PROVE Apart'
  <2>1. /\ tpc[t] = "send" /\ t \in Packets /\ tpc[Completion] = "idle"
        /\ UNCHANGED <<m_txMachineState, ringVars, packet, transmitted, lost, asked>>
    BY <1>2, <1>a, <1>c DEF SendFrom, CompletionSteps, OneKind
  <2>2. /\ \A s \in Threads : s # t => tpc'[s] = tpc[s] /\ rear'[s] = rear[s] /\ front'[s] = front[s]
        /\ tpc'[t] \in {"start", "enqueue"}
        /\ tpc'[t] = "enqueue" => m_txMachineState = "BUSY"
    BY <1>2, <1>t, GoTypes DEF SendFrom, TypeOK
  <2>3. OneKind' /\ SendSteps' /\ CompletionSteps' /\ Fetched'
    BY <1>a, <1>c, <2>1, <2>2 DEF OneKind, SendSteps, CompletionSteps, Fetched
  <2>4. Written' /\ Stores' /\ Vacant'
    BY <1>a, <1>c, <2>1, <2>2, RingUntouched DEF Written, Stores, Vacant
  <2>5. Somewhere'
    BY <1>a, <1>c, <2>1, <2>2, SomewhereStays DEF Settled, Holds
  <2> QED
    BY <2>3, <2>4, <2>5 DEF Apart
<1>3. ASSUME NEW t \in Threads, TransmitStart(t) PROVE Apart'
  <2>1. /\ tpc[t] = "start" /\ UNCHANGED <<ringVars, packet, lost, asked>>
    BY <1>3 DEF TransmitStart
  <2>2. \A s \in Threads : s # t => tpc'[s] = tpc[s] /\ rear'[s] = rear[s] /\ front'[s] = front[s]
    BY <1>3, <1>t, GoTypes DEF TransmitStart
  <2>3. CASE m_txMachineState = "READY"
    <3>1. /\ m_txMachineState' = "BUSY" /\ tpc'[t] = "idle"
          /\ transmitted' = [transmitted EXCEPT ![packet[t]] = @ + 1]
      BY <1>3, <1>t, <2>3, GoTypes DEF TransmitStart
    <3>2. packet[t] \in Packets
      BY <1>t, <2>1 DEF TypeOK
    <3>3. \A p \in Packets : /\ transmitted[p] > 0 => transmitted'[p] > 0
                             /\ p = packet[t] => transmitted'[p] > 0
      BY <1>t, <3>1, <3>2 DEF TypeOK
    <3>4. OneKind' /\ SendSteps' /\ CompletionSteps' /\ Fetched'
      BY <1>a, <1>c, <2>1, <2>2, <3>1 DEF OneKind, SendSteps, CompletionSteps, Fetched
    <3>5. Written' /\ Stores' /\ Vacant'
      BY <1>a, <1>c, <2>1, <2>2, <3>1, RingUntouched DEF Written, Stores, Vacant
    <3>6. Somewhere'
      BY <1>a, <1>c, <1>t, <2>1, <2>2, <3>1, <3>2, <3>3, SomewhereStays
         DEF Settled, Holds, TypeOK
    <3> QED
      BY <3>4, <3>5, <3>6 DEF Apart
  <2>4. CASE m_txMachineState # "READY"
    <3>1. /\ m_txMachineState = "BUSY" /\ tpc'[t] = "enqueue"
          /\ UNCHANGED <<m_txMachineState, transmitted>>
      BY <1>3, <1>t, <2>4, GoTypes DEF TransmitStart
    <3>2. t \in Packets /\ tpc[Completion] = "idle"
      BY <1>a, <1>c, <2>1, <2>4 DEF CompletionSteps, OneKind
    <3>3. OneKind' /\ SendSteps' /\ CompletionSteps' /\ Fetched'
      BY <1>a, <1>c, <2>1, <2>2, <3>1, <3>2 DEF OneKind, SendSteps, CompletionSteps, Fetched
    <3>4. Written' /\ Stores' /\ Vacant'
      BY <1>a, <1>c, <2>1, <2>2, <3>1, <3>2, RingUntouched DEF Written, Stores, Vacant
    <3>5. Somewhere'
      BY <1>a, <1>c, <2>1, <2>2, <3>1, <3>2, SomewhereStays DEF Settled, Holds
    <3> QED
      BY <3>3, <3>4, <3>5 DEF Apart
  <2> QED
    BY <2>3, <2>4
<1>4. ASSUME NEW t \in Threads, ReadRear(t) \/ ReadFront(t) PROVE Apart'
  <2>1. /\ tpc[t] \in {"enqueue", "dequeue"}
        /\ UNCHANGED <<m_txMachineState, ringVars, tpc, packet, transmitted, lost, asked>>
        /\ \A s \in Threads : s # t => rear'[s] = rear[s] /\ front'[s] = front[s]
        /\ rear'[t] \in {rear[t], d_queueRear}
    BY <1>4, <1>t DEF ReadRear, ReadFront, TypeOK
  <2>2. CompletionSteps'
    <3>1. CASE t = Completion
      BY <1>4, <1>a, <1>t, <2>1, <3>1 DEF CompletionSteps, ReadRear, ReadFront, TypeOK
    <3>2. CASE t # Completion
      BY <1>a, <1>c, <2>1, <3>2 DEF CompletionSteps
    <3> QED
      BY <3>1, <3>2
  <2>3. OneKind' /\ SendSteps' /\ Fetched'
    BY <1>a, <2>1 DEF OneKind, SendSteps, Fetched
  <2>4. \A s \in Threads : tpc[s] \in {"store", "take", "clear"} => rear'[s] = rear[s] /\ front'[s] = front[s]
    BY <2>1
  <2>5. Written' /\ Stores' /\ Vacant'
    BY <1>a, <1>c, <2>1, <2>4, RingUntouched DEF Written, Stores, Vacant
  <2>6. Somewhere'
    BY <1>a, <1>c, <2>1, <2>4, SomewhereStays DEF Settled, Holds
  <2> QED
    BY <2>2, <2>3, <2>5, <2>6 DEF Apart
<1>5. ASSUME NEW t \in Threads, EnqueueDrop(t) PROVE Apart'
  <2>1. /\ tpc[t] = "enqueue" /\ t \in Packets /\ tpc[Completion] = "idle"
        /\ lost' = lost \cup {packet[t]}
        /\ UNCHANGED <<m_txMachineState, ringVars, packet, transmitted, asked>>
    BY <1>5, <1>a, <1>c DEF EnqueueDrop, CompletionSteps, OneKind
  <2>2. /\ \A s \in Threads : s # t => tpc'[s] = tpc[s] /\ rear'[s] = rear[s] /\ front'[s] = front[s]
        /\ tpc'[t] = "idle"
    BY <1>5, <1>t, GoTypes DEF EnqueueDrop
  <2>3. OneKind' /\ SendSteps' /\ CompletionSteps' /\ Fetched'
    BY <1>a, <1>c, <2>1, <2>2 DEF OneKind, SendSteps, CompletionSteps, Fetched
  <2>4. Written' /\ Stores' /\ Vacant'
    BY <1>a, <1>c, <2>1, <2>2, RingUntouched DEF Written, Stores, Vacant
  <2>5. Somewhere'
    BY <1>a, <1>c, <2>1, <2>2, SomewhereStays DEF Settled, Holds
  <2> QED
    BY <2>3, <2>4, <2>5 DEF Apart
<1>6. ASSUME NEW t \in Threads, EnqueueClaim(t) PROVE Apart'
  <2>1. /\ tpc[t] = "enqueue" /\ t \in Packets /\ tpc[Completion] = "idle"
        /\ m_txMachineState = "BUSY"
        /\ UNCHANGED <<m_txMachineState, d_queueFront, d_packetQueue, packet, transmitted,
                       lost, asked>>
    BY <1>6, <1>a, <1>c DEF EnqueueClaim, CompletionSteps, OneKind, SendSteps
  <2>2. CASE d_queueRear # rear[t]
    <3>1. /\ \A s \in Threads : s # t => tpc'[s] = tpc[s] /\ rear'[s] = rear[s] /\ front'[s] = front[s]
          /\ tpc'[t] = "enqueue" /\ UNCHANGED d_queueRear
      BY <1>6, <1>t, <2>2, GoTypes DEF EnqueueClaim
    <3>2. OneKind' /\ SendSteps' /\ CompletionSteps' /\ Fetched'
      BY <1>a, <1>c, <2>1, <3>1 DEF OneKind, SendSteps, CompletionSteps, Fetched
    <3>3. Written' /\ Stores' /\ Vacant'
      BY <1>a, <1>c, <2>1, <3>1, RingUntouched DEF Written, Stores, Vacant
    <3>4. Somewhere'
      BY <1>a, <1>c, <2>1, <3>1, SomewhereStays DEF Settled, Holds
    <3> QED
      BY <3>2, <3>3, <3>4 DEF Apart
  <2>3. CASE d_queueRear = rear[t]
    <3>1. /\ d_queueRear' = d_queueRear + 1 /\ tpc' = [tpc EXCEPT ![t] = "store"]
          /\ UNCHANGED <<rear, front>>
      BY <1>6, <2>3 DEF EnqueueClaim
    <3>2. /\ \A s \in Threads : s # t => tpc'[s] = tpc[s]
          /\ tpc'[t] = "store" /\ tpc'[Completion] = "idle"
      BY <1>t, <1>c, <2>1, <3>1 DEF TypeOK
    <3>3. \A n : Slot(n)' = Slot(n)
      BY <2>1 DEF Slot
    <3>4. OneKind' /\ SendSteps' /\ CompletionSteps' /\ Fetched'
      BY <1>a, <1>c, <2>1, <3>1, <3>2 DEF OneKind, SendSteps, CompletionSteps, Fetched
    <3>5. d_queueRear + 1 <= d_queueFront + m_queueSize
      BY <1>6, <2>3, ClaimIsFree DEF EnqueueClaim
    <3>6. Slot(d_queueRear) = None
      BY <1>a, <1>n, <2>1, <3>5 DEF Vacant
    <3>7. Vacant'
      BY <1>a, <1>n, <2>1, <3>1, <3>2, <3>3 DEF Vacant
    <3>8. Written'
      <4> SUFFICES ASSUME NEW n \in d_queueFront .. d_queueRear, Slot(n) = None
                   PROVE  \E p \in Packets : tpc'[p] = "store" /\ rear[p] = n
        BY <1>n, <2>1, <3>1, <3>3 DEF Written
      <4>1. CASE n = d_queueRear
        BY <2>1, <2>3, <3>2, <4>1
      <4>2. CASE n # d_queueRear
        <5>1. PICK p \in Packets : tpc[p] = "store" /\ rear[p] = n
          BY <1>a, <1>n, <4>2 DEF Written
        <5> QED
          BY <1>c, <2>1, <3>2, <5>1
      <4> QED
        BY <4>1, <4>2
    <3>9. Stores'
      <4>1. \A p \in Packets : tpc'[p] = "store" => tpc[p] = "store" \/ p = t
        BY <1>c, <3>2
      <4>2. \A p \in Packets : tpc[p] = "store" => rear[p] < d_queueRear
        BY <1>a, <1>n DEF Stores
      <4>3. \A p \in Packets : tpc'[p] = "store" =>
              rear[p] \in d_queueFront .. d_queueRear /\ Slot(rear[p]) = None
        BY <1>a, <1>n, <2>3, <3>6, <4>1 DEF Stores
      <4>4. \A p, q \in Packets : tpc'[p] = "store" /\ tpc'[q] = "store" /\ rear[p] = rear[q] => p = q
        BY <1>a, <1>n, <2>3, <4>1, <4>2 DEF Stores
      <4>5. \A p \in Packets : Slot(rear[p])' = Slot(rear[p])
        BY <2>1, <3>1 DEF Slot
      <4> QED
        BY <1>n, <2>1, <3>1, <4>3, <4>4, <4>5 DEF Stores
    <3>10. Somewhere'
      <4> SUFFICES ASSUME NEW p \in asked
                   PROVE  \/ Settled(p) \/ \E s \in Threads : Holds(s)' /\ packet[s] = p
                          \/ \E n \in d_queueFront .. d_queueRear : Slot(n) = p
        BY <1>n, <2>1, <3>1, <3>3 DEF Somewhere, Settled
      <4>1. \A s \in Threads : Holds(s) => Holds(s)'
        BY <2>1, <3>2 DEF Holds
      <4>2. \A n \in d_queueFront .. d_queueRear - 1 : n \in d_queueFront .. d_queueRear
        BY <1>n
      <4> QED
        BY <1>a, <2>1, <4>1, <4>2 DEF Somewhere
    <3> QED
      BY <3>4, <3>7, <3>8, <3>9, <3>10 DEF Apart
  <2> QED
    BY <2>2, <2>3
<1>7. ASSUME NEW t \in Threads, EnqueueStore(t) PROVE Apart'
  <2>1. /\ tpc[t] = "store" /\ t \in Packets /\ tpc[Completion] = "idle"
        /\ m_txMachineState = "BUSY" /\ packet[t] \in Packets /\ rear[t] \in Nat
        /\ UNCHANGED <<m_txMachineState, d_queueFront, d_queueRear, packet, transmitted,
                       lost, asked>>
    BY <1>7, <1>a, <1>c, <1>t DEF EnqueueStore, CompletionSteps, OneKind, SendSteps, Copies,
       TypeOK
  <2>2. /\ \A s \in Threads : s # t => tpc'[s] = tpc[s] /\ rear'[s] = rear[s] /\ front'[s] = front[s]
        /\ tpc'[t] = "idle" /\ tpc'[Completion] = "idle"
    BY <1>7, <1>t, <1>c, <2>1, GoTypes DEF EnqueueStore
  <2>3. PICK n0 \in d_queueFront .. d_queueRear - 1 : n0 = rear[t]
    BY <1>a, <2>1 DEF Stores
  <2>4. n0 \in Nat /\ d_packetQueue' = [d_packetQueue EXCEPT ![n0 % m_queueSize] = packet[t]]
    BY <1>7, <1>n, <2>3 DEF EnqueueStore
  <2>5. \A m \in d_queueFront .. d_queueFront + m_queueSize - 1 :
          Slot(m)' = IF m = n0 THEN packet[t] ELSE Slot(m)
    <3> SUFFICES ASSUME NEW m \in d_queueFront .. d_queueFront + m_queueSize - 1
                 PROVE  Slot(m)' = IF m = n0 THEN packet[t] ELSE Slot(m)
      OBVIOUS
    <3>1. m \in Nat /\ m < n0 + m_queueSize /\ n0 < m + m_queueSize
      BY <1>n, <2>3
    <3>2. Slot(m)' = IF m % m_queueSize = n0 % m_queueSize THEN packet[t] ELSE Slot(m)
      BY <1>t, <2>4, <3>1, OneSlotWritten
    <3> QED
      BY <2>4, <3>1, <3>2, InWindow
  <2>6. \A m \in d_queueFront .. d_queueRear - 1 : m \in d_queueFront .. d_queueFront + m_queueSize - 1
    BY <1>n
  <2>7. OneKind' /\ SendSteps' /\ CompletionSteps' /\ Fetched'
    BY <1>a, <1>c, <2>1, <2>2 DEF OneKind, SendSteps, CompletionSteps, Fetched
  <2>8. Written'
    <3> SUFFICES ASSUME NEW n \in d_queueFront .. d_queueRear - 1, Slot(n)' = None
                 PROVE  \E p \in Packets : tpc'[p] = "store" /\ rear'[p] = n
      BY <2>1 DEF Written
    <3>1. n # n0 /\ Slot(n) = None
      BY <1>c, <2>1, <2>5, <2>6
    <3>2. PICK p \in Packets : tpc[p] = "store" /\ rear[p] = n
      BY <1>a, <3>1 DEF Written
    <3> QED
      BY <1>c, <2>2, <2>3, <3>1, <3>2
  <2>9. Stores'
    <3>1. \A p \in Packets : tpc'[p] = "store" => p # t /\ tpc[p] = "store" /\ rear'[p] = rear[p]
      BY <1>c, <2>2
    <3>2. \A p \in Packets : tpc'[p] = "store" =>
            rear[p] # n0 /\ rear[p] \in d_queueFront .. d_queueRear - 1 /\ Slot(rear[p]) = None
      BY <1>a, <2>1, <2>3, <3>1 DEF Stores
    <3>3. \A p \in Packets : tpc'[p] = "store" => Slot(rear[p])' = None
      <4> SUFFICES ASSUME NEW p \in Packets, tpc'[p] = "store" PROVE Slot(rear[p])' = None
        OBVIOUS
      <4>1. PICK n \in d_queueFront .. d_queueRear - 1 : n = rear[p]
        BY <3>2
      <4>2. Slot(n)' = None
        BY <2>5, <2>6, <3>2, <4>1
      <4> QED
        BY <3>1, <4>1, <4>2 DEF Slot
    <3> QED
      BY <1>a, <2>1, <3>1, <3>2, <3>3 DEF Stores
  <2>10. Vacant'
    <3>1. \A n \in d_queueRear .. d_queueFront + m_queueSize - 1 : Slot(n) = None
      BY <1>a, <2>1 DEF Vacant
    <3>2. \A n \in d_queueRear .. d_queueFront + m_queueSize - 1 : Slot(n)' = None
      BY <1>n, <2>3, <2>5, <3>1
    <3> QED
      BY <2>1, <2>2, <3>2 DEF Vacant
  <2>11. Somewhere'
    <3> SUFFICES ASSUME NEW p \in asked
                 PROVE  \/ Settled(p) \/ \E s \in Threads : Holds(s)' /\ packet[s] = p
                        \/ \E n \in d_queueFront .. d_queueRear - 1 : Slot(n)' = p
      BY <2>1 DEF Somewhere, Settled
    <3>1. CASE p = packet[t]
      BY <2>3, <2>5, <2>6, <3>1
    <3>2. ASSUME NEW s \in Threads, Holds(s), packet[s] = p, p # packet[t] PROVE Holds(s)'
      BY <2>2, <3>2 DEF Holds
    <3>3. ASSUME NEW n \in d_queueFront .. d_queueRear - 1, Slot(n) = p, p \in Packets
          PROVE  n # n0 /\ Slot(n)' = p
      BY <1>a, <1>c, <2>1, <2>3, <2>5, <2>6, <3>3 DEF Stores
    <3>4. p \in Packets
      BY <1>t DEF TypeOK
    <3> QED
      BY <1>a, <2>1, <3>1, <3>2, <3>3, <3>4 DEF Somewhere
  <2> QED
    BY <2>7, <2>8, <2>9, <2>10, <2>11 DEF Apart
<1>8. ASSUME NEW t \in Threads, D_TransmitComplete(t) PROVE Apart'
  <2>1. /\ tpc[t] = "complete" /\ t = Completion
        /\ UNCHANGED <<ringVars, packet, transmitted, lost, asked>>
    BY <1>8, <1>t DEF D_TransmitComplete, Copies
  <2>2. /\ \A p \in Packets : tpc'[p] = tpc[p] /\ rear'[p] = rear[p] /\ tpc[p] = "idle"
        /\ tpc'[Completion] \in {"dequeue", "idle"}
        /\ rear'[Completion] = Unread
        /\ \A s \in Threads : Holds(s) => Holds(s)'
    BY <1>8, <1>a, <1>c, <1>t, <2>1, GoTypes DEF D_TransmitComplete, OneKind, Holds
  <2>3. Written' /\ Stores' /\ Vacant'
    BY <1>a, <1>c, <2>1, <2>2, RingUntouched DEF Written, Stores, Vacant
  <2>4. Somewhere'
    BY <1>a, <1>c, <2>1, <2>2, SomewhereStays DEF Settled
  <2>5. CASE m_txMachineState = "BUSY"
    <3>1. m_txMachineState' = "READY" /\ tpc'[Completion] = "dequeue"
      BY <1>8, <1>t, <2>1, <2>5, GoTypes DEF D_TransmitComplete
    <3>2. OneKind' /\ SendSteps' /\ CompletionSteps' /\ Fetched'
      BY <1>a, <1>c, <2>2, <3>1 DEF OneKind, SendSteps, CompletionSteps, Fetched
    <3> QED
      BY <2>3, <2>4, <3>2 DEF Apart
  <2>6. CASE m_txMachineState # "BUSY"
    <3>1. m_txMachineState' = m_txMachineState /\ tpc'[Completion] = "idle"
      BY <1>8, <1>t, <2>1, <2>6, GoTypes DEF D_TransmitComplete
    <3>2. OneKind' /\ SendSteps' /\ CompletionSteps' /\ Fetched'
      BY <1>a, <1>c, <2>1, <2>2, <3>1 DEF OneKind, SendSteps, CompletionSteps, Fetched
    <3> QED
      BY <2>3, <2>4, <3>2 DEF Apart
  <2> QED
    BY <2>5, <2>6
<1>9. ASSUME NEW t \in Threads, DequeueClaim(t) PROVE Apart'
  <2>1. /\ tpc[t] = "dequeue" /\ t = Completion /\ m_txMachineState = "READY"
        /\ front[t] = d_queueFront /\ rear[t] = d_queueRear
        /\ UNCHANGED <<m_txMachineState, d_queueRear, d_packetQueue, packet, transmitted,
                       lost, asked>>
    BY <1>9, <1>t, <1>a, <1>c DEF DequeueClaim, Read, Copies, CompletionSteps
  <2>2. \A p \in Packets : tpc[p] = "idle"
    BY <1>a, <2>1 DEF OneKind
  <2>3. CASE Empty(t)
    <3>1. Go(t, "idle") /\ UNCHANGED d_queueFront
      BY <1>9, <2>3 DEF DequeueClaim
    <3>2. /\ \A s \in Threads : s # t => tpc'[s] = tpc[s] /\ rear'[s] = rear[s] /\ front'[s] = front[s]
          /\ tpc'[t] = "idle"
      BY <1>t, <3>1, GoTypes
    <3>3. d_queueFront = d_queueRear
      BY <1>n, <2>1, <2>3 DEF Empty
    <3>4. OneKind' /\ SendSteps' /\ CompletionSteps' /\ Fetched'
      BY <1>a, <1>c, <2>1, <3>1, <3>2, <3>3 DEF OneKind, SendSteps, CompletionSteps, Fetched
    <3>5. Written' /\ Stores' /\ Vacant'
      BY <1>a, <1>c, <2>1, <3>1, <3>2, RingUntouched DEF Written, Stores, Vacant
    <3>6. Somewhere'
      BY <1>a, <1>c, <2>1, <3>1, <3>2, SomewhereStays DEF Settled, Holds
    <3> QED
      BY <3>4, <3>5, <3>6 DEF Apart
  <2>4. CASE ~Empty(t)
    <3>1. /\ d_queueFront' = d_queueFront + 1 /\ tpc' = [tpc EXCEPT ![t] = "take"]
          /\ UNCHANGED <<rear, front>>
      BY <1>9, <2>1, <2>4 DEF DequeueClaim
    <3>2. d_queueFront < d_queueRear
      BY <1>n, <2>1, <2>4 DEF Empty
    <3>3. tpc'[Completion] = "take" /\ \A p \in Packets : tpc'[p] = "idle"
      BY <1>t, <1>c, <2>1, <2>2, <3>1 DEF TypeOK
    <3>4. \A n : Slot(n)' = Slot(n)
      BY <2>1 DEF Slot
    <3>5. \A n \in d_queueFront .. d_queueRear - 1 : Slot(n) # None
      BY <1>a, <2>2 DEF Written
    <3>6. OneKind' /\ SendSteps' /\ CompletionSteps' /\ Fetched'
      BY <1>n, <2>1, <3>1, <3>3 DEF OneKind, SendSteps, CompletionSteps, Fetched
    <3>7. Written' /\ Stores'
      BY <1>n, <2>1, <3>1, <3>3, <3>4, <3>5 DEF Written, Stores
    <3>8. Vacant'
      <4>1. \A n \in d_queueRear .. d_queueFront + m_queueSize - 1 : Slot(n) = None
        BY <1>a, <2>1 DEF Vacant
      <4>2. \A n \in d_queueRear .. d_queueFront + m_queueSize :
              Slot(n) = None \/ n = d_queueFront + m_queueSize
        BY <1>n, <4>1
      <4>3. Slot(front[Completion])' = Slot(d_queueFront)
        BY <2>1, <3>1 DEF Slot
      <4>4. Slot(d_queueFront) # None
        BY <1>n, <3>2, <3>5
      <4> QED
        BY <1>n, <2>1, <3>1, <3>3, <3>4, <4>2, <4>3, <4>4 DEF Vacant
    <3>9. Somewhere'
      <4> SUFFICES ASSUME NEW p \in asked
                   PROVE  \/ Settled(p) \/ \E s \in Threads : Holds(s)' /\ packet[s] = p
                          \/ \E n \in d_queueFront + 1 .. d_queueRear - 1 : Slot(n) = p
                          \/ Slot(d_queueFront) = p
        BY <2>1, <3>1, <3>3, <3>4 DEF Somewhere, Settled, Slot
      <4>1. \A s \in Threads : Holds(s) => Holds(s)'
        BY <1>c, <2>1, <2>2 DEF Holds
      <4>2. \A n \in d_queueFront .. d_queueRear - 1 :
              n = d_queueFront \/ n \in d_queueFront + 1 .. d_queueRear - 1
        BY <1>n
      <4> QED
        BY <1>a, <2>1, <4>1, <4>2 DEF Somewhere
    <3> QED
      BY <3>6, <3>7, <3>8, <3>9 DEF Apart
  <2> QED
    BY <2>3, <2>4
<1>10. ASSUME NEW t \in Threads, DequeueTake(t) PROVE Apart'
  <2>1. /\ tpc[t] = "take" /\ t = Completion /\ m_txMachineState = "READY"
        /\ UNCHANGED <<m_txMachineState, ringVars, transmitted, lost, asked>>
    BY <1>10, <1>t, <1>a, <1>c DEF DequeueTake, Copies, CompletionSteps
  <2>2. \A p \in Packets : tpc[p] = "idle"
    BY <1>a, <2>1 DEF OneKind
  <2>3. /\ packet' = [packet EXCEPT ![t] = Slot(front[t])]
        /\ tpc' = [tpc EXCEPT ![t] = "clear"] /\ UNCHANGED <<rear, front>>
    BY <1>10, <1>a, <2>1 DEF DequeueTake, Vacant, Slot
  <2>4. /\ tpc'[Completion] = "clear" /\ \A p \in Packets : tpc'[p] = "idle"
        /\ packet'[Completion] = Slot(front[Completion])
    BY <1>t, <1>c, <2>1, <2>2, <2>3 DEF TypeOK
  <2>5. \A n : Slot(n)' = Slot(n)
    BY <2>1 DEF Slot
  <2>6. OneKind' /\ SendSteps' /\ CompletionSteps' /\ Fetched'
    BY <1>a, <2>1, <2>3, <2>4 DEF OneKind, SendSteps, CompletionSteps, Fetched
  <2>7. Written' /\ Stores' /\ Vacant'
    BY <1>a, <2>1, <2>2, <2>3, <2>4, <2>5 DEF Written, Stores, Vacant
  <2>8. Somewhere'
    <3>1. \A s \in Threads : ~Holds(s)
      BY <1>c, <2>1, <2>2 DEF Holds
    <3>2. Completion \in Threads /\ Holds(Completion)'
      BY <1>c, <2>4 DEF Holds
    <3>3. \A p \in asked : \/ Settled(p) \/ packet'[Completion] = p
                           \/ \E n \in d_queueFront .. d_queueRear - 1 : Slot(n) = p
      BY <1>a, <2>4, <3>1 DEF Somewhere
    <3> QED
      BY <2>1, <2>5, <3>2, <3>3 DEF Somewhere, Settled
  <2> QED
    BY <2>6, <2>7, <2>8 DEF Apart
<1>11. ASSUME NEW t \in Threads, DequeueClear(t) PROVE Apart'
  <2>1. /\ tpc[t] = "clear" /\ t = Completion /\ m_txMachineState = "READY"
        /\ front[t] \in Nat
        /\ UNCHANGED <<m_txMachineState, d_queueFront, d_queueRear, packet, transmitted,
                       lost, asked>>
    BY <1>11, <1>t, <1>a, <1>c DEF DequeueClear, Copies, CompletionSteps, TypeOK
  <2>2. \A p \in Packets : tpc[p] = "idle"
    BY <1>a, <2>1 DEF OneKind
  <2>3. /\ tpc'[Completion] = "start" /\ \A p \in Packets : tpc'[p] = "idle"
    BY <1>11, <1>t, <1>c, <2>1, <2>2, GoTypes DEF DequeueClear
  <2>4. PICK n0 \in Nat : n0 = front[t]
    BY <2>1
  <2>5. /\ d_queueFront = n0 + 1 /\ d_queueRear <= n0 + m_queueSize
        /\ d_packetQueue' = [d_packetQueue EXCEPT ![n0 % m_queueSize] = None]
    BY <1>11, <1>a, <2>1, <2>4 DEF CompletionSteps, DequeueClear
  <2>6. \A m \in Nat : Slot(m)' = IF m % m_queueSize = n0 % m_queueSize THEN None ELSE Slot(m)
    BY <1>t, <2>4, <2>5, OneSlotWritten
  <2>7. \A m \in d_queueFront .. d_queueRear - 1 : m \in Nat /\ Slot(m)' = Slot(m)
    <3> SUFFICES ASSUME NEW m \in d_queueFront .. d_queueRear - 1
                 PROVE  m \in Nat /\ Slot(m)' = Slot(m)
      OBVIOUS
    <3>1. m \in Nat /\ m # n0 /\ m < n0 + m_queueSize /\ n0 < m + m_queueSize
      BY <1>n, <2>4, <2>5
    <3> QED
      BY <2>4, <2>6, <3>1, InWindow
  <2>8. \A n \in d_queueFront .. d_queueRear - 1 : Slot(n) # None
    BY <1>a, <2>2 DEF Written
  <2>9. OneKind' /\ SendSteps' /\ CompletionSteps' /\ Fetched'
    BY <2>1, <2>3 DEF OneKind, SendSteps, CompletionSteps, Fetched
  <2>10. Written' /\ Stores'
    BY <2>1, <2>3, <2>7, <2>8 DEF Written, Stores
  <2>11. Vacant'
    <3> SUFFICES ASSUME NEW n \in d_queueRear .. d_queueFront + m_queueSize - 1
                 PROVE  Slot(n)' = None
      BY <2>1, <2>3 DEF Vacant
    <3>1. n \in Nat
      BY <1>n
    <3>2. CASE Slot(n) = None
      BY <2>6, <3>1, <3>2
    <3>3. CASE Slot(n) # None
      <4>1. n = n0 + m_queueSize
        BY <1>a, <2>1, <2>4, <3>3 DEF Vacant
      <4> QED
        BY <2>4, <2>6, <3>1, <4>1, PositionRepeats
    <3> QED
      BY <3>2, <3>3
  <2>12. Somewhere'
    <3>1. \A s \in Threads : Holds(s) => Holds(s)'
      BY <1>c, <2>2, <2>3 DEF Holds
    <3>2. \A p \in asked : \/ Settled(p) \/ \E s \in Threads : Holds(s) /\ packet[s] = p
                           \/ \E n \in d_queueFront .. d_queueRear - 1 : Slot(n) = p
      BY <1>a, <2>1 DEF Somewhere
    <3> QED
      BY <2>1, <2>7, <3>1, <3>2 DEF Somewhere, Settled
  <2> QED
    BY <2>9, <2>10, <2>11, <2>12 DEF Apart
<1>12. ASSUME Finished \/ UNCHANGED vars PROVE Apart'
  BY <1>12, <1>m DEF Finished, vars, Apart, OneKind, SendSteps, CompletionSteps, Fetched,
     Written, Stores, Vacant, Somewhere, Settled, Holds, Slot
<1> QED
  BY <1>1, <1>2, <1>3, <1>4, <1>5, <1>6, <1>7, <1>8, <1>9, <1>10, <1>11, <1>12
     DEF Next, Step

\* In any run in which no kernel holds a send and a completion together,
\* between kernels every packet sent is transmitted, dropped at a full ring or
\* in a slot that will be fetched, and the ring is empty while the device is
\* free.
THEOREM ApartAllTransmittedHolds == Spec => []ApartAllTransmitted
<1>1. Init => TypeInv /\ ApartInv
  <2> SUFFICES ASSUME Init PROVE TypeInv /\ Apart
    BY DEF ApartInv
  <2>1. /\ \A t \in Threads : tpc[t] = "idle"
        /\ d_queueFront = 0 /\ d_queueRear = 0 /\ asked = {}
        /\ d_packetQueue = [i \in Positions |-> None]
    BY DEF Init
  <2>2. \A n \in Nat : Slot(n) = None
    BY <2>1, Position DEF Slot
  <2>3. Completion \in Threads /\ Packets \subseteq Threads
    BY DEF Threads
  <2>4. OneKind /\ SendSteps /\ CompletionSteps /\ Fetched /\ Somewhere
    BY <2>1, <2>3 DEF OneKind, SendSteps, CompletionSteps, Fetched, Somewhere
  <2>5. Written /\ Stores /\ Vacant
    BY <2>1, <2>2, <2>3, Constants DEF Written, Stores, Vacant
  <2> QED
    BY <2>4, <2>5, InitTypeInv DEF Apart
<1>2. TypeInv /\ ApartInv /\ [Next]_vars => TypeInv' /\ ApartInv'
  BY TypeInvStep, ApartStep
<1>3. TypeInv /\ ApartInv => ApartAllTransmitted
  BY ApartIsEnough
<1> QED
  BY <1>1, <1>2, <1>3, PTL DEF Spec
==============================================================================
