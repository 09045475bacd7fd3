------------------------------- MODULE Bridge --------------------------------
(***************************************************************************)
(* The learning bridge on the device: ForwardUnicast, Learn and            *)
(* GetLearnedState, run by the threads of a kernel, each for a frame that  *)
(* came in on a port.  The table is an array with a count, shared without  *)
(* a lock: a new address is written behind the last entry, the count goes  *)
(* up, the port is written.                                                *)
(*                                                                         *)
(* Abstractions.  A frame is its two addresses.  A station may be behind   *)
(* any port and may move between kernels.  A loop over the table that      *)
(* finds an entry is one step; each access that changes the table is one.  *)
(* Learning is enabled, as it is by default.                               *)
(***************************************************************************)
EXTENDS Integers, FiniteSets

CONSTANTS
  Ports,              \* m_ports
  Stations,           \* MAC addresses
  Nobody,             \* an entry, or a port, never written (zero)
  BridgeThreads,      \* threads of a kernel
  MaxEntries,         \* MAX_MAC_ENTRIES
  MaxBridgeKernels    \* bound: kernels launched

BridgeAssumption ==
  /\ IsFiniteSet(Ports) /\ Ports # {} /\ IsFiniteSet(Stations) /\ IsFiniteSet(BridgeThreads)
  /\ Nobody \notin Ports \cup Stations
  /\ MaxEntries \in Nat \ {0} /\ MaxBridgeKernels \in Nat

ASSUME BridgeAssumption

\* Entries that threads can write to, those past the array included.
Entries == 0 .. MaxEntries + Cardinality(BridgeThreads) - 1

VARIABLES
  mac, assoc,         \* m_learningTable: address and associatedPort of an entry
  tableSize,
  bpc,                \* of a thread: where it is
  frame,              \* the frame it forwards, [port, src, dst]
  slotCopy,           \* the table size it has read
  seenOn,             \* history: seenOn[s], ports on which s was the source
  lastOn,             \* history: the port of the last one
  sent,               \* history: what ForwardUnicast of a kernel gave to ports
  raced,              \* history: a kernel held two frames
  bridgeKernels

tableVars == <<mac, assoc, tableSize>>
bridgeHist == <<seenOn, lastOn, sent, raced, bridgeKernels>>
bridgeVars == <<tableVars, bpc, frame, slotCopy, bridgeHist>>

Frames == [port : Ports, src : Stations, dst : Stations]
NoFrame == [port |-> Nobody, src |-> Nobody, dst |-> Nobody]

BridgeInit ==
  /\ mac = [i \in Entries |-> Nobody] /\ assoc = [i \in Entries |-> Nobody]
  /\ tableSize = 0
  /\ bpc = [t \in BridgeThreads |-> "idle"] /\ frame = [t \in BridgeThreads |-> NoFrame]
  /\ slotCopy = [t \in BridgeThreads |-> 0]
  /\ seenOn = [s \in Stations |-> {}] /\ lastOn = [s \in Stations |-> Nobody]
  /\ sent = {} /\ raced = FALSE /\ bridgeKernels = 0

BridgeIdle == \A t \in BridgeThreads : bpc[t] = "idle"
To(t, where) == bpc' = [bpc EXCEPT ![t] = where]

(* A kernel starts, with a frame for some of its threads.                  *)
BridgeLaunch ==
  /\ BridgeIdle /\ bridgeKernels < MaxBridgeKernels
  /\ \E T \in (SUBSET BridgeThreads) \ {{}} : \E f \in [T -> Frames] :
       /\ \A t \in T : f[t].src # f[t].dst
       /\ frame' = [t \in BridgeThreads |-> IF t \in T THEN f[t] ELSE NoFrame]
       /\ bpc' = [t \in BridgeThreads |-> IF t \in T THEN "learn" ELSE "idle"]
       /\ seenOn' = [s \in Stations |-> seenOn[s] \cup {f[t].port : t \in {u \in T : f[u].src = s}}]
       /\ lastOn' = [s \in Stations |->
            IF \E t \in T : f[t].src = s
            THEN f[CHOOSE t \in T : f[t].src = s].port ELSE lastOn[s]]
       /\ raced' = (raced \/ Cardinality(T) > 1)
  /\ sent' = {} /\ bridgeKernels' = bridgeKernels + 1
  /\ slotCopy' = [t \in BridgeThreads |-> 0]
  /\ UNCHANGED tableVars

\* Index of the first entry for address s, if there is one.
Known(s) == \E i \in 0 .. tableSize - 1 : mac[i] = s
EntryOf(s) == CHOOSE i \in 0 .. tableSize - 1 :
  mac[i] = s /\ \A j \in 0 .. i - 1 : mac[j] # s

TableFull_OneMore == tableSize > MaxEntries
TableFull == tableSize >= MaxEntries

(* Learn: nothing when the table is full; the port of a known address is   *)
(* changed; otherwise the size is read and the address written there.      *)
LearnFull(t) ==
  /\ bpc[t] = "learn" /\ TableFull /\ To(t, "forward")
  /\ UNCHANGED <<tableVars, frame, slotCopy, bridgeHist>>

LearnKnown_Forgets(t) ==
  /\ bpc[t] = "learn" /\ ~TableFull /\ Known(frame[t].src) /\ To(t, "forward")
  /\ UNCHANGED <<tableVars, frame, slotCopy, bridgeHist>>
LearnKnown(t) ==
  /\ bpc[t] = "learn" /\ ~TableFull /\ Known(frame[t].src) /\ To(t, "forward")
  /\ assoc' = [assoc EXCEPT ![EntryOf(frame[t].src)] = frame[t].port]
  /\ UNCHANGED <<mac, tableSize, frame, slotCopy, bridgeHist>>

LearnNew(t) ==
  /\ bpc[t] = "learn" /\ ~TableFull /\ ~Known(frame[t].src) /\ To(t, "mac")
  /\ slotCopy' = [slotCopy EXCEPT ![t] = tableSize]
  /\ UNCHANGED <<tableVars, frame, bridgeHist>>

LearnMac(t) ==
  /\ bpc[t] = "mac" /\ To(t, "size")
  /\ mac' = [mac EXCEPT ![slotCopy[t]] = frame[t].src]
  /\ UNCHANGED <<assoc, tableSize, frame, slotCopy, bridgeHist>>

\* tableSize++ reads the size again.
LearnSize(t) ==
  /\ bpc[t] = "size" /\ To(t, "port")
  /\ slotCopy' = [slotCopy EXCEPT ![t] = tableSize] /\ tableSize' = tableSize + 1
  /\ UNCHANGED <<mac, assoc, frame, bridgeHist>>

LearnPort(t) ==
  /\ bpc[t] = "port" /\ To(t, "forward")
  /\ assoc' = [assoc EXCEPT ![slotCopy[t]] = frame[t].port]
  /\ UNCHANGED <<mac, tableSize, frame, slotCopy, bridgeHist>>

GetLearnedState(s) == IF Known(s) THEN assoc[EntryOf(s)] ELSE Nobody

\* The ports a frame goes out of: the one learned, even if it is the one it
\* came from, or else all the others.
OutPorts_AllPorts(f) ==
  IF GetLearnedState(f.dst) # Nobody THEN {GetLearnedState(f.dst)} ELSE Ports
OutPorts(f) ==
  IF GetLearnedState(f.dst) # Nobody THEN {GetLearnedState(f.dst)} ELSE Ports \ {f.port}

ForwardUnicast(t) ==
  /\ bpc[t] = "forward" /\ To(t, "idle")
  /\ sent' = sent \cup {[frame |-> frame[t], ports |-> OutPorts(frame[t])]}
  /\ UNCHANGED <<tableVars, frame, slotCopy, seenOn, lastOn, raced, bridgeKernels>>

BridgeStep(t) ==
  \/ LearnFull(t) \/ LearnKnown(t) \/ LearnNew(t) \/ LearnMac(t) \/ LearnSize(t)
  \/ LearnPort(t) \/ ForwardUnicast(t)

BridgeNext == BridgeLaunch \/ \E t \in BridgeThreads : BridgeStep(t)
BridgeSpec == BridgeInit /\ [][BridgeNext]_bridgeVars

----------------------------------------------------------------------------
(* Properties.                                                             *)

\* Types; threads that append at the same time go past the end of the array
\* by one entry each at most, one of them being the one that fills it.
BridgeTypeOK ==
  /\ mac \in [Entries -> Stations \cup {Nobody}] /\ assoc \in [Entries -> Ports \cup {Nobody}]
  /\ tableSize \in 0 .. MaxEntries + Cardinality(BridgeThreads) - 1
  /\ bpc \in [BridgeThreads -> {"idle", "learn", "mac", "size", "port", "forward"}]
  /\ frame \in [BridgeThreads -> Frames \cup {NoFrame}] /\ slotCopy \in [BridgeThreads -> Entries]
  /\ seenOn \in [Stations -> SUBSET Ports] /\ lastOn \in [Stations -> Ports \cup {Nobody}]
  /\ raced \in BOOLEAN /\ bridgeKernels \in 0 .. MaxBridgeKernels

\* An address leads to a port on which it was the source of a frame: no
\* thread mixes its address with the port of another.
LearnedWhereSeen == \A i \in 0 .. tableSize - 1 :
  mac[i] # Nobody /\ assoc[i] # Nobody => assoc[i] \in seenOn[mac[i]]

\* While each kernel holds one frame of the bridge, an address has one entry
\* of the array, and it is the port where the station was last, unless the
\* table is full ("Maximum number of entries reached").
TableFollowsStations == BridgeIdle /\ ~raced =>
  /\ tableSize <= MaxEntries
  /\ \A i, j \in 0 .. tableSize - 1 : mac[i] = mac[j] => i = j
  /\ LearnedWhereSeen
  /\ tableSize < MaxEntries => \A s \in Stations : GetLearnedState(s) = lastOn[s]

\* While each kernel holds one frame, it goes out of the port of its receiver
\* and no other once the receiver was heard, and is never lost: it reaches
\* every port but its own before that.
ForwardedToReceiver == ~raced => \A x \in sent :
  /\ x.ports \subseteq Ports
  /\ IF \E i \in 0 .. tableSize - 1 : mac[i] = x.frame.dst
     THEN \E p \in seenOn[x.frame.dst] : x.ports = {p}
     ELSE x.ports = Ports \ {x.frame.port}

\* Learn and ForwardUnicast, raced by the threads of a kernel.
LearnedAndForwarded == TableFollowsStations /\ ForwardedToReceiver
==============================================================================
