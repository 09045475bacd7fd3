--------------------------- MODULE GpuDevice_proofs ---------------------------
(***************************************************************************)
(* Theorems about parts of the device, for any number of threads, packets  *)
(* and devices.  The learning bridge: what the table says and where a      *)
(* frame goes, while a kernel has one frame at a time.  The packet pools:  *)
(* the delivery queue stays in its range whatever threads add and take,    *)
(* and while one thread receives, every packet has one user.  The          *)
(* lookaheads of a network: which of them are not kept.  The routes and    *)
(* the ARP cache: what a lookup answers after any additions and removals.  *)
(***************************************************************************)
EXTENDS Bridge, PacketPool, Lookahead, DeviceTables, Totals_proofs, FiniteSetTheorems,
  SequenceTheorems, TLAPS

----------------------------------------------------------------------------
(* The bridge: types.                                                      *)

\* Threads that will make the table one longer, having found it not full.
Appending == {t \in BridgeThreads : bpc[t] \in {"mac", "size"}}
BridgeBounds == tableSize + Cardinality(Appending) <= MaxEntries + Cardinality(BridgeThreads) - 1

LEMMA BridgeConstants ==
  /\ MaxEntries \in Nat /\ MaxEntries > 0 /\ MaxBridgeKernels \in Nat
  /\ IsFiniteSet(BridgeThreads) /\ Cardinality(BridgeThreads) \in Nat
  /\ Nobody \notin Ports /\ Nobody \notin Stations
BY BridgeAssumption, FS_CardinalityType DEF BridgeAssumption

LEMMA AppendingFinite == IsFiniteSet(Appending) /\ Cardinality(Appending) \in Nat
<1>1. Appending \subseteq BridgeThreads
  BY DEF Appending
<1> QED
  BY <1>1, BridgeConstants, FS_Subset, FS_CardinalityType

LEMMA BridgeInitTyped == BridgeInit => BridgeTypeOK /\ BridgeBounds
<1> SUFFICES ASSUME BridgeInit PROVE BridgeTypeOK /\ BridgeBounds
  OBVIOUS
<1>1. Appending = {} /\ Cardinality({}) = 0
  BY FS_EmptySet DEF BridgeInit, Appending
<1>2. 0 \in Entries /\ 0 \in 0 .. MaxEntries + Cardinality(BridgeThreads) - 1
  BY BridgeConstants DEF Entries
<1>3. BridgeBounds
  BY <1>1, BridgeConstants DEF BridgeBounds, BridgeInit
<1>4. /\ mac \in [Entries -> Stations \cup {Nobody}] /\ assoc \in [Entries -> Ports \cup {Nobody}]
      /\ bpc \in [BridgeThreads -> {"idle", "learn", "mac", "size", "port", "forward"}]
      /\ frame \in [BridgeThreads -> Frames \cup {NoFrame}]
      /\ slotCopy \in [BridgeThreads -> Entries]
  BY <1>2 DEF BridgeInit
<1>5. /\ seenOn \in [Stations -> SUBSET Ports] /\ lastOn \in [Stations -> Ports \cup {Nobody}]
      /\ raced \in BOOLEAN
  BY DEF BridgeInit
<1>6. bridgeKernels \in 0 .. MaxBridgeKernels
  BY BridgeConstants DEF BridgeInit
<1>7. tableSize \in 0 .. MaxEntries + Cardinality(BridgeThreads) - 1
  BY <1>2 DEF BridgeInit
<1> QED
  BY <1>3, <1>4, <1>5, <1>6, <1>7 DEF BridgeTypeOK

\* Threads other than those that append do not disturb the bound.
LEMMA SameAppending ==
  ASSUME BridgeTypeOK, BridgeBounds, Appending' = Appending, tableSize' = tableSize
  PROVE  BridgeBounds'
<1>1. Cardinality(Appending)' = Cardinality(Appending')
  OBVIOUS
<1> QED
  BY DEF BridgeBounds

LEMMA LaunchTyped == ASSUME BridgeTypeOK, BridgeBounds, BridgeLaunch PROVE BridgeTypeOK' /\ BridgeBounds'
<1>0. PICK T \in (SUBSET BridgeThreads) \ {{}} : \E f \in [T -> Frames] :
       /\ frame' = [t \in BridgeThreads |-> IF t \in T THEN f[t] ELSE NoFrame]
       /\ bpc' = [t \in BridgeThreads |-> IF t \in T THEN "learn" ELSE "idle"]
       /\ seenOn' = [s \in Stations |-> seenOn[s] \cup {f[t].port : t \in {u \in T : f[u].src = s}}]
       /\ lastOn' = [s \in Stations |->
            IF \E t \in T : f[t].src = s
            THEN f[CHOOSE t \in T : f[t].src = s].port ELSE lastOn[s]]
       /\ raced' = (raced \/ Cardinality(T) > 1)
  BY DEF BridgeLaunch
<1>1. PICK f \in [T -> Frames] :
       /\ frame' = [t \in BridgeThreads |-> IF t \in T THEN f[t] ELSE NoFrame]
       /\ bpc' = [t \in BridgeThreads |-> IF t \in T THEN "learn" ELSE "idle"]
       /\ seenOn' = [s \in Stations |-> seenOn[s] \cup {f[t].port : t \in {u \in T : f[u].src = s}}]
       /\ lastOn' = [s \in Stations |->
            IF \E t \in T : f[t].src = s
            THEN f[CHOOSE t \in T : f[t].src = s].port ELSE lastOn[s]]
       /\ raced' = (raced \/ Cardinality(T) > 1)
  BY <1>0
<1>2. /\ sent' = {} /\ bridgeKernels' = bridgeKernels + 1 /\ bridgeKernels < MaxBridgeKernels
      /\ slotCopy' = [t \in BridgeThreads |-> 0] /\ UNCHANGED <<mac, assoc, tableSize>> /\ BridgeIdle
  BY DEF BridgeLaunch, tableVars
<1>3. \A t \in T : f[t] \in Frames /\ f[t].port \in Ports /\ f[t].src \in Stations
  BY DEF Frames
<1>4. /\ frame' \in [BridgeThreads -> Frames \cup {NoFrame}]
      /\ bpc' \in [BridgeThreads -> {"idle", "learn", "mac", "size", "port", "forward"}]
  BY <1>1, <1>3
<1>5. seenOn' \in [Stations -> SUBSET Ports]
  <2>1. \A s \in Stations : seenOn[s] \subseteq Ports
    BY DEF BridgeTypeOK
  <2>2. \A s \in Stations : seenOn[s] \cup {f[t].port : t \in {u \in T : f[u].src = s}} \subseteq Ports
    BY <1>3, <2>1
  <2> QED
    BY <1>1, <2>2
<1>6. lastOn' \in [Stations -> Ports \cup {Nobody}]
  <2>1. ASSUME NEW s \in Stations PROVE lastOn'[s] \in Ports \cup {Nobody}
    <3>1. CASE \E t \in T : f[t].src = s
      <4>1. (CHOOSE t \in T : f[t].src = s) \in T
        BY <3>1
      <4> QED
        BY <1>1, <1>3, <3>1, <4>1
    <3>2. CASE ~\E t \in T : f[t].src = s
      BY <1>1, <3>2 DEF BridgeTypeOK
    <3> QED
      BY <3>1, <3>2
  <2> QED
    BY <1>1, <2>1
<1>7. raced' \in BOOLEAN
  BY <1>1 DEF BridgeTypeOK
<1>8. slotCopy' \in [BridgeThreads -> Entries] /\ bridgeKernels' \in 0 .. MaxBridgeKernels
  BY <1>2, BridgeConstants DEF Entries, BridgeTypeOK
<1>9. BridgeTypeOK'
  BY <1>2, <1>4, <1>5, <1>6, <1>7, <1>8 DEF BridgeTypeOK
<1>10. Appending' = Appending
  BY <1>1, <1>2 DEF Appending, BridgeIdle
<1> QED
  BY <1>2, <1>9, <1>10, SameAppending

LEMMA BridgeStepTyped ==
  ASSUME BridgeTypeOK, BridgeBounds, NEW t \in BridgeThreads, BridgeStep(t)
  PROVE  BridgeTypeOK' /\ BridgeBounds'
<1>c. /\ MaxEntries \in Nat /\ MaxEntries > 0 /\ Cardinality(BridgeThreads) \in Nat
      /\ tableSize \in Nat /\ Cardinality(Appending) \in Nat /\ IsFiniteSet(Appending)
      /\ tableSize + Cardinality(Appending) <= MaxEntries + Cardinality(BridgeThreads) - 1
  BY BridgeConstants, AppendingFinite DEF BridgeTypeOK, BridgeBounds
<1>1. CASE LearnFull(t)
  <2>1. Appending' = Appending /\ tableSize' = tableSize
    BY <1>1 DEF LearnFull, To, Appending, tableVars, BridgeTypeOK
  <2>2. BridgeTypeOK'
    BY <1>1 DEF LearnFull, To, tableVars, bridgeHist, BridgeTypeOK
  <2> QED
    BY <2>1, <2>2, SameAppending
<1>2. CASE LearnKnown(t)
  <2>1. Appending' = Appending /\ tableSize' = tableSize
    BY <1>2 DEF LearnKnown, To, Appending, BridgeTypeOK
  <2>2. frame[t] \in Frames => frame[t].port \in Ports \cup {Nobody}
    BY DEF Frames
  <2>3. frame[t] = NoFrame => frame[t].port \in Ports \cup {Nobody}
    BY DEF NoFrame
  <2>4. frame[t].port \in Ports \cup {Nobody}
    BY <2>2, <2>3 DEF BridgeTypeOK
  <2>5. assoc' \in [Entries -> Ports \cup {Nobody}]
    BY <1>2, <2>4 DEF LearnKnown, BridgeTypeOK
  <2>6. BridgeTypeOK'
    BY <1>2, <2>5 DEF LearnKnown, To, bridgeHist, BridgeTypeOK
  <2> QED
    BY <2>1, <2>6, SameAppending
<1>3. CASE LearnNew(t)
  <2>1. /\ Appending' = Appending \cup {t} /\ t \notin Appending /\ tableSize' = tableSize
        /\ tableSize < MaxEntries
    BY <1>3, <1>c DEF LearnNew, To, Appending, tableVars, BridgeTypeOK, TableFull
  <2>2. Cardinality(Appending') = Cardinality(Appending) + 1
    BY <1>c, <2>1, FS_AddElement
  <2>3. Cardinality(Appending') <= Cardinality(BridgeThreads)
    <3>1. Appending' \subseteq BridgeThreads
      BY DEF Appending
    <3> QED
      BY <3>1, BridgeConstants, FS_Subset
  <2>4. BridgeBounds'
    <3>1. tableSize' + Cardinality(Appending') <= MaxEntries + Cardinality(BridgeThreads) - 1
      BY <1>c, <2>1, <2>2, <2>3
    <3> QED
      BY <3>1 DEF BridgeBounds
  <2>5. tableSize \in Entries
    BY <1>c DEF Entries
  <2>6. BridgeTypeOK'
    BY <1>3, <2>5 DEF LearnNew, To, tableVars, bridgeHist, BridgeTypeOK
  <2> QED
    BY <2>4, <2>6
<1>4. CASE LearnMac(t)
  <2>1. Appending' = Appending /\ tableSize' = tableSize
    BY <1>4 DEF LearnMac, To, Appending, BridgeTypeOK
  <2>2. frame[t] \in Frames => frame[t].src \in Stations \cup {Nobody}
    BY DEF Frames
  <2>3. frame[t] = NoFrame => frame[t].src \in Stations \cup {Nobody}
    BY DEF NoFrame
  <2>4. frame[t].src \in Stations \cup {Nobody}
    BY <2>2, <2>3 DEF BridgeTypeOK
  <2>5. mac' \in [Entries -> Stations \cup {Nobody}]
    BY <1>4, <2>4 DEF LearnMac, BridgeTypeOK
  <2>6. BridgeTypeOK'
    BY <1>4, <2>5 DEF LearnMac, To, bridgeHist, BridgeTypeOK
  <2> QED
    BY <2>1, <2>6, SameAppending
<1>5. CASE LearnSize(t)
  <2>1. Appending' = Appending \ {t} /\ t \in Appending /\ tableSize' = tableSize + 1
    BY <1>5 DEF LearnSize, To, Appending, BridgeTypeOK
  <2>2. Cardinality(Appending') = Cardinality(Appending) - 1 /\ Cardinality(Appending) >= 1
    <3>1. Cardinality(Appending \ {t}) = Cardinality(Appending) - 1
      BY <1>c, <2>1, FS_RemoveElement
    <3>2. Cardinality(Appending \ {t}) \in Nat
      BY <1>c, FS_RemoveElement, FS_CardinalityType
    <3> QED
      BY <1>c, <2>1, <3>1, <3>2
  <2>3. /\ tableSize' + Cardinality(Appending') <= MaxEntries + Cardinality(BridgeThreads) - 1
        /\ tableSize \in 0 .. MaxEntries + Cardinality(BridgeThreads) - 1
        /\ tableSize' \in 0 .. MaxEntries + Cardinality(BridgeThreads) - 1
    BY <1>c, <2>1, <2>2
  <2>4. BridgeBounds'
    BY <2>3 DEF BridgeBounds
  <2>5. BridgeTypeOK'
    BY <1>5, <2>3 DEF LearnSize, To, bridgeHist, BridgeTypeOK, Entries
  <2> QED
    BY <2>4, <2>5
<1>6. CASE LearnPort(t)
  <2>1. Appending' = Appending /\ tableSize' = tableSize
    BY <1>6 DEF LearnPort, To, Appending, BridgeTypeOK
  <2>2. frame[t] \in Frames => frame[t].port \in Ports \cup {Nobody}
    BY DEF Frames
  <2>3. frame[t] = NoFrame => frame[t].port \in Ports \cup {Nobody}
    BY DEF NoFrame
  <2>4. frame[t].port \in Ports \cup {Nobody}
    BY <2>2, <2>3 DEF BridgeTypeOK
  <2>5. assoc' \in [Entries -> Ports \cup {Nobody}]
    BY <1>6, <2>4 DEF LearnPort, BridgeTypeOK
  <2>6. BridgeTypeOK'
    BY <1>6, <2>5 DEF LearnPort, To, bridgeHist, BridgeTypeOK
  <2> QED
    BY <2>1, <2>6, SameAppending
<1>7. CASE ForwardUnicast(t)
  <2>1. Appending' = Appending /\ tableSize' = tableSize
    BY <1>7 DEF ForwardUnicast, To, Appending, tableVars, BridgeTypeOK
  <2>2. BridgeTypeOK'
    BY <1>7 DEF ForwardUnicast, To, tableVars, BridgeTypeOK
  <2> QED
    BY <2>1, <2>2, SameAppending DEF BridgeTypeOK
<1> QED
  BY <1>1, <1>2, <1>3, <1>4, <1>5, <1>6, <1>7 DEF BridgeStep

----------------------------------------------------------------------------
(* The bridge: what it has learned, while each kernel has one frame.       *)

\* One thread is at work, with a frame whose sender was last heard there.
Alone == \A t, u \in BridgeThreads : bpc[t] # "idle" /\ bpc[u] # "idle" => t = u
FrameHeard == \A t \in BridgeThreads : bpc[t] # "idle" =>
  /\ frame[t] \in Frames /\ frame[t].src # frame[t].dst
  /\ frame[t].port \in seenOn[frame[t].src] /\ lastOn[frame[t].src] = frame[t].port

\* A thread that appends holds the index of the entry it writes, which stays
\* behind the last one until the size is written.
Appender == \A t \in BridgeThreads :
  /\ bpc[t] \in {"mac", "size"} =>
       slotCopy[t] = tableSize /\ tableSize < MaxEntries /\ ~Known(frame[t].src)
  /\ bpc[t] = "size" => mac[tableSize] = frame[t].src
  /\ bpc[t] = "port" =>
       tableSize > 0 /\ slotCopy[t] = tableSize - 1 /\ mac[tableSize - 1] = frame[t].src

\* The table has one entry for each address in it.
Rows ==
  /\ tableSize <= MaxEntries
  /\ \A i \in 0 .. tableSize - 1 : mac[i] \in Stations
  /\ \A i, j \in 0 .. tableSize - 1 : mac[i] = mac[j] => i = j

\* Stations whose frame a thread has still to learn from.
Learning(s) == \E t \in BridgeThreads :
  bpc[t] \in {"learn", "mac", "size", "port"} /\ frame[t].src = s

PortsHeard == \A i \in 0 .. tableSize - 1 :
  \/ assoc[i] \in seenOn[mac[i]]
  \/ \E t \in BridgeThreads : bpc[t] = "port" /\ slotCopy[t] = i
Follows == tableSize < MaxEntries =>
  /\ \A i \in 0 .. tableSize - 1 : ~Learning(mac[i]) => assoc[i] = lastOn[mac[i]]
  /\ \A s \in Stations : ~Learning(s) => Known(s) \/ lastOn[s] = Nobody

\* What a frame went out of is set when the kernel ends, and judged by the
\* table of that moment, which nothing changes before the next kernel.
WentRight(x) ==
  /\ x.ports \subseteq Ports
  /\ IF \E i \in 0 .. tableSize - 1 : mac[i] = x.frame.dst
     THEN \E p \in seenOn[x.frame.dst] : x.ports = {p}
     ELSE x.ports = Ports \ {x.frame.port}
SentRight == \A x \in sent : BridgeIdle /\ WentRight(x)

Learned == Alone /\ FrameHeard /\ Appender /\ Rows /\ PortsHeard /\ Follows /\ SentRight
BridgeInv == BridgeTypeOK /\ BridgeBounds /\ (~raced => Learned)

LEMMA BridgeInitLearned == BridgeInit => Learned
<1> SUFFICES ASSUME BridgeInit PROVE Learned
  OBVIOUS
<1>1. Alone /\ FrameHeard /\ Appender
  BY DEF BridgeInit, Alone, FrameHeard, Appender
<1>2. Rows /\ PortsHeard
  BY BridgeConstants DEF BridgeInit, Rows, PortsHeard
<1>3. Follows
  BY DEF BridgeInit, Follows, Known
<1>4. SentRight
  BY DEF BridgeInit, SentRight
<1> QED
  BY <1>1, <1>2, <1>3, <1>4 DEF Learned

\* The entry of a known address.
LEMMA EntryFound ==
  ASSUME BridgeTypeOK, Rows, NEW s, Known(s)
  PROVE  EntryOf(s) \in 0 .. tableSize - 1 /\ mac[EntryOf(s)] = s
<1>1. PICK i \in 0 .. tableSize - 1 : mac[i] = s
  BY DEF Known
<1>2. \A j \in 0 .. i - 1 : j \in 0 .. tableSize - 1 /\ j # i
  BY DEF BridgeTypeOK
<1>3. \A j \in 0 .. i - 1 : mac[j] # s
  BY <1>1, <1>2 DEF Rows
<1>4. \E k \in 0 .. tableSize - 1 : mac[k] = s /\ \A j \in 0 .. k - 1 : mac[j] # s
  BY <1>1, <1>3
<1> QED
  BY <1>4 DEF EntryOf

\* While a thread is at work nothing was sent, and it is the only one.
LEMMA AtWork ==
  ASSUME Learned, NEW t \in BridgeThreads, bpc[t] # "idle"
  PROVE  /\ \A u \in BridgeThreads : u # t => bpc[u] = "idle"
         /\ sent = {}
         /\ frame[t].src \in Stations /\ frame[t].port \in Ports /\ frame[t].dst \in Stations
         /\ frame[t] \in Frames /\ frame[t].src # frame[t].dst
         /\ frame[t].port \in seenOn[frame[t].src] /\ lastOn[frame[t].src] = frame[t].port
         /\ \A s : Learning(s) <=> bpc[t] \in {"learn", "mac", "size", "port"} /\ frame[t].src = s
<1>1. \A u \in BridgeThreads : u # t => bpc[u] = "idle"
  BY DEF Learned, Alone
<1>2. sent = {}
  BY DEF Learned, SentRight, BridgeIdle
<1>3. /\ frame[t] \in Frames /\ frame[t].src # frame[t].dst
      /\ frame[t].port \in seenOn[frame[t].src] /\ lastOn[frame[t].src] = frame[t].port
  BY DEF Learned, FrameHeard
<1>4. frame[t].src \in Stations /\ frame[t].port \in Ports /\ frame[t].dst \in Stations
  BY <1>3 DEF Frames
<1>5. ASSUME NEW s
      PROVE  Learning(s) <=> bpc[t] \in {"learn", "mac", "size", "port"} /\ frame[t].src = s
  BY <1>1 DEF Learning
<1> QED
  BY <1>1, <1>2, <1>3, <1>4, <1>5

\* It goes on to a place of its own, and leaves the others idle.
LEMMA GoesOn ==
  ASSUME BridgeTypeOK, Learned, NEW t \in BridgeThreads, bpc[t] # "idle", NEW w, To(t, w),
         frame' = frame, seenOn' = seenOn, lastOn' = lastOn
  PROVE  /\ bpc'[t] = w /\ \A u \in BridgeThreads : u # t => bpc'[u] = "idle"
         /\ Alone' /\ FrameHeard'
         /\ \A s : Learning(s)' <=> w \in {"learn", "mac", "size", "port"} /\ frame[t].src = s
<1>1. bpc'[t] = w /\ \A u \in BridgeThreads : u # t => bpc'[u] = bpc[u]
  BY DEF To, BridgeTypeOK
<1>2. \A u \in BridgeThreads : u # t => bpc'[u] = "idle"
  BY <1>1, AtWork
<1>3. Alone'
  BY <1>2 DEF Alone
<1>4. FrameHeard'
  BY <1>2, AtWork DEF FrameHeard
<1>5. ASSUME NEW s
      PROVE  Learning(s)' <=> w \in {"learn", "mac", "size", "port"} /\ frame[t].src = s
  BY <1>1, <1>2 DEF Learning
<1> QED
  BY <1>1, <1>2, <1>3, <1>4, <1>5

LEMMA LearnFullKeeps ==
  ASSUME BridgeTypeOK, Learned, NEW t \in BridgeThreads, LearnFull(t) PROVE Learned'
<1>1. /\ bpc[t] = "learn" /\ bpc[t] # "idle" /\ TableFull /\ To(t, "forward")
      /\ mac' = mac /\ assoc' = assoc /\ tableSize' = tableSize /\ frame' = frame
      /\ slotCopy' = slotCopy /\ seenOn' = seenOn /\ lastOn' = lastOn /\ sent' = sent
  BY DEF LearnFull, tableVars, bridgeHist
<1>2. /\ bpc'[t] = "forward" /\ \A u \in BridgeThreads : u # t => bpc'[u] = "idle"
      /\ Alone' /\ FrameHeard'
  BY <1>1, GoesOn
<1>3. \A u \in BridgeThreads : u # t => bpc[u] = "idle"
  BY <1>1, AtWork
<1>4. Appender'
  BY <1>2 DEF Appender
<1>5. Rows' /\ PortsHeard'
  BY <1>1, <1>3 DEF Rows, PortsHeard, Learned
<1>6. Follows'
  <2>1. ~(tableSize' < MaxEntries)
    BY <1>1, BridgeConstants DEF TableFull, BridgeTypeOK
  <2> QED
    BY <2>1 DEF Follows
<1>7. SentRight'
  BY <1>1, AtWork DEF SentRight
<1> QED
  BY <1>2, <1>4, <1>5, <1>6, <1>7 DEF Learned

LEMMA LearnKnownKeeps ==
  ASSUME BridgeTypeOK, Learned, NEW t \in BridgeThreads, LearnKnown(t) PROVE Learned'
<1> DEFINE e == EntryOf(frame[t].src)
<1>1. /\ bpc[t] = "learn" /\ bpc[t] # "idle" /\ Known(frame[t].src) /\ To(t, "forward")
      /\ mac' = mac /\ assoc' = [assoc EXCEPT ![e] = frame[t].port] /\ tableSize' = tableSize
      /\ frame' = frame /\ slotCopy' = slotCopy
      /\ seenOn' = seenOn /\ lastOn' = lastOn /\ sent' = sent
  BY DEF LearnKnown, bridgeHist
<1>2. /\ bpc'[t] = "forward" /\ \A u \in BridgeThreads : u # t => bpc'[u] = "idle"
      /\ Alone' /\ FrameHeard' /\ \A s : ~Learning(s)'
  BY <1>1, GoesOn
<1>3. /\ \A u \in BridgeThreads : u # t => bpc[u] = "idle"
      /\ frame[t].port \in seenOn[frame[t].src] /\ lastOn[frame[t].src] = frame[t].port
      /\ \A s : Learning(s) => frame[t].src = s
  BY <1>1, AtWork
<1>4. e \in 0 .. tableSize - 1 /\ mac[e] = frame[t].src
  BY <1>1, EntryFound DEF Learned
<1> HIDE DEF e
<1>5. /\ DOMAIN assoc = Entries /\ 0 .. tableSize - 1 \subseteq Entries
  BY BridgeConstants DEF BridgeTypeOK, Entries
<1>6. \A i \in 0 .. tableSize - 1 :
        assoc'[i] = IF i = e THEN frame[t].port ELSE assoc[i]
  BY <1>1, <1>5
<1>7. Appender'
  BY <1>2 DEF Appender
<1>8. Rows'
  BY <1>1 DEF Rows, Learned
<1>9. PortsHeard'
  <2>1. \A i \in 0 .. tableSize - 1 : assoc[i] \in seenOn[mac[i]]
    BY <1>1, <1>3 DEF PortsHeard, Learned
  <2> QED
    BY <1>1, <1>3, <1>4, <1>6, <2>1 DEF PortsHeard
<1>10. Follows'
  <2> SUFFICES ASSUME tableSize < MaxEntries
               PROVE  /\ \A i \in 0 .. tableSize - 1 : assoc'[i] = lastOn[mac[i]]
                      /\ \A s \in Stations : Known(s) \/ lastOn[s] = Nobody
    BY <1>1 DEF Follows, Known
  <2>1. \A i \in 0 .. tableSize - 1 : mac[i] # frame[t].src => assoc[i] = lastOn[mac[i]]
    BY <1>3 DEF Follows, Learned
  <2>2. \A i \in 0 .. tableSize - 1 : i # e => mac[i] # frame[t].src
    BY <1>4 DEF Rows, Learned
  <2>3. \A s \in Stations : s # frame[t].src => Known(s) \/ lastOn[s] = Nobody
    BY <1>3 DEF Follows, Learned
  <2> QED
    BY <1>1, <1>3, <1>4, <1>6, <2>1, <2>2, <2>3
<1>11. SentRight'
  BY <1>1, AtWork DEF SentRight
<1> QED
  BY <1>2, <1>7, <1>8, <1>9, <1>10, <1>11 DEF Learned

LEMMA LearnNewKeeps ==
  ASSUME BridgeTypeOK, Learned, NEW t \in BridgeThreads, LearnNew(t) PROVE Learned'
<1>1. /\ bpc[t] = "learn" /\ bpc[t] # "idle" /\ ~TableFull /\ ~Known(frame[t].src) /\ To(t, "mac")
      /\ mac' = mac /\ assoc' = assoc /\ tableSize' = tableSize /\ frame' = frame
      /\ slotCopy' = [slotCopy EXCEPT ![t] = tableSize]
      /\ seenOn' = seenOn /\ lastOn' = lastOn /\ sent' = sent
  BY DEF LearnNew, tableVars, bridgeHist
<1>2. /\ bpc'[t] = "mac" /\ \A u \in BridgeThreads : u # t => bpc'[u] = "idle"
      /\ Alone' /\ FrameHeard' /\ \A s : Learning(s)' <=> frame[t].src = s
  BY <1>1, GoesOn
<1>3. /\ \A u \in BridgeThreads : u # t => bpc[u] = "idle"
      /\ \A s : Learning(s) <=> frame[t].src = s
  BY <1>1, AtWork
<1>4. slotCopy'[t] = tableSize /\ tableSize < MaxEntries
  BY <1>1, BridgeConstants DEF BridgeTypeOK, TableFull
<1>5. Appender'
  BY <1>1, <1>2, <1>4 DEF Appender, Known
<1>6. Rows' /\ PortsHeard'
  BY <1>1, <1>3 DEF Rows, PortsHeard, Learned
<1>7. Follows'
  BY <1>1, <1>2, <1>3 DEF Follows, Known, Learned
<1>8. SentRight'
  BY <1>1, AtWork DEF SentRight
<1> QED
  BY <1>2, <1>5, <1>6, <1>7, <1>8 DEF Learned

LEMMA LearnMacKeeps ==
  ASSUME BridgeTypeOK, Learned, NEW t \in BridgeThreads, LearnMac(t) PROVE Learned'
<1>1. /\ bpc[t] = "mac" /\ bpc[t] # "idle" /\ To(t, "size")
      /\ mac' = [mac EXCEPT ![slotCopy[t]] = frame[t].src]
      /\ assoc' = assoc /\ tableSize' = tableSize /\ frame' = frame /\ slotCopy' = slotCopy
      /\ seenOn' = seenOn /\ lastOn' = lastOn /\ sent' = sent
  BY DEF LearnMac, bridgeHist
<1>2. /\ bpc'[t] = "size" /\ \A u \in BridgeThreads : u # t => bpc'[u] = "idle"
      /\ Alone' /\ FrameHeard' /\ \A s : Learning(s)' <=> frame[t].src = s
  BY <1>1, GoesOn
<1>3. /\ \A u \in BridgeThreads : u # t => bpc[u] = "idle"
      /\ \A s : Learning(s) <=> frame[t].src = s
  BY <1>1, AtWork
<1>4. slotCopy[t] = tableSize /\ tableSize < MaxEntries /\ ~Known(frame[t].src)
  BY <1>1 DEF Appender, Learned
<1>5. mac'[tableSize] = frame[t].src /\ \A i \in 0 .. tableSize - 1 : mac'[i] = mac[i]
  BY <1>1, <1>4, BridgeConstants DEF BridgeTypeOK, Entries
<1>6. \A s : Known(s)' <=> Known(s)
  BY <1>1, <1>5 DEF Known
<1>7. Appender'
  BY <1>1, <1>2, <1>4, <1>5, <1>6 DEF Appender
<1>8. Rows' /\ PortsHeard'
  BY <1>1, <1>3, <1>5 DEF Rows, PortsHeard, Learned
<1>9. Follows'
  BY <1>1, <1>2, <1>3, <1>5, <1>6 DEF Follows, Learned
<1>10. SentRight'
  BY <1>1, AtWork DEF SentRight
<1> QED
  BY <1>2, <1>7, <1>8, <1>9, <1>10 DEF Learned

LEMMA LearnSizeKeeps ==
  ASSUME BridgeTypeOK, Learned, NEW t \in BridgeThreads, LearnSize(t) PROVE Learned'
<1>1. /\ bpc[t] = "size" /\ bpc[t] # "idle" /\ To(t, "port")
      /\ slotCopy' = [slotCopy EXCEPT ![t] = tableSize] /\ tableSize' = tableSize + 1
      /\ mac' = mac /\ assoc' = assoc /\ frame' = frame
      /\ seenOn' = seenOn /\ lastOn' = lastOn /\ sent' = sent
  BY DEF LearnSize, bridgeHist
<1>2. /\ bpc'[t] = "port" /\ \A u \in BridgeThreads : u # t => bpc'[u] = "idle"
      /\ Alone' /\ FrameHeard' /\ \A s : Learning(s)' <=> frame[t].src = s
  BY <1>1, GoesOn
<1>3. /\ \A u \in BridgeThreads : u # t => bpc[u] = "idle"
      /\ frame[t].src \in Stations
      /\ \A s : Learning(s) <=> frame[t].src = s
  BY <1>1, AtWork
<1>4. /\ tableSize < MaxEntries /\ ~Known(frame[t].src) /\ mac[tableSize] = frame[t].src
      /\ tableSize \in Nat /\ MaxEntries \in Nat
  BY <1>1, BridgeConstants DEF Appender, Learned, BridgeTypeOK
<1>5. slotCopy'[t] = tableSize
  BY <1>1 DEF BridgeTypeOK
<1>6. \A i : i \in 0 .. tableSize' - 1 <=> i \in 0 .. tableSize - 1 \/ i = tableSize
  BY <1>1, <1>4
<1>7. \A i \in 0 .. tableSize - 1 : mac[i] # frame[t].src
  BY <1>4 DEF Known
<1>8. \A s : Known(s)' <=> Known(s) \/ s = frame[t].src
  <2>1. \A s : Known(s)' <=> \E i \in 0 .. tableSize' - 1 : mac[i] = s
    BY <1>1 DEF Known
  <2> QED
    BY <1>4, <1>6, <2>1 DEF Known
<1>9. Appender'
  <2>1. tableSize' - 1 = tableSize /\ tableSize' > 0
    BY <1>1, <1>4
  <2> QED
    BY <1>1, <1>2, <1>4, <1>5, <2>1 DEF Appender
<1>10. Rows'
  <2>1. tableSize' <= MaxEntries
    BY <1>1, <1>4
  <2> QED
    BY <1>1, <1>3, <1>4, <1>6, <1>7, <2>1 DEF Rows, Learned
<1>11. PortsHeard'
  <2>1. \A i \in 0 .. tableSize - 1 : assoc[i] \in seenOn[mac[i]]
    BY <1>1, <1>3 DEF PortsHeard, Learned
  <2> QED
    BY <1>1, <1>2, <1>5, <1>6, <2>1 DEF PortsHeard
<1>12. Follows'
  <2> SUFFICES ASSUME tableSize' < MaxEntries
               PROVE  /\ \A i \in 0 .. tableSize' - 1 :
                           mac[i] # frame[t].src => assoc[i] = lastOn[mac[i]]
                      /\ \A s \in Stations :
                           s # frame[t].src => Known(s)' \/ lastOn[s] = Nobody
    BY <1>1, <1>2 DEF Follows
  <2> QED
    BY <1>3, <1>4, <1>6, <1>8 DEF Follows, Learned
<1>13. SentRight'
  BY <1>1, AtWork DEF SentRight
<1> QED
  BY <1>2, <1>9, <1>10, <1>11, <1>12, <1>13 DEF Learned

LEMMA LearnPortKeeps ==
  ASSUME BridgeTypeOK, Learned, NEW t \in BridgeThreads, LearnPort(t) PROVE Learned'
<1> DEFINE e == tableSize - 1
<1>1. /\ bpc[t] = "port" /\ bpc[t] # "idle" /\ To(t, "forward")
      /\ assoc' = [assoc EXCEPT ![slotCopy[t]] = frame[t].port]
      /\ mac' = mac /\ tableSize' = tableSize /\ frame' = frame /\ slotCopy' = slotCopy
      /\ seenOn' = seenOn /\ lastOn' = lastOn /\ sent' = sent
  BY DEF LearnPort, bridgeHist
<1>2. /\ bpc'[t] = "forward" /\ \A u \in BridgeThreads : u # t => bpc'[u] = "idle"
      /\ Alone' /\ FrameHeard' /\ \A s : ~Learning(s)'
  BY <1>1, GoesOn
<1>3. /\ \A u \in BridgeThreads : u # t => bpc[u] = "idle"
      /\ frame[t].port \in seenOn[frame[t].src] /\ lastOn[frame[t].src] = frame[t].port
      /\ \A s : Learning(s) => frame[t].src = s
  BY <1>1, AtWork
<1>4. slotCopy[t] = e /\ e \in 0 .. tableSize - 1 /\ mac[e] = frame[t].src
  BY <1>1 DEF Appender, Learned, BridgeTypeOK
<1> HIDE DEF e
<1>5. /\ DOMAIN assoc = Entries /\ 0 .. tableSize - 1 \subseteq Entries
  BY BridgeConstants DEF BridgeTypeOK, Entries
<1>6. \A i \in 0 .. tableSize - 1 :
        assoc'[i] = IF i = e THEN frame[t].port ELSE assoc[i]
  BY <1>1, <1>4, <1>5
<1>7. Appender'
  BY <1>2 DEF Appender
<1>8. Rows'
  BY <1>1 DEF Rows, Learned
<1>9. PortsHeard'
  <2>1. \A i \in 0 .. tableSize - 1 : i # e => assoc[i] \in seenOn[mac[i]]
    BY <1>3, <1>4 DEF PortsHeard, Learned
  <2> QED
    BY <1>1, <1>3, <1>4, <1>6, <2>1 DEF PortsHeard
<1>10. Follows'
  <2> SUFFICES ASSUME tableSize < MaxEntries
               PROVE  /\ \A i \in 0 .. tableSize - 1 : assoc'[i] = lastOn[mac[i]]
                      /\ \A s \in Stations : Known(s) \/ lastOn[s] = Nobody
    BY <1>1 DEF Follows, Known
  <2>1. \A i \in 0 .. tableSize - 1 : mac[i] # frame[t].src => assoc[i] = lastOn[mac[i]]
    BY <1>3 DEF Follows, Learned
  <2>2. \A i \in 0 .. tableSize - 1 : i # e => mac[i] # frame[t].src
    BY <1>4 DEF Rows, Learned
  <2>3. \A s \in Stations : s # frame[t].src => Known(s) \/ lastOn[s] = Nobody
    BY <1>3 DEF Follows, Learned
  <2>4. Known(frame[t].src)
    BY <1>4 DEF Known
  <2> QED
    BY <1>3, <1>4, <1>6, <2>1, <2>2, <2>3, <2>4
<1>11. SentRight'
  BY <1>1, AtWork DEF SentRight
<1> QED
  BY <1>2, <1>7, <1>8, <1>9, <1>10, <1>11 DEF Learned

LEMMA ForwardKeeps ==
  ASSUME BridgeTypeOK, Learned, NEW t \in BridgeThreads, ForwardUnicast(t) PROVE Learned'
<1>1. /\ bpc[t] = "forward" /\ bpc[t] # "idle" /\ To(t, "idle")
      /\ sent' = sent \cup {[frame |-> frame[t], ports |-> OutPorts(frame[t])]}
      /\ mac' = mac /\ assoc' = assoc /\ tableSize' = tableSize /\ frame' = frame
      /\ slotCopy' = slotCopy /\ seenOn' = seenOn /\ lastOn' = lastOn
  BY DEF ForwardUnicast, tableVars
<1>2. /\ bpc'[t] = "idle" /\ \A u \in BridgeThreads : u # t => bpc'[u] = "idle"
      /\ Alone' /\ FrameHeard' /\ \A s : ~Learning(s)'
  BY <1>1, GoesOn
<1>3. /\ \A u \in BridgeThreads : u # t => bpc[u] = "idle"
      /\ \A s : ~Learning(s)
      /\ sent = {} /\ frame[t] \in Frames
      /\ frame[t].dst \in Stations /\ frame[t].port \in Ports
  BY <1>1, AtWork
<1>4. Appender'
  BY <1>2 DEF Appender
<1>5. Rows' /\ PortsHeard'
  BY <1>1, <1>3 DEF Rows, PortsHeard, Learned
<1>6. Follows'
  BY <1>1, <1>2, <1>3 DEF Follows, Known, Learned
<1>7. SentRight'
  <2>f. PICK f, out : f = frame[t] /\ out = OutPorts(f)
    OBVIOUS
  <2>1. sent' = {[frame |-> f, ports |-> out]} /\ BridgeIdle'
    BY <1>1, <1>2, <1>3, <2>f DEF BridgeIdle
  <2>2. /\ out \subseteq Ports
        /\ IF Known(f.dst) THEN \E p \in seenOn[f.dst] : out = {p}
           ELSE out = Ports \ {f.port}
    <3>1. CASE Known(f.dst)
      <4> DEFINE e == EntryOf(f.dst)
      <4>1. e \in 0 .. tableSize - 1 /\ mac[e] = f.dst
        BY <3>1, EntryFound DEF Learned
      <4>2. GetLearnedState(f.dst) = assoc[e]
        BY <3>1 DEF GetLearnedState
      <4> HIDE DEF e
      <4>3. assoc[e] \in seenOn[f.dst]
        BY <1>1, <1>3, <4>1, <2>f DEF PortsHeard, Learned
      <4>4. seenOn[f.dst] \subseteq Ports
        BY <1>3, <2>f DEF BridgeTypeOK
      <4>5. assoc[e] # Nobody /\ assoc[e] \in Ports
        BY <4>3, <4>4, BridgeConstants
      <4>6. out = {assoc[e]}
        BY <2>f, <4>2, <4>5 DEF OutPorts
      <4> QED
        BY <3>1, <4>3, <4>5, <4>6
    <3>2. CASE ~Known(f.dst)
      <4>1. out = Ports \ {f.port}
        BY <2>f, <3>2 DEF OutPorts, GetLearnedState
      <4> QED
        BY <3>2, <4>1
    <3> QED
      BY <3>1, <3>2
  <2>3. Known(f.dst) <=> \E i \in 0 .. tableSize' - 1 : mac'[i] = f.dst
    BY <1>1 DEF Known
  <2>4. ASSUME NEW x \in sent' PROVE WentRight(x)'
    <3>1. x.frame = f /\ x.ports = out
      BY <2>1, <2>4
    <3> QED
      BY <1>1, <2>2, <2>3, <3>1 DEF WentRight
  <2> QED
    BY <2>1, <2>4 DEF SentRight
<1> QED
  BY <1>2, <1>4, <1>5, <1>6, <1>7 DEF Learned

\* A kernel of one thread begins with an idle bridge: what the sender of its
\* frame was heard on is the only history that changes.
LEMMA LaunchKeeps ==
  ASSUME BridgeTypeOK, Learned, BridgeLaunch, ~raced' PROVE Learned'
<1>0. PICK T \in (SUBSET BridgeThreads) \ {{}} : \E f \in [T -> Frames] :
       /\ \A t \in T : f[t].src # f[t].dst
       /\ frame' = [t \in BridgeThreads |-> IF t \in T THEN f[t] ELSE NoFrame]
       /\ bpc' = [t \in BridgeThreads |-> IF t \in T THEN "learn" ELSE "idle"]
       /\ seenOn' = [s \in Stations |-> seenOn[s] \cup {f[t].port : t \in {u \in T : f[u].src = s}}]
       /\ lastOn' = [s \in Stations |->
            IF \E t \in T : f[t].src = s
            THEN f[CHOOSE t \in T : f[t].src = s].port ELSE lastOn[s]]
       /\ raced' = (raced \/ Cardinality(T) > 1)
  BY DEF BridgeLaunch
<1>1. PICK f \in [T -> Frames] :
       /\ \A t \in T : f[t].src # f[t].dst
       /\ frame' = [t \in BridgeThreads |-> IF t \in T THEN f[t] ELSE NoFrame]
       /\ bpc' = [t \in BridgeThreads |-> IF t \in T THEN "learn" ELSE "idle"]
       /\ seenOn' = [s \in Stations |-> seenOn[s] \cup {f[t].port : t \in {u \in T : f[u].src = s}}]
       /\ lastOn' = [s \in Stations |->
            IF \E t \in T : f[t].src = s
            THEN f[CHOOSE t \in T : f[t].src = s].port ELSE lastOn[s]]
       /\ raced' = (raced \/ Cardinality(T) > 1)
  BY <1>0
<1>2. /\ BridgeIdle /\ sent' = {}
      /\ mac' = mac /\ assoc' = assoc /\ tableSize' = tableSize
  BY DEF BridgeLaunch, tableVars
<1>3. PICK t : t \in T
  <2>1. T # {}
    OBVIOUS
  <2> QED
    BY <2>1
<1>4. T = {t}
  <2>1. ASSUME NEW u \in T, u # t PROVE FALSE
    <3>1. IsFiniteSet(T) /\ Cardinality(T) \in Nat /\ t \in T
      BY <1>3, BridgeConstants, FS_Subset, FS_CardinalityType
    <3>2. Cardinality({t}) = 1 /\ IsFiniteSet({t})
      BY FS_Singleton
    <3>3. Cardinality({t} \cup {u}) = 2
      <4>1. u \notin {t}
        BY <2>1
      <4>2. Cardinality({t} \cup {u}) = Cardinality({t}) + 1
        BY <3>2, <4>1, FS_AddElement
      <4> QED
        BY <3>2, <4>2
    <3>4. Cardinality({t} \cup {u}) <= Cardinality(T)
      <4>1. {t} \cup {u} \subseteq T
        BY <2>1, <3>1
      <4> QED
        BY <3>1, <4>1, FS_Subset
    <3>5. ~(Cardinality(T) > 1)
      BY <1>1, Zenon
    <3> QED
      BY <3>1, <3>3, <3>4, <3>5
  <2> QED
    BY <1>3, <2>1
<1>5. PICK g : g = f[t]
  OBVIOUS
<1>6. /\ t \in BridgeThreads /\ g \in Frames /\ g.src # g.dst
      /\ g.src \in Stations /\ g.port \in Ports
  BY <1>1, <1>3, <1>5 DEF Frames
<1>7. /\ frame'[t] = g /\ bpc'[t] = "learn"
      /\ \A u \in BridgeThreads : u # t => bpc'[u] = "idle"
  BY <1>1, <1>4, <1>5, <1>6
<1>8. /\ seenOn'[g.src] = seenOn[g.src] \cup {g.port}
      /\ \A s \in Stations : seenOn[s] \subseteq seenOn'[s]
  <2>1. {f[v].port : v \in {u \in T : f[u].src = g.src}} = {g.port}
    BY <1>4, <1>5
  <2> QED
    BY <1>1, <1>6, <2>1
<1>9. \A s \in Stations : lastOn'[s] = IF s = g.src THEN g.port ELSE lastOn[s]
  <2>1. ASSUME NEW s \in Stations PROVE lastOn'[s] = IF s = g.src THEN g.port ELSE lastOn[s]
    <3>1. CASE s = g.src
      <4>1. \E v \in T : f[v].src = s
        BY <1>4, <1>5, <3>1
      <4>2. (CHOOSE v \in T : f[v].src = s) = t
        BY <1>4, <4>1
      <4> QED
        BY <1>1, <1>5, <3>1, <4>1, <4>2
    <3>2. CASE s # g.src
      <4>1. ~\E v \in T : f[v].src = s
        BY <1>4, <1>5, <3>2
      <4> QED
        BY <1>1, <3>2, <4>1
    <3> QED
      BY <3>1, <3>2
  <2> QED
    BY <2>1
<1>10. Alone' /\ FrameHeard' /\ Appender'
  BY <1>6, <1>7, <1>8, <1>9 DEF Alone, FrameHeard, Appender
<1>11. Rows'
  BY <1>2 DEF Rows, Learned
<1>12. PortsHeard'
  <2>1. \A i \in 0 .. tableSize - 1 : mac[i] \in Stations /\ assoc[i] \in seenOn[mac[i]]
    BY <1>2 DEF PortsHeard, Rows, Learned, BridgeIdle
  <2> QED
    BY <1>2, <1>8, <2>1 DEF PortsHeard
<1>13. Follows'
  <2>1. \A s : Learning(s)' <=> s = g.src
    BY <1>7, <1>6 DEF Learning
  <2>2. \A s : ~Learning(s)
    BY <1>2 DEF Learning, BridgeIdle
  <2>3. \A i \in 0 .. tableSize - 1 : mac[i] \in Stations
    BY DEF Rows, Learned
  <2>4. \A s : Known(s)' <=> Known(s)
    BY <1>2 DEF Known
  <2> QED
    BY <1>2, <1>9, <2>1, <2>2, <2>3, <2>4 DEF Follows, Learned
<1>14. SentRight'
  BY <1>2 DEF SentRight
<1> QED
  BY <1>10, <1>11, <1>12, <1>13, <1>14 DEF Learned

LEMMA BridgeStepKeeps ==
  ASSUME BridgeTypeOK, Learned, NEW t \in BridgeThreads, BridgeStep(t) PROVE Learned'
BY LearnFullKeeps, LearnKnownKeeps, LearnNewKeeps, LearnMacKeeps, LearnSizeKeeps,
   LearnPortKeeps, ForwardKeeps DEF BridgeStep

\* The thread's own steps do not touch the history of races, and a kernel
\* that begins does not forget an earlier one.
LEMMA RacedStays == ASSUME BridgeTypeOK, BridgeNext, ~raced' PROVE ~raced
<1>1. ASSUME BridgeLaunch PROVE ~raced
  BY <1>1 DEF BridgeLaunch
<1>2. ASSUME NEW t \in BridgeThreads, BridgeStep(t) PROVE raced' = raced
  BY <1>2 DEF BridgeStep, LearnFull, LearnKnown, LearnNew, LearnMac, LearnSize, LearnPort,
     ForwardUnicast, bridgeHist
<1> QED
  BY <1>1, <1>2 DEF BridgeNext

LEMMA BridgeNextKeeps == ASSUME BridgeInv, [BridgeNext]_bridgeVars PROVE BridgeInv'
<1>1. CASE BridgeLaunch
  <2>1. BridgeTypeOK' /\ BridgeBounds'
    BY <1>1, LaunchTyped DEF BridgeInv
  <2>2. ASSUME ~raced' PROVE Learned'
    <3>1. ~raced
      BY <1>1, <2>2, RacedStays DEF BridgeNext, BridgeInv
    <3> QED
      BY <1>1, <2>2, <3>1, LaunchKeeps DEF BridgeInv
  <2> QED
    BY <2>1, <2>2 DEF BridgeInv
<1>2. ASSUME NEW t \in BridgeThreads, BridgeStep(t) PROVE BridgeInv'
  <2>1. BridgeTypeOK' /\ BridgeBounds'
    BY <1>2, BridgeStepTyped DEF BridgeInv
  <2>2. ASSUME ~raced' PROVE Learned'
    <3>1. ~raced
      BY <1>2, <2>2, RacedStays DEF BridgeNext, BridgeInv
    <3> QED
      BY <1>2, <3>1, BridgeStepKeeps DEF BridgeInv
  <2> QED
    BY <2>1, <2>2 DEF BridgeInv
<1>3. CASE UNCHANGED bridgeVars
  <2>1. BridgeTypeOK' /\ BridgeBounds'
    BY <1>3 DEF BridgeInv, BridgeTypeOK, BridgeBounds, Appending, bridgeVars,
       tableVars, bridgeHist
  <2>2. ASSUME Learned PROVE Learned'
    BY <1>3, <2>2 DEF Learned, Alone, FrameHeard, Appender, Rows, PortsHeard, Follows, SentRight,
       WentRight, BridgeIdle, Known, Learning, bridgeVars, tableVars, bridgeHist
  <2> QED
    BY <1>3, <2>1, <2>2 DEF BridgeInv, bridgeVars, bridgeHist
<1> QED
  BY <1>1, <1>2, <1>3 DEF BridgeNext

\* Between kernels the table says where each station was last.
LEMMA LearnedImplies == ASSUME BridgeInv PROVE LearnedAndForwarded
<1>1. ASSUME ~raced, BridgeIdle
      PROVE  /\ tableSize <= MaxEntries
             /\ \A i, j \in 0 .. tableSize - 1 : mac[i] = mac[j] => i = j
             /\ LearnedWhereSeen
             /\ tableSize < MaxEntries => \A s \in Stations : GetLearnedState(s) = lastOn[s]
  <2>1. Rows /\ PortsHeard /\ Follows /\ BridgeTypeOK
    BY <1>1 DEF BridgeInv, Learned
  <2>2. LearnedWhereSeen
    BY <1>1, <2>1 DEF LearnedWhereSeen, PortsHeard, BridgeIdle
  <2>3. ASSUME tableSize < MaxEntries, NEW s \in Stations PROVE GetLearnedState(s) = lastOn[s]
    <3>1. \A r : ~Learning(r)
      BY <1>1 DEF Learning, BridgeIdle
    <3>2. CASE Known(s)
      <4>1. PICK e : e = EntryOf(s)
        OBVIOUS
      <4>2. e \in 0 .. tableSize - 1 /\ mac[e] = s
        BY <2>1, <3>2, <4>1, EntryFound
      <4>3. assoc[e] = lastOn[s]
        BY <2>1, <2>3, <3>1, <4>2 DEF Follows
      <4> QED
        BY <3>2, <4>1, <4>3 DEF GetLearnedState
    <3>3. CASE ~Known(s)
      BY <2>1, <2>3, <3>1, <3>3 DEF Follows, GetLearnedState
    <3> QED
      BY <3>2, <3>3
  <2> QED
    BY <2>1, <2>2, <2>3 DEF Rows
<1>2. TableFollowsStations
  BY <1>1 DEF TableFollowsStations
<1>3. ForwardedToReceiver
  BY DEF ForwardedToReceiver, BridgeInv, Learned, SentRight, WentRight
<1> QED
  BY <1>2, <1>3 DEF LearnedAndForwarded

\* Types, and how far the threads of a kernel can go past the end of the
\* array: by one entry each, less the one that fills it.
THEOREM BridgeTypeCorrect == BridgeSpec => []BridgeTypeOK
<1>1. BridgeInit => BridgeInv
  BY BridgeInitTyped, BridgeInitLearned DEF BridgeInv
<1>2. BridgeInv /\ [BridgeNext]_bridgeVars => BridgeInv'
  BY BridgeNextKeeps
<1>3. BridgeInv => BridgeTypeOK
  BY DEF BridgeInv
<1> QED
  BY <1>1, <1>2, <1>3, PTL DEF BridgeSpec

\* While each kernel holds one frame, the learning table follows the stations
\* until it is full, and a frame goes out of the port of its receiver alone
\* once that was heard, of all ports but its own before (Learn and
\* ForwardUnicast of cuda-bridge-net-device.cu).
THEOREM LearnedAndForwardedHolds == BridgeSpec => []LearnedAndForwarded
<1>1. BridgeInit => BridgeInv
  BY BridgeInitTyped, BridgeInitLearned DEF BridgeInv
<1>2. BridgeInv /\ [BridgeNext]_bridgeVars => BridgeInv'
  BY BridgeNextKeeps
<1>3. BridgeInv => LearnedAndForwarded
  BY LearnedImplies
<1> QED
  BY <1>1, <1>2, <1>3, PTL DEF BridgeSpec

----------------------------------------------------------------------------
(* The pools: types, and the counters of the delivery queue.               *)

\* A thread that sends has a client, one that has a packet has one of a pool.
Sending == {"send", "claim", "down"}
Receiving == {"recv", "rear", "front", "add", "store", "account", "read", "pop", "take", "release"}
Keeping == Receiving \cup {"down"}
PoolTyped ==
  /\ PoolTypeOK
  /\ \A t \in Tids : job[t] \in Sending => client[t] \in Clients
  /\ \A t \in Tids : job[t] \in Keeping => held[t] \in PoolPackets

\* Threads that have advanced the rear and may still advance the front: each
\* of them put in what it may take out.
Owed == {t \in Tids : job[t] \in {"store", "account", "read", "pop"}}

\* A stale rear is never larger than a front read after it and the capacity.
QueueCounts ==
  /\ qFront + Cardinality(Owed) <= qRear /\ qRear <= qFront + QueueCapacity
  /\ \A t \in Tids :
       /\ job[t] \in {"front", "add"} => rearCopy[t] <= qRear
       /\ job[t] = "front" => rearCopy[t] <= qFront + QueueCapacity
       /\ job[t] = "add" => frontCopy[t] <= qFront /\ rearCopy[t] <= frontCopy[t] + QueueCapacity

----------------------------------------------------------------------------
(* The pools: where a packet is, while one thread at a time receives.      *)

OneReceiver == \A t, u \in Tids : job[t] \in Receiving /\ job[u] \in Receiving => t = u

\* The queue holds what the receiver has added and not yet taken.
QueueOfOne ==
  /\ qRear = IF \E t \in Tids : job[t] \in {"store", "account", "read", "pop"} THEN qFront + 1 ELSE qFront
  /\ \A t \in Tids :
       /\ job[t] = "store" => rearCopy[t] = qFront
       /\ job[t] \in {"account", "read", "pop"} => pairs[qFront % QueueCapacity] = held[t]
       /\ job[t] = "pop" => rearCopy[t] = qRear
       /\ job[t] = "take" => pairs[frontCopy[t] % QueueCapacity] = held[t]

\* The receive buffer is charged for that packet alone.
Charged ==
  /\ \A t \in Tids : job[t] \in {"read", "pop", "take"} => m_rxAvailable = size[held[t]]
  /\ (\A t \in Tids : job[t] \notin {"read", "pop", "take"}) => m_rxAvailable = 0

\* A packet in use is on the wire, or forgotten, or has one thread.
Keeps(t, p) == job[t] \in Keeping /\ held[t] = p
OneHome ==
  /\ \A p \in PoolPackets :
       /\ wire[p] \in {0, 1}
       /\ ready[p] = 1 <=> wire[p] = 1 \/ p \in lostInStack \/ \E t \in Tids : Keeps(t, p)
       /\ wire[p] = 1 => p \notin lostInStack /\ \A t \in Tids : ~Keeps(t, p)
       /\ p \in lostInStack => \A t \in Tids : ~Keeps(t, p)
  /\ \A t, u \in Tids : job[t] \in Keeping /\ job[u] \in Keeping /\ held[t] = held[u] => t = u

Uncrowded == OneReceiver /\ QueueOfOne /\ Charged /\ OneHome
PoolInv == PoolTyped /\ QueueCounts /\ (~crowded => Uncrowded)

LEMMA PoolConstants ==
  /\ WordSize \in Nat /\ WordSize > 0 /\ QueueCapacity \in Nat /\ QueueCapacity > 0
  /\ QueueCapacity + 1 < WordSize /\ m_rcvBufSize \in Nat /\ PerThread \in Nat /\ PerThread > 0
  /\ IsFiniteSet(Tids) /\ SizeOf \in [Clients -> 1 .. WordSize - 1]
  /\ NoPacket \notin Clients /\ NoPacket \notin PoolPackets
  /\ \A c \in Clients : c \notin PoolPackets
BY PoolAssumption DEF PoolAssumption, PoolPackets, PoolPlaces

LEMMA OwedFinite == IsFiniteSet(Owed) /\ Cardinality(Owed) \in Nat
<1>1. Owed \subseteq Tids
  BY DEF Owed
<1> QED
  BY <1>1, PoolConstants, FS_Subset, FS_CardinalityType

LEMMA PoolInitInv == PoolInit => PoolInv
<1> SUFFICES ASSUME PoolInit PROVE PoolInv
  OBVIOUS
<1>1. /\ ready \in [PoolPackets -> {0, 1}] /\ size \in [PoolPackets -> 0 .. WordSize - 1]
      /\ job \in [Tids -> {"idle", "send", "claim", "down", "recv", "rear", "front", "add",
                           "store", "account", "read", "pop", "take", "release"}]
      /\ client \in [Tids -> Clients \cup {NoPacket}] /\ scan \in [Tids -> PoolPlaces]
  BY PoolConstants DEF PoolInit, PoolPlaces
<1>2. /\ held \in [Tids -> PoolPackets \cup {NoPacket}]
      /\ rearCopy \in [Tids -> Nat] /\ frontCopy \in [Tids -> Nat]
      /\ pairs \in [QueueSlots -> PoolPackets \cup {NoPacket}]
  BY DEF PoolInit
<1>3. /\ m_rxAvailable \in 0 .. WordSize - 1 /\ m_received \in Nat /\ qFront \in Nat /\ qRear \in Nat
      /\ poolKernels \in 0 .. MaxPoolKernels
  BY PoolConstants, PoolAssumption DEF PoolInit, PoolAssumption
<1>4. wire \in [PoolPackets -> Nat] /\ sendDue \subseteq Clients /\ crowded \in BOOLEAN
      /\ lostInStack \subseteq PoolPackets
  BY DEF PoolInit
<1>5. PoolTyped
  BY <1>1, <1>2, <1>3, <1>4 DEF PoolTyped, PoolTypeOK, PoolInit, Sending, Keeping, Receiving
<1>6. QueueCounts
  <2>1. Owed = {} /\ Cardinality({}) = 0
    BY FS_EmptySet DEF PoolInit, Owed
  <2> QED
    BY <2>1, PoolConstants DEF PoolInit, QueueCounts
<1>7. OneReceiver /\ QueueOfOne /\ Charged
  BY DEF PoolInit, OneReceiver, QueueOfOne, Charged, Receiving
<1>8. OneHome
  BY DEF PoolInit, OneHome, Keeps, Keeping, Receiving
<1> QED
  BY <1>5, <1>6, <1>7, <1>8 DEF PoolInv, Uncrowded

\* One thread moves; the others stay where they are.
LEMMA JobMoves ==
  ASSUME PoolTypeOK, NEW t \in Tids, NEW w, Goes(t, w)
  PROVE  job'[t] = w /\ \A u \in Tids : u # t => job'[u] = job[u]
BY DEF Goes, PoolTypeOK

\* A launch: what the threads are given.
LaunchWork(sends, recvs, work) ==
  /\ sends \subseteq sendDue /\ recvs \subseteq {p \in PoolPackets : wire[p] > 0}
  /\ work \in [Tids -> sends \cup recvs \cup {NoPacket}]
  /\ \A x \in sends \cup recvs : Cardinality({t \in Tids : work[t] = x}) = 1
  /\ job' = [t \in Tids |-> IF work[t] \in sends THEN "send"
                            ELSE IF work[t] \in recvs THEN "recv" ELSE "idle"]
  /\ client' = [t \in Tids |-> IF work[t] \in sends THEN work[t] ELSE NoPacket]
  /\ held' = [t \in Tids |-> IF work[t] \in recvs THEN work[t] ELSE NoPacket]
  /\ wire' = [p \in PoolPackets |-> IF p \in recvs THEN wire[p] - 1 ELSE wire[p]]
  /\ sendDue' = sendDue \ sends
  /\ crowded' = (crowded \/ Cardinality(recvs) > 1)

LEMMA LaunchIs ==
  ASSUME PoolLaunch
  PROVE  /\ \E sends, recvs, work : LaunchWork(sends, recvs, work)
         /\ PoolIdle /\ poolKernels < MaxPoolKernels /\ poolKernels' = poolKernels + 1
         /\ rearCopy' = [t \in Tids |-> 0] /\ frontCopy' = [t \in Tids |-> 0]
         /\ UNCHANGED <<ready, size, scan, pairs, qFront, qRear, m_rxAvailable, m_received, lostInStack>>
<1>1. \E sends \in SUBSET sendDue, recvs \in SUBSET {p \in PoolPackets : wire[p] > 0} :
       /\ \E work \in [Tids -> sends \cup recvs \cup {NoPacket}] :
            /\ \A x \in sends \cup recvs : Cardinality({t \in Tids : work[t] = x}) = 1
            /\ job' = [t \in Tids |-> IF work[t] \in sends THEN "send"
                                      ELSE IF work[t] \in recvs THEN "recv" ELSE "idle"]
            /\ client' = [t \in Tids |-> IF work[t] \in sends THEN work[t] ELSE NoPacket]
            /\ held' = [t \in Tids |-> IF work[t] \in recvs THEN work[t] ELSE NoPacket]
       /\ wire' = [p \in PoolPackets |-> IF p \in recvs THEN wire[p] - 1 ELSE wire[p]]
       /\ sendDue' = sendDue \ sends
       /\ crowded' = (crowded \/ Cardinality(recvs) > 1)
  BY DEF PoolLaunch
<1>2. \E sends, recvs, work : LaunchWork(sends, recvs, work)
  BY <1>1, ZenonT(60) DEF LaunchWork
<1> QED
  BY <1>2 DEF PoolLaunch, rxVars

LEMMA LaunchPoolTyped ==
  ASSUME PoolTyped, QueueCounts, PoolLaunch PROVE PoolTyped' /\ QueueCounts'
<1>1. PICK sends, recvs, work : LaunchWork(sends, recvs, work)
  BY LaunchIs
<1>2. /\ PoolIdle /\ poolKernels < MaxPoolKernels /\ poolKernels' = poolKernels + 1
      /\ rearCopy' = [t \in Tids |-> 0] /\ frontCopy' = [t \in Tids |-> 0]
      /\ UNCHANGED <<ready, size, scan, pairs, qFront, qRear, m_rxAvailable, m_received, lostInStack>>
  BY LaunchIs
<1>3. /\ \A t \in Tids : work[t] \in sends \cup recvs \cup {NoPacket}
      /\ sends \subseteq Clients /\ recvs \subseteq PoolPackets
      /\ \A p \in recvs : wire[p] - 1 \in Nat
  BY <1>1 DEF LaunchWork, PoolTyped, PoolTypeOK
<1>4. /\ job' \in [Tids -> {"idle", "send", "claim", "down", "recv", "rear", "front", "add",
                           "store", "account", "read", "pop", "take", "release"}]
      /\ client' \in [Tids -> Clients \cup {NoPacket}]
      /\ held' \in [Tids -> PoolPackets \cup {NoPacket}]
  BY <1>1, <1>3 DEF LaunchWork
<1>5. wire' \in [PoolPackets -> Nat]
  BY <1>1, <1>3 DEF LaunchWork, PoolTyped, PoolTypeOK
<1>6. crowded' \in BOOLEAN /\ sendDue' \subseteq Clients
  BY <1>1 DEF LaunchWork, PoolTyped, PoolTypeOK
<1>7. rearCopy' \in [Tids -> Nat] /\ frontCopy' \in [Tids -> Nat]
  BY <1>2
<1>8. poolKernels' \in 0 .. MaxPoolKernels
  BY <1>2, PoolAssumption DEF PoolTyped, PoolTypeOK, PoolAssumption
<1>9. PoolTypeOK'
  BY <1>2, <1>4, <1>5, <1>6, <1>7, <1>8 DEF PoolTyped, PoolTypeOK
<1>10. ASSUME NEW t \in Tids
       PROVE  /\ job'[t] \in Sending => client'[t] \in Clients
              /\ job'[t] \in Keeping => held'[t] \in PoolPackets
  BY <1>1, <1>3 DEF LaunchWork, Sending, Keeping, Receiving
<1>11. Owed' = Owed
  BY <1>1, <1>2 DEF LaunchWork, Owed, PoolIdle
<1>12. Cardinality(Owed)' = Cardinality(Owed)
  BY <1>11
<1>13. \A t \in Tids : job'[t] \notin {"front", "add"}
  BY <1>1 DEF LaunchWork
<1>14. QueueCounts'
  BY <1>2, <1>12, <1>13 DEF QueueCounts
<1> QED
  BY <1>9, <1>10, <1>14 DEF PoolTyped

\* Steps that leave the counters alone, and a thread in or out of Owed.
LEMMA SameCounts ==
  ASSUME PoolTypeOK, QueueCounts, NEW t \in Tids, NEW w, Goes(t, w), UNCHANGED <<qFront, qRear>>,
         w \notin {"front", "add"}, w \in {"store", "account", "read", "pop"} => t \in Owed,
         \A u \in Tids : u # t => rearCopy'[u] = rearCopy[u] /\ frontCopy'[u] = frontCopy[u]
  PROVE  QueueCounts'
<1>1. job'[t] = w /\ \A u \in Tids : u # t => job'[u] = job[u]
  BY JobMoves
<1>2. Owed' \subseteq Owed
  BY <1>1 DEF Owed
<1>3. Cardinality(Owed') <= Cardinality(Owed) /\ Cardinality(Owed') \in Nat
  BY <1>2, OwedFinite, FS_Subset, FS_CardinalityType
<1>4. PICK n \in Nat : n = Cardinality(Owed')
  BY <1>3
<1>5. qFront' + n <= qRear' /\ qRear' <= qFront' + QueueCapacity
  BY <1>3, <1>4, OwedFinite, PoolConstants DEF QueueCounts, PoolTypeOK
<1>6. \A u \in Tids :
       /\ job'[u] \in {"front", "add"} => rearCopy'[u] <= qRear'
       /\ job'[u] = "front" => rearCopy'[u] <= qFront' + QueueCapacity
       /\ job'[u] = "add" => frontCopy'[u] <= qFront' /\ rearCopy'[u] <= frontCopy'[u] + QueueCapacity
  BY <1>1 DEF QueueCounts
<1> QED
  BY <1>4, <1>5, <1>6 DEF QueueCounts

LEMMA PoolStepTyped ==
  ASSUME PoolTyped, NEW t \in Tids, PoolStep(t) PROVE PoolTyped'
<1> DEFINE Jobs == {"idle", "send", "claim", "down", "recv", "rear", "front", "add",
                    "store", "account", "read", "pop", "take", "release"}
<1>t. /\ PoolTypeOK /\ job \in [Tids -> Jobs]
      /\ job[t] \in Sending => client[t] \in Clients
      /\ job[t] \in Keeping => held[t] \in PoolPackets
      /\ \A u \in Tids : u # t =>
           /\ job[u] \in Sending => client[u] \in Clients
           /\ job[u] \in Keeping => held[u] \in PoolPackets
  BY DEF PoolTyped, PoolTypeOK
<1> USE DEF queueVars, rxVars, sendVars, poolHist
<1>1. CASE SendTest(t)
  <2>1. \E w \in {"idle", "claim"} : Goes(t, w)
    BY <1>1 DEF SendTest
  <2>2. job' \in [Tids -> Jobs] /\ scan' \in [Tids -> PoolPlaces]
    BY <1>1, <1>t, <2>1, PoolConstants DEF SendTest, Goes, PoolTypeOK, PoolPlaces
  <2>3. PoolTypeOK'
    BY <1>1, <1>t, <2>2 DEF SendTest, PoolTypeOK
  <2>4. /\ job[t] = "send" /\ job'[t] \in {"idle", "claim"}
        /\ \A u \in Tids : u # t => job'[u] = job[u]
    BY <1>1, <1>t, <2>1, JobMoves DEF SendTest
  <2> QED
    BY <1>1, <1>t, <2>3, <2>4 DEF SendTest, PoolTyped, Sending, Keeping, Receiving
<1>2. CASE Claim(t)
  <2> DEFINE q == <<t, scan[t]>>
  <2>1. q \in PoolPackets /\ client[t] \in Clients /\ job[t] = "claim"
    BY <1>2, <1>t DEF Claim, Sending, PoolTypeOK, PoolPackets
  <2>2. CASE ready[q] = 0
    <3>1. /\ ready' = [ready EXCEPT ![q] = 1] /\ size' = [size EXCEPT ![q] = SizeOf[client[t]]]
          /\ held' = [held EXCEPT ![t] = q] /\ Goes(t, "down") /\ scan' = scan
          /\ UNCHANGED <<queueVars, rxVars, wire, client, sendDue, poolHist>>
      BY <1>2, <2>2 DEF Claim
    <3>2. SizeOf[client[t]] \in 0 .. WordSize - 1
      BY <2>1, PoolConstants
    <3>3. /\ ready' \in [PoolPackets -> {0, 1}] /\ size' \in [PoolPackets -> 0 .. WordSize - 1]
          /\ held' \in [Tids -> PoolPackets \cup {NoPacket}] /\ job' \in [Tids -> Jobs]
      BY <1>t, <2>1, <3>1, <3>2 DEF PoolTypeOK, Goes
    <3>4. PoolTypeOK'
      BY <1>t, <3>1, <3>3 DEF PoolTypeOK
    <3>5. /\ job'[t] = "down" /\ held'[t] = q
          /\ \A u \in Tids : u # t => job'[u] = job[u] /\ held'[u] = held[u]
      BY <1>t, <3>1, JobMoves DEF PoolTypeOK
    <3> QED
      BY <1>t, <2>1, <3>1, <3>4, <3>5 DEF PoolTyped
  <2>3. CASE ready[q] # 0
    <3>1. /\ scan' = [scan EXCEPT ![t] = NextPlace(@)]
          /\ UNCHANGED <<ready, size, held, job, queueVars, rxVars, wire, client, sendDue, poolHist>>
      BY <1>2, <2>3 DEF Claim
    <3>2. NextPlace(scan[t]) \in PoolPlaces
      <4>1. scan[t] \in PoolPlaces
        BY <1>t DEF PoolTypeOK
      <4> QED
        BY <4>1, PoolConstants DEF NextPlace, PoolPlaces
    <3>3. scan' \in [Tids -> PoolPlaces]
      BY <1>t, <3>1, <3>2 DEF PoolTypeOK
    <3>4. PoolTypeOK'
      BY <1>t, <3>1, <3>3 DEF PoolTypeOK
    <3> QED
      BY <1>t, <3>1, <3>4 DEF PoolTyped
  <2> QED
    BY <2>2, <2>3
<1>3. CASE SendDown(t)
  <2>1. job[t] = "down" /\ held[t] \in PoolPackets /\ client[t] \in Clients
    BY <1>3, <1>t DEF SendDown, Sending, Keeping
  <2>2. /\ sendDue' = sendDue \cup {client[t]} /\ held' = [held EXCEPT ![t] = NoPacket]
        /\ Goes(t, "idle")
        /\ lostInStack' = lostInStack \/ lostInStack' = lostInStack \cup {held[t]}
        /\ wire' = wire \/ wire' = [wire EXCEPT ![held[t]] = @ + 1]
        /\ ready' = ready \/ ready' = [ready EXCEPT ![held[t]] = 0]
        /\ UNCHANGED <<size, queueVars, rxVars, client, scan, crowded, poolKernels>>
    BY <1>3 DEF SendDown
  <2>3. /\ sendDue' \subseteq Clients /\ lostInStack' \subseteq PoolPackets
        /\ wire' \in [PoolPackets -> Nat] /\ ready' \in [PoolPackets -> {0, 1}]
    BY <1>t, <2>1, <2>2 DEF PoolTypeOK
  <2>4. held' \in [Tids -> PoolPackets \cup {NoPacket}] /\ job' \in [Tids -> Jobs]
    BY <1>t, <2>2 DEF PoolTypeOK, Goes
  <2>5. PoolTypeOK'
    BY <1>t, <2>2, <2>3, <2>4 DEF PoolTypeOK
  <2>6. job'[t] = "idle" /\ \A u \in Tids : u # t => job'[u] = job[u] /\ held'[u] = held[u]
    BY <1>t, <2>2, JobMoves DEF PoolTypeOK
  <2> QED
    BY <1>t, <2>2, <2>5, <2>6 DEF PoolTyped, Sending, Keeping, Receiving
<1>4. CASE RoomTest(t)
  <2>1. /\ job[t] = "recv" /\ held[t] \in PoolPackets
        /\ \E w \in {"rear", "idle"} : Goes(t, w)
        /\ lostInStack' = lostInStack \/ lostInStack' = lostInStack \cup {held[t]}
        /\ UNCHANGED <<ready, size, held, queueVars, rxVars, wire, sendVars, crowded, poolKernels>>
    BY <1>4, <1>t DEF RoomTest, Keeping, Receiving
  <2>2. job' \in [Tids -> Jobs] /\ lostInStack' \subseteq PoolPackets
    BY <1>t, <2>1 DEF PoolTypeOK, Goes
  <2>3. PoolTypeOK'
    BY <1>t, <2>1, <2>2 DEF PoolTypeOK
  <2>4. /\ job'[t] \in {"rear", "idle"} /\ \A u \in Tids : u # t => job'[u] = job[u]
    BY <1>t, <2>1, JobMoves
  <2> QED
    BY <1>t, <2>1, <2>3, <2>4 DEF PoolTyped, Sending, Keeping, Receiving
<1>5. CASE AddReadRear(t)
  <2>1. job' \in [Tids -> Jobs] /\ rearCopy' \in [Tids -> Nat]
    BY <1>5, <1>t DEF AddReadRear, PoolTypeOK, Goes
  <2>2. PoolTypeOK'
    BY <1>5, <1>t, <2>1 DEF AddReadRear, PoolTypeOK
  <2>3. job[t] = "rear" /\ job'[t] = "front" /\ \A u \in Tids : u # t => job'[u] = job[u]
    BY <1>5, <1>t, JobMoves DEF AddReadRear
  <2> QED
    BY <1>5, <1>t, <2>2, <2>3 DEF AddReadRear, PoolTyped, Sending, Keeping, Receiving
<1>6. CASE AddReadFront(t)
  <2>1. job' \in [Tids -> Jobs] /\ frontCopy' \in [Tids -> Nat]
    BY <1>6, <1>t DEF AddReadFront, PoolTypeOK, Goes
  <2>2. PoolTypeOK'
    BY <1>6, <1>t, <2>1 DEF AddReadFront, PoolTypeOK
  <2>3. job[t] = "front" /\ job'[t] = "add" /\ \A u \in Tids : u # t => job'[u] = job[u]
    BY <1>6, <1>t, JobMoves DEF AddReadFront
  <2> QED
    BY <1>6, <1>t, <2>2, <2>3 DEF AddReadFront, PoolTyped, Sending, Keeping, Receiving
<1>7. CASE AddFull(t)
  <2>1. job' \in [Tids -> Jobs] /\ ready' \in [PoolPackets -> {0, 1}]
    BY <1>7, <1>t DEF AddFull, PoolTypeOK, Goes
  <2>2. PoolTypeOK'
    BY <1>7, <1>t, <2>1 DEF AddFull, PoolTypeOK
  <2>3. job'[t] = "idle" /\ \A u \in Tids : u # t => job'[u] = job[u]
    BY <1>7, <1>t, JobMoves DEF AddFull
  <2> QED
    BY <1>7, <1>t, <2>2, <2>3 DEF AddFull, PoolTyped, Sending, Keeping, Receiving
<1>8. CASE AddClaim(t)
  <2>1. /\ job[t] = "add" /\ \E w \in {"store", "rear"} : Goes(t, w)
        /\ qRear' = qRear \/ qRear' = qRear + 1
        /\ UNCHANGED <<ready, size, held, pairs, qFront, rearCopy, frontCopy, rxVars, wire,
                       sendVars, poolHist>>
    BY <1>8 DEF AddClaim
  <2>2. job' \in [Tids -> Jobs] /\ qRear' \in Nat
    BY <1>t, <2>1 DEF PoolTypeOK, Goes
  <2>3. PoolTypeOK'
    BY <1>t, <2>1, <2>2 DEF PoolTypeOK
  <2>4. job'[t] \in {"store", "rear"} /\ \A u \in Tids : u # t => job'[u] = job[u]
    BY <1>t, <2>1, JobMoves
  <2> QED
    BY <1>t, <2>1, <2>3, <2>4 DEF PoolTyped, Sending, Keeping, Receiving
<1>9. CASE AddStore(t)
  <2>1. job[t] = "store" /\ held[t] \in PoolPackets
    BY <1>9, <1>t DEF AddStore, Keeping, Receiving
  <2>2. job' \in [Tids -> Jobs] /\ pairs' \in [QueueSlots -> PoolPackets \cup {NoPacket}]
    BY <1>9, <1>t, <2>1 DEF AddStore, PoolTypeOK, Goes
  <2>3. PoolTypeOK'
    BY <1>9, <1>t, <2>2 DEF AddStore, PoolTypeOK
  <2>4. job'[t] = "account" /\ \A u \in Tids : u # t => job'[u] = job[u]
    BY <1>9, <1>t, JobMoves DEF AddStore
  <2> QED
    BY <1>9, <1>t, <2>1, <2>3, <2>4 DEF AddStore, PoolTyped, Sending, Keeping, Receiving
<1>10. CASE Account(t)
  <2>1. job[t] = "account" /\ held[t] \in PoolPackets
    BY <1>10, <1>t DEF Account, Keeping, Receiving
  <2>2. m_rxAvailable' \in 0 .. WordSize - 1
    BY <1>10, <1>t, <2>1, PoolConstants DEF Account, PoolTypeOK
  <2>3. job' \in [Tids -> Jobs]
    BY <1>10, <1>t DEF Account, Goes
  <2>4. PoolTypeOK'
    BY <1>10, <1>t, <2>2, <2>3 DEF Account, PoolTypeOK
  <2>5. job'[t] = "read" /\ \A u \in Tids : u # t => job'[u] = job[u]
    BY <1>10, <1>t, JobMoves DEF Account
  <2> QED
    BY <1>10, <1>t, <2>1, <2>4, <2>5 DEF Account, PoolTyped, Sending, Keeping, Receiving
<1>11. CASE RecvEmpty(t)
  <2>1. /\ job[t] = "read" /\ \E w \in {"idle", "pop"} : Goes(t, w)
        /\ rearCopy' = rearCopy \/ rearCopy' = [rearCopy EXCEPT ![t] = qRear]
        /\ UNCHANGED <<ready, size, held, pairs, qFront, qRear, frontCopy, rxVars, wire, sendVars,
                       poolHist>>
    BY <1>11 DEF RecvEmpty
  <2>2. job' \in [Tids -> Jobs] /\ rearCopy' \in [Tids -> Nat]
    BY <1>t, <2>1 DEF PoolTypeOK, Goes
  <2>3. PoolTypeOK'
    BY <1>t, <2>1, <2>2 DEF PoolTypeOK
  <2>4. job'[t] \in {"idle", "pop"} /\ \A u \in Tids : u # t => job'[u] = job[u]
    BY <1>t, <2>1, JobMoves
  <2> QED
    BY <1>t, <2>1, <2>3, <2>4 DEF PoolTyped, Sending, Keeping, Receiving
<1>12. CASE PopClaim(t)
  <2>1. /\ job[t] = "pop" /\ \E w \in {"idle", "take"} : Goes(t, w)
        /\ frontCopy' = [frontCopy EXCEPT ![t] = qFront]
        /\ qFront' = qFront \/ qFront' = qFront + 1
        /\ UNCHANGED <<ready, size, held, pairs, qRear, rearCopy, rxVars, wire, sendVars, poolHist>>
    BY <1>12 DEF PopClaim
  <2>2. job' \in [Tids -> Jobs] /\ frontCopy' \in [Tids -> Nat] /\ qFront' \in Nat
    BY <1>t, <2>1 DEF PoolTypeOK, Goes
  <2>3. PoolTypeOK'
    BY <1>t, <2>1, <2>2 DEF PoolTypeOK
  <2>4. job'[t] \in {"idle", "take"} /\ \A u \in Tids : u # t => job'[u] = job[u]
    BY <1>t, <2>1, JobMoves
  <2> QED
    BY <1>t, <2>1, <2>3, <2>4 DEF PoolTyped, Sending, Keeping, Receiving
<1>13. CASE CudaRecv(t)
  <2>0. PICK q : q = pairs[frontCopy[t] % QueueCapacity]
    OBVIOUS
  <2>1. q \in PoolPackets \cup {NoPacket}
    <3>1. frontCopy[t] % QueueCapacity \in QueueSlots
      BY <1>t, PoolConstants DEF PoolTypeOK, QueueSlots
    <3> QED
      BY <1>t, <2>0, <3>1 DEF PoolTypeOK
  <2>2. /\ job[t] = "take"
        /\ UNCHANGED <<ready, size, queueVars, m_received, wire, sendVars, poolHist>>
        /\ \/ q = NoPacket /\ Goes(t, "idle") /\ UNCHANGED <<held, m_rxAvailable>>
           \/ /\ q # NoPacket /\ held' = [held EXCEPT ![t] = q]
              /\ m_rxAvailable' = Drained(q) /\ Goes(t, "release")
    BY <1>13, <2>0 DEF CudaRecv
  <2>3. q # NoPacket => Drained(q) \in 0 .. WordSize - 1
    BY <1>t, <2>1, PoolConstants DEF Drained, PoolTypeOK
  <2>4. /\ job' \in [Tids -> Jobs] /\ held' \in [Tids -> PoolPackets \cup {NoPacket}]
        /\ m_rxAvailable' \in 0 .. WordSize - 1
    BY <1>t, <2>1, <2>2, <2>3 DEF PoolTypeOK, Goes
  <2>5. PoolTypeOK'
    BY <1>t, <2>2, <2>4 DEF PoolTypeOK
  <2>6. /\ job'[t] = "idle" \/ (job'[t] = "release" /\ held'[t] \in PoolPackets)
        /\ \A u \in Tids : u # t => job'[u] = job[u] /\ held'[u] = held[u]
    BY <1>t, <2>1, <2>2, JobMoves DEF PoolTypeOK
  <2> QED
    BY <1>t, <2>2, <2>5, <2>6 DEF PoolTyped, Sending, Keeping, Receiving
<1>14. CASE HandleRead(t)
  <2>1. /\ job' \in [Tids -> Jobs] /\ ready' \in [PoolPackets -> {0, 1}] /\ m_received' \in Nat
    <3>1. job' \in [Tids -> Jobs]
      BY <1>14, <1>t DEF HandleRead, Goes
    <3>2. ready' \in [PoolPackets -> {0, 1}]
      BY <1>14, <1>t DEF HandleRead, PoolTypeOK
    <3>3. m_received' \in Nat
      BY <1>14, <1>t DEF HandleRead, PoolTypeOK
    <3> QED
      BY <3>1, <3>2, <3>3
  <2>2. PoolTypeOK'
    BY <1>14, <1>t, <2>1 DEF HandleRead, PoolTypeOK
  <2>3. job'[t] = "idle" /\ \A u \in Tids : u # t => job'[u] = job[u]
    BY <1>14, <1>t, JobMoves DEF HandleRead
  <2> QED
    BY <1>14, <1>t, <2>2, <2>3 DEF HandleRead, PoolTyped, Sending, Keeping, Receiving
<1> QED
  BY <1>1, <1>2, <1>3, <1>4, <1>5, <1>6, <1>7, <1>8, <1>9, <1>10, <1>11, <1>12, <1>13, <1>14
  DEF PoolStep

LEMMA PoolStepCounts ==
  ASSUME PoolTyped, QueueCounts, NEW t \in Tids, PoolStep(t) PROVE QueueCounts'
<1>t. PoolTypeOK
  BY DEF PoolTyped
<1> USE DEF queueVars
<1>1. CASE SendTest(t)
  <2>1. \E w \in {"idle", "claim"} : Goes(t, w)
    BY <1>1 DEF SendTest
  <2> QED
    BY <1>1, <1>t, <2>1, SameCounts DEF SendTest
<1>2. CASE Claim(t)
  <2>1. CASE Goes(t, "down")
    BY <1>2, <1>t, <2>1, SameCounts DEF Claim
  <2>2. CASE job' = job
    BY <1>2, <2>2 DEF Claim, QueueCounts, Owed
  <2> QED
    BY <1>2, <2>1, <2>2 DEF Claim
<1>3. CASE SendDown(t)
  BY <1>3, <1>t, SameCounts DEF SendDown
<1>4. CASE RoomTest(t)
  <2>1. \E w \in {"idle", "rear"} : Goes(t, w)
    BY <1>4 DEF RoomTest
  <2> QED
    BY <1>4, <1>t, <2>1, SameCounts DEF RoomTest
<1>5. CASE AddReadRear(t)
  <2>1. /\ job'[t] = "front" /\ rearCopy'[t] = qRear /\ job[t] = "rear"
        /\ \A u \in Tids : u # t => job'[u] = job[u] /\ rearCopy'[u] = rearCopy[u]
    BY <1>5, <1>t, JobMoves DEF AddReadRear, PoolTypeOK
  <2>2. Owed' = Owed
    BY <2>1 DEF Owed
  <2>3. Cardinality(Owed)' = Cardinality(Owed)
    BY <2>2
  <2>4. qRear \in Nat /\ qRear' = qRear /\ qFront' = qFront /\ frontCopy' = frontCopy
    BY <1>5, <1>t DEF AddReadRear, PoolTypeOK
  <2> QED
    BY <2>1, <2>3, <2>4 DEF QueueCounts
<1>6. CASE AddReadFront(t)
  <2>1. /\ job'[t] = "add" /\ frontCopy'[t] = qFront /\ job[t] = "front"
        /\ \A u \in Tids : u # t => job'[u] = job[u] /\ frontCopy'[u] = frontCopy[u]
    BY <1>6, <1>t, JobMoves DEF AddReadFront, PoolTypeOK
  <2>2. Owed' = Owed
    BY <2>1 DEF Owed
  <2>3. Cardinality(Owed)' = Cardinality(Owed)
    BY <2>2
  <2>4. qFront \in Nat /\ qRear' = qRear /\ qFront' = qFront /\ rearCopy' = rearCopy
    BY <1>6, <1>t DEF AddReadFront, PoolTypeOK
  <2> QED
    BY <2>1, <2>3, <2>4 DEF QueueCounts
<1>7. CASE AddFull(t)
  BY <1>7, <1>t, SameCounts DEF AddFull
<1>8. CASE AddClaim(t)
  <2>1. CASE qRear = rearCopy[t]
    <3>1. /\ qRear' = qRear + 1 /\ Goes(t, "store") /\ job[t] = "add" /\ ~QueueFull(t)
          /\ qFront' = qFront /\ rearCopy' = rearCopy /\ frontCopy' = frontCopy
      BY <1>8, <2>1 DEF AddClaim
    <3>2. job'[t] = "store" /\ \A u \in Tids : u # t => job'[u] = job[u]
      BY <1>t, <3>1, JobMoves
    <3>3. Owed' = Owed \cup {t} /\ t \notin Owed
      BY <3>1, <3>2 DEF Owed
    <3>4. Cardinality(Owed') = Cardinality(Owed) + 1
      BY <3>3, OwedFinite, FS_AddElement
    <3>5. qRear < qFront + QueueCapacity
      <4>1. /\ frontCopy[t] <= qFront /\ rearCopy[t] <= frontCopy[t] + QueueCapacity
            /\ qFront \in Nat /\ qRear \in Nat /\ frontCopy[t] \in Nat
            /\ rearCopy[t] \in Nat
        BY <1>t, <3>1 DEF QueueCounts, PoolTypeOK
      <4>2. qFront <= qRear
        BY <4>1, OwedFinite DEF QueueCounts
      <4>3. rearCopy[t] - frontCopy[t] \in 0 .. QueueCapacity
        BY <2>1, <4>1, <4>2, PoolConstants
      <4>4. (rearCopy[t] - frontCopy[t]) % WordSize = rearCopy[t] - frontCopy[t]
        BY <4>3, PoolConstants
      <4>5. rearCopy[t] - frontCopy[t] < QueueCapacity
        BY <3>1, <4>3, <4>4, PoolConstants DEF QueueFull
      <4> QED
        BY <2>1, <4>1, <4>5, PoolConstants
    <3>6. PICK n \in Nat : n = Cardinality(Owed)
      BY OwedFinite
    <3>7. qFront' + (n + 1) <= qRear' /\ qRear' <= qFront' + QueueCapacity
      BY <1>t, <3>1, <3>5, <3>6, PoolConstants DEF QueueCounts, PoolTypeOK
    <3>8. \A u \in Tids :
           /\ job'[u] \in {"front", "add"} => rearCopy'[u] <= qRear'
           /\ job'[u] = "front" => rearCopy'[u] <= qFront' + QueueCapacity
           /\ job'[u] = "add" => frontCopy'[u] <= qFront' /\ rearCopy'[u] <= frontCopy'[u] + QueueCapacity
      BY <1>t, <3>1, <3>2 DEF QueueCounts, PoolTypeOK
    <3> QED
      BY <3>4, <3>6, <3>7, <3>8 DEF QueueCounts
  <2>2. CASE qRear # rearCopy[t]
    BY <1>8, <1>t, <2>2, SameCounts DEF AddClaim
  <2> QED
    BY <2>1, <2>2
<1>9. CASE AddStore(t)
  BY <1>9, <1>t, SameCounts DEF AddStore, Owed
<1>10. CASE Account(t)
  BY <1>10, <1>t, SameCounts DEF Account, Owed
<1>11. CASE RecvEmpty(t)
  <2>1. /\ job[t] = "read" /\ \E w \in {"idle", "pop"} : Goes(t, w)
        /\ rearCopy' = rearCopy \/ rearCopy' = [rearCopy EXCEPT ![t] = qRear]
        /\ UNCHANGED <<qFront, qRear, frontCopy>>
    BY <1>11 DEF RecvEmpty
  <2>2. \A u \in Tids : u # t => rearCopy'[u] = rearCopy[u] /\ frontCopy'[u] = frontCopy[u]
    BY <1>t, <2>1 DEF PoolTypeOK
  <2>3. t \in Owed
    BY <2>1 DEF Owed
  <2> QED
    BY <1>t, <2>1, <2>2, <2>3, SameCounts
<1>12. CASE PopClaim(t)
  <2>1. /\ job[t] = "pop" /\ frontCopy' = [frontCopy EXCEPT ![t] = qFront]
        /\ qRear' = qRear /\ rearCopy' = rearCopy
    BY <1>12 DEF PopClaim
  <2>2. \A u \in Tids : u # t => rearCopy'[u] = rearCopy[u] /\ frontCopy'[u] = frontCopy[u]
    BY <1>t, <2>1 DEF PoolTypeOK
  <2>3. CASE rearCopy[t] = qFront
    BY <1>12, <1>t, <2>1, <2>2, <2>3, SameCounts DEF PopClaim
  <2>4. CASE rearCopy[t] # qFront
    <3>1. qFront' = qFront + 1 /\ Goes(t, "take")
      BY <1>12, <2>4 DEF PopClaim
    <3>2. job'[t] = "take" /\ \A u \in Tids : u # t => job'[u] = job[u]
      BY <1>t, <3>1, JobMoves
    <3>3. Owed' = Owed \ {t} /\ t \in Owed
      BY <2>1, <3>2 DEF Owed
    <3>4. Cardinality(Owed') = Cardinality(Owed) - 1 /\ Cardinality(Owed') \in Nat
      BY <3>3, OwedFinite, FS_RemoveElement, FS_CardinalityType
    <3>5. PICK n \in Nat : n = Cardinality(Owed')
      BY <3>4
    <3>6. qFront' + n <= qRear' /\ qRear' <= qFront' + QueueCapacity
      BY <1>t, <2>1, <3>1, <3>4, <3>5, OwedFinite, PoolConstants DEF QueueCounts, PoolTypeOK
    <3>7. \A u \in Tids :
           /\ job'[u] \in {"front", "add"} => rearCopy'[u] <= qRear'
           /\ job'[u] = "front" => rearCopy'[u] <= qFront' + QueueCapacity
           /\ job'[u] = "add" => frontCopy'[u] <= qFront' /\ rearCopy'[u] <= frontCopy'[u] + QueueCapacity
      BY <1>t, <2>1, <2>2, <3>1, <3>2, PoolConstants DEF QueueCounts, PoolTypeOK
    <3> QED
      BY <3>5, <3>6, <3>7 DEF QueueCounts
  <2> QED
    BY <2>3, <2>4
<1>13. CASE CudaRecv(t)
  <2>1. \E w \in {"idle", "release"} : Goes(t, w)
    BY <1>13 DEF CudaRecv
  <2> QED
    BY <1>13, <1>t, <2>1, SameCounts DEF CudaRecv
<1>14. CASE HandleRead(t)
  BY <1>14, <1>t, SameCounts DEF HandleRead
<1> QED
  BY <1>1, <1>2, <1>3, <1>4, <1>5, <1>6, <1>7, <1>8, <1>9, <1>10, <1>11, <1>12, <1>13, <1>14
  DEF PoolStep

----------------------------------------------------------------------------
(* The pools: the steps of an uncrowded kernel.                            *)

\* A thread goes on with its packet, or without one.
LEMMA KeptOn ==
  ASSUME PoolTyped, OneHome, NEW t \in Tids, NEW w, Goes(t, w), w \in Keeping <=> job[t] \in Keeping,
         held' = held, ready' = ready, wire' = wire, lostInStack' = lostInStack
  PROVE  OneHome'
<1>1. job'[t] = w /\ \A u \in Tids : u # t => job'[u] = job[u]
  BY JobMoves DEF PoolTyped
<1>2. \A u \in Tids : job'[u] \in Keeping <=> job[u] \in Keeping
  BY <1>1
<1>3. \A u \in Tids : \A q : Keeps(u, q)' <=> Keeps(u, q)
  BY <1>2 DEF Keeps
<1>4. \A q \in PoolPackets :
       /\ wire'[q] \in {0, 1}
       /\ ready'[q] = 1 <=> wire'[q] = 1 \/ q \in lostInStack' \/ \E u \in Tids : Keeps(u, q)'
       /\ wire'[q] = 1 => q \notin lostInStack' /\ \A u \in Tids : ~Keeps(u, q)'
       /\ q \in lostInStack' => \A u \in Tids : ~Keeps(u, q)'
  BY <1>3 DEF OneHome
<1> QED
  BY <1>2, <1>4 DEF OneHome

\* A thread gives its packet away: to the wire, to nobody, or back.
LEMMA LetGo ==
  ASSUME PoolTyped, OneHome, NEW t \in Tids, NEW q \in PoolPackets, q = held[t], job[t] \in Keeping,
         Goes(t, "idle"), \A u \in Tids : u # t => held'[u] = held[u],
         \/ ready' = [ready EXCEPT ![q] = 0] /\ wire' = wire /\ lostInStack' = lostInStack
         \/ wire' = [wire EXCEPT ![q] = @ + 1] /\ ready' = ready /\ lostInStack' = lostInStack
         \/ lostInStack' = lostInStack \cup {q} /\ ready' = ready /\ wire' = wire
  PROVE  OneHome'
<1>1. job'[t] = "idle" /\ \A u \in Tids : u # t => job'[u] = job[u]
  BY JobMoves DEF PoolTyped
<1>2. Keeps(t, q) /\ \A u \in Tids : u # t => ~Keeps(u, q)
  BY DEF Keeps, OneHome
<1>4. \A u \in Tids : \A r : Keeps(u, r)' <=> Keeps(u, r) /\ u # t
  BY <1>1 DEF Keeps, Keeping, Receiving
<1>5. wire[q] = 0 /\ q \notin lostInStack /\ ready[q] = 1
  BY <1>2 DEF OneHome
<1>6. \A r \in PoolPackets : r # q =>
        wire'[r] = wire[r] /\ ready'[r] = ready[r] /\ (r \in lostInStack' <=> r \in lostInStack)
  BY DEF PoolTyped, PoolTypeOK
<1>7. \/ ready'[q] = 0 /\ wire'[q] = 0 /\ q \notin lostInStack'
      \/ ready'[q] = 1 /\ wire'[q] = 1 /\ q \notin lostInStack'
      \/ ready'[q] = 1 /\ wire'[q] = 0 /\ q \in lostInStack'
  BY <1>5 DEF PoolTyped, PoolTypeOK
<1>8. \A u \in Tids : ~Keeps(u, q)'
  BY <1>2, <1>4
<1>9. ASSUME NEW r \in PoolPackets, r # q
      PROVE  /\ wire'[r] \in {0, 1}
             /\ ready'[r] = 1 <=> wire'[r] = 1 \/ r \in lostInStack' \/ \E u \in Tids : Keeps(u, r)'
             /\ wire'[r] = 1 => r \notin lostInStack' /\ \A u \in Tids : ~Keeps(u, r)'
             /\ r \in lostInStack' => \A u \in Tids : ~Keeps(u, r)'
  <2>1. \A u \in Tids : Keeps(u, r)' <=> Keeps(u, r)
    BY <1>4, <1>9 DEF Keeps
  <2> QED
    BY <1>6, <1>9, <2>1 DEF OneHome
<1>10. \A u, v \in Tids :
         job'[u] \in Keeping /\ job'[v] \in Keeping /\ held'[u] = held'[v] => u = v
  BY <1>1 DEF OneHome, Keeping, Receiving
<1> QED
  BY <1>7, <1>8, <1>9, <1>10 DEF OneHome

\* A step of a thread that does not receive.
LEMMA NoReceiver ==
  ASSUME OneReceiver, QueueOfOne, Charged, NEW t \in Tids,
         job[t] \notin Receiving, job'[t] \notin Receiving,
         \A u \in Tids : u # t => job'[u] = job[u] /\ held'[u] = held[u],
         \A u \in Tids : job[u] \in Receiving => size'[held[u]] = size[held[u]],
         UNCHANGED <<pairs, qFront, qRear, rearCopy, frontCopy, m_rxAvailable>>
  PROVE  OneReceiver' /\ QueueOfOne' /\ Charged'
<1>1. \A u \in Tids : job'[u] \in Receiving \/ job[u] \in Receiving =>
        u # t /\ job'[u] = job[u] /\ held'[u] = held[u]
  OBVIOUS
<1>2. OneReceiver'
  BY <1>1 DEF OneReceiver
<1>3. QueueOfOne'
  BY <1>1 DEF QueueOfOne, Receiving
<1>4. Charged'
  BY <1>1 DEF Charged, Receiving
<1> QED
  BY <1>2, <1>3, <1>4

\* A step of the thread that receives, told by that thread alone.
Standing(t) ==
  /\ qRear = IF job[t] \in {"store", "account", "read", "pop"} THEN qFront + 1 ELSE qFront
  /\ job[t] = "store" => rearCopy[t] = qFront
  /\ job[t] \in {"account", "read", "pop"} => pairs[qFront % QueueCapacity] = held[t]
  /\ job[t] = "pop" => rearCopy[t] = qRear
  /\ job[t] = "take" => pairs[frontCopy[t] % QueueCapacity] = held[t]
  /\ m_rxAvailable = IF job[t] \in {"read", "pop", "take"} THEN size[held[t]] ELSE 0

LEMMA ReceiverStands ==
  ASSUME OneReceiver, QueueOfOne, Charged, NEW t \in Tids, job[t] \in Receiving
  PROVE  Standing(t) /\ \A u \in Tids : u # t => job[u] \notin Receiving
<1>1. \A u \in Tids : u # t => job[u] \notin Receiving
  BY DEF OneReceiver
<1> QED
  BY <1>1 DEF Standing, QueueOfOne, Charged, Receiving

LEMMA StandsEnough ==
  ASSUME NEW t \in Tids, Standing(t)', \A u \in Tids : u # t => job'[u] \notin Receiving
  PROVE  OneReceiver' /\ QueueOfOne' /\ Charged'
<1>1. OneReceiver'
  BY DEF OneReceiver
<1>2. QueueOfOne'
  BY DEF QueueOfOne, Standing, Receiving
<1>3. Charged'
  BY DEF Charged, Standing, Receiving
<1> QED
  BY <1>1, <1>2, <1>3

\* The threads that send do not disturb the one that receives.
LEMMA SenderKeeps ==
  ASSUME PoolTyped, Uncrowded, NEW t \in Tids, SendTest(t) \/ Claim(t) \/ SendDown(t)
  PROVE  Uncrowded'
<1>t. PoolTypeOK /\ OneReceiver /\ QueueOfOne /\ Charged /\ OneHome
  BY DEF PoolTyped, Uncrowded
<1> USE DEF queueVars, rxVars, sendVars, poolHist
<1>1. CASE SendTest(t)
  <2>1. /\ job[t] = "send"
        /\ UNCHANGED <<ready, size, held, pairs, qFront, qRear, rearCopy, frontCopy, m_rxAvailable,
                       wire, lostInStack>>
    BY <1>1 DEF SendTest
  <2>2. PICK w \in {"idle", "claim"} : Goes(t, w)
    BY <1>1 DEF SendTest
  <2>3. job'[t] = w /\ \A u \in Tids : u # t => job'[u] = job[u]
    BY <1>t, <2>2, JobMoves
  <2>4. /\ job[t] \notin Receiving /\ job'[t] \notin Receiving
        /\ job[t] \notin Keeping /\ w \notin Keeping
    BY <2>1, <2>2, <2>3 DEF Receiving, Keeping
  <2>5. OneReceiver' /\ QueueOfOne' /\ Charged'
    BY <1>t, <2>1, <2>3, <2>4, NoReceiver
  <2>6. OneHome'
    BY <1>t, <2>1, <2>2, <2>4, KeptOn
  <2> QED
    BY <2>5, <2>6 DEF Uncrowded
<1>2. CASE Claim(t)
  <2>0. PICK q : q = <<t, scan[t]>>
    OBVIOUS
  <2>1. q \in PoolPackets /\ job[t] = "claim"
    BY <1>2, <1>t, <2>0 DEF Claim, PoolTypeOK, PoolPackets
  <2>2. CASE ready[q] = 0
    <3>1. /\ ready' = [ready EXCEPT ![q] = 1] /\ size' = [size EXCEPT ![q] = SizeOf[client[t]]]
          /\ held' = [held EXCEPT ![t] = q] /\ Goes(t, "down")
          /\ UNCHANGED <<pairs, qFront, qRear, rearCopy, frontCopy, m_rxAvailable, wire, lostInStack>>
      BY <1>2, <2>0, <2>2 DEF Claim
    <3>2. /\ job'[t] = "down" /\ held'[t] = q
          /\ \A u \in Tids : u # t => job'[u] = job[u] /\ held'[u] = held[u]
      BY <1>t, <3>1, JobMoves DEF PoolTypeOK
    <3>3. /\ wire[q] = 0 /\ q \notin lostInStack
          /\ \A u \in Tids : ~Keeps(u, q)
      BY <1>t, <2>1, <2>2 DEF OneHome
    <3>4. \A u \in Tids : job[u] \in Receiving => held[u] # q
      BY <3>3 DEF Keeps, Keeping
    <3>5. \A u \in Tids : job[u] \in Receiving => size'[held[u]] = size[held[u]]
      <4>1. \A u \in Tids : job[u] \in Receiving => held[u] \in PoolPackets
        BY DEF PoolTyped, Keeping
      <4> QED
        BY <1>t, <3>1, <3>4, <4>1 DEF PoolTypeOK
    <3>6. OneReceiver' /\ QueueOfOne' /\ Charged'
      <4>1. job[t] \notin Receiving /\ job'[t] \notin Receiving
        BY <2>1, <3>2 DEF Receiving
      <4> QED
        BY <1>t, <3>1, <3>2, <3>5, <4>1, NoReceiver
    <3>7. \A u \in Tids : \A r : Keeps(u, r)' <=> IF u = t THEN r = q ELSE Keeps(u, r)
      BY <3>2 DEF Keeps, Keeping
    <3>8. \A r : ~Keeps(t, r)
      BY <2>1 DEF Keeps, Keeping, Receiving
    <3>9. /\ ready'[q] = 1 /\ wire'[q] = 0 /\ q \notin lostInStack'
          /\ \A r \in PoolPackets : r # q => wire'[r] = wire[r] /\ ready'[r] = ready[r]
          /\ lostInStack' = lostInStack
      BY <1>t, <2>1, <3>1, <3>3 DEF PoolTypeOK
    <3>10. ASSUME NEW r \in PoolPackets
           PROVE  /\ wire'[r] \in {0, 1}
                  /\ ready'[r] = 1 <=> wire'[r] = 1 \/ r \in lostInStack' \/ \E u \in Tids : Keeps(u, r)'
                  /\ wire'[r] = 1 => r \notin lostInStack' /\ \A u \in Tids : ~Keeps(u, r)'
                  /\ r \in lostInStack' => \A u \in Tids : ~Keeps(u, r)'
      <4>1. CASE r = q
        BY <3>7, <3>9, <4>1
      <4>2. CASE r # q
        <5>1. \A u \in Tids : Keeps(u, r)' <=> Keeps(u, r)
          BY <3>7, <3>8, <4>2
        <5> QED
          BY <1>t, <3>9, <4>2, <5>1 DEF OneHome
      <4> QED
        BY <4>1, <4>2
    <3>11. \A u, v \in Tids :
             job'[u] \in Keeping /\ job'[v] \in Keeping /\ held'[u] = held'[v] => u = v
      <4>1. \A u \in Tids : u # t /\ job'[u] \in Keeping => held'[u] # q
        BY <3>2, <3>3 DEF Keeps
      <4> QED
        BY <1>t, <3>2, <4>1 DEF OneHome
    <3> QED
      BY <3>6, <3>10, <3>11 DEF Uncrowded, OneHome
  <2>3. CASE ready[q] # 0
    <3>1. /\ UNCHANGED <<ready, size, held, job, pairs, qFront, qRear, rearCopy, frontCopy, m_rxAvailable,
                         wire, lostInStack>>
      BY <1>2, <2>0, <2>3 DEF Claim
    <3> QED
      BY <1>t, <3>1 DEF Uncrowded, OneReceiver, QueueOfOne, Charged, OneHome, Keeps
  <2> QED
    BY <2>2, <2>3
<1>3. CASE SendDown(t)
  <2>0. PICK q : q = held[t]
    OBVIOUS
  <2>1. job[t] = "down" /\ q \in PoolPackets
    BY <1>3, <2>0 DEF SendDown, PoolTyped, Keeping
  <2>2. /\ held' = [held EXCEPT ![t] = NoPacket] /\ Goes(t, "idle")
        /\ UNCHANGED <<size, pairs, qFront, qRear, rearCopy, frontCopy, m_rxAvailable>>
    BY <1>3 DEF SendDown
  <2>3. \/ ready' = [ready EXCEPT ![q] = 0] /\ wire' = wire /\ lostInStack' = lostInStack
        \/ wire' = [wire EXCEPT ![q] = @ + 1] /\ ready' = ready /\ lostInStack' = lostInStack
        \/ lostInStack' = lostInStack \cup {q} /\ ready' = ready /\ wire' = wire
    BY <1>3, <2>0 DEF SendDown
  <2>4. /\ job'[t] = "idle"
        /\ \A u \in Tids : u # t => job'[u] = job[u] /\ held'[u] = held[u]
    BY <1>t, <2>2, JobMoves DEF PoolTypeOK
  <2>5. job[t] \notin Receiving /\ job'[t] \notin Receiving /\ job[t] \in Keeping
    BY <2>1, <2>4 DEF Receiving, Keeping
  <2>6. OneReceiver' /\ QueueOfOne' /\ Charged'
    BY <1>t, <2>2, <2>4, <2>5, NoReceiver
  <2>7. OneHome'
    BY <1>t, <2>0, <2>1, <2>2, <2>3, <2>4, <2>5, LetGo
  <2> QED
    BY <2>6, <2>7 DEF Uncrowded
<1> QED
  BY <1>1, <1>2, <1>3

\* The one thread that receives finds its own packet in the queue.
LEMMA ReceiverKeeps ==
  ASSUME PoolTyped, Uncrowded, NEW t \in Tids,
         \/ RoomTest(t) \/ AddReadRear(t) \/ AddReadFront(t) \/ AddFull(t) \/ AddClaim(t)
         \/ AddStore(t) \/ Account(t) \/ RecvEmpty(t) \/ PopClaim(t) \/ CudaRecv(t) \/ HandleRead(t)
  PROVE  Uncrowded'
<1>t. PoolTypeOK /\ OneReceiver /\ QueueOfOne /\ Charged /\ OneHome
  BY DEF PoolTyped, Uncrowded
<1>r. job[t] \in Receiving /\ job[t] \in Keeping
  BY DEF RoomTest, AddReadRear, AddReadFront, AddFull, AddClaim, AddStore, Account, RecvEmpty,
         PopClaim, CudaRecv, HandleRead, Receiving, Keeping
<1>s. Standing(t) /\ \A u \in Tids : u # t => job[u] \notin Receiving
  BY <1>t, <1>r, ReceiverStands
<1>q. PICK q \in PoolPackets : q = held[t]
  BY <1>r DEF PoolTyped
<1>i. ready[q] = 1
  BY <1>t, <1>r, <1>q DEF OneHome, Keeps
<1>n. /\ qFront \in Nat /\ qRear \in Nat /\ rearCopy \in [Tids -> Nat] /\ frontCopy \in [Tids -> Nat]
      /\ pairs \in [QueueSlots -> PoolPackets \cup {NoPacket}] /\ size[q] \in 0 .. WordSize - 1
      /\ held \in [Tids -> PoolPackets \cup {NoPacket}]
      /\ qFront % QueueCapacity \in QueueSlots
  <2>1. qFront \in Nat
    BY <1>t DEF PoolTypeOK
  <2>2. qFront % QueueCapacity \in QueueSlots
    BY <2>1, PoolConstants DEF QueueSlots
  <2> QED
    BY <1>t, <2>2 DEF PoolTypeOK
<1> USE DEF queueVars, rxVars, sendVars, poolHist
\* It is enough to follow the thread and its packet.
<1>g. ASSUME NEW w, Goes(t, w), Standing(t)', OneHome' PROVE Uncrowded'
  <2>1. \A u \in Tids : u # t => job'[u] \notin Receiving
    BY <1>t, <1>s, <1>g, JobMoves
  <2> QED
    BY <1>g, <2>1, StandsEnough DEF Uncrowded
<1>k. ASSUME NEW w \in Receiving, Goes(t, w), Standing(t)',
             held' = held, ready' = ready, wire' = wire, lostInStack' = lostInStack
      PROVE  Uncrowded'
  <2>1. w \in Keeping <=> job[t] \in Keeping
    BY <1>r DEF Keeping
  <2>2. OneHome'
    BY <1>t, <1>k, <2>1, KeptOn
  <2> QED
    BY <1>g, <1>k, <2>2
<1>l. ASSUME Goes(t, "idle"), Standing(t)', held' = held, wire' = wire,
             \/ ready' = [ready EXCEPT ![q] = 0] /\ lostInStack' = lostInStack
             \/ lostInStack' = lostInStack \cup {q} /\ ready' = ready
      PROVE  Uncrowded'
  <2>1. OneHome'
    BY <1>t, <1>r, <1>q, <1>l, LetGo
  <2> QED
    BY <1>g, <1>l, <2>1
<1>1. CASE RoomTest(t)
  <2>1. /\ job[t] = "recv"
        /\ UNCHANGED <<ready, held, wire, pairs, qFront, qRear, rearCopy, frontCopy, m_rxAvailable>>
        /\ \/ Goes(t, "rear") /\ lostInStack' = lostInStack
           \/ Goes(t, "idle") /\ lostInStack' = lostInStack \cup {q}
    BY <1>1, <1>q, <1>i DEF RoomTest
  <2>2. CASE Goes(t, "rear") /\ lostInStack' = lostInStack
    <3>1. Standing(t)'
      BY <1>t, <1>s, <2>1, <2>2, JobMoves DEF Standing
    <3> QED
      BY <1>k, <2>1, <2>2, <3>1 DEF Receiving
  <2>3. CASE Goes(t, "idle") /\ lostInStack' = lostInStack \cup {q}
    <3>1. Standing(t)'
      BY <1>t, <1>s, <2>1, <2>3, JobMoves DEF Standing
    <3> QED
      BY <1>l, <2>1, <2>3, <3>1
  <2> QED
    BY <2>1, <2>2, <2>3
<1>2. CASE AddReadRear(t)
  <2>1. Standing(t)'
    BY <1>2, <1>t, <1>s, JobMoves DEF AddReadRear, Standing
  <2> QED
    BY <1>2, <1>k, <2>1 DEF AddReadRear, Receiving
<1>3. CASE AddReadFront(t)
  <2>1. Standing(t)'
    BY <1>3, <1>t, <1>s, JobMoves DEF AddReadFront, Standing
  <2> QED
    BY <1>3, <1>k, <2>1 DEF AddReadFront, Receiving
<1>4. CASE AddFull(t)
  <2>1. Standing(t)'
    BY <1>4, <1>t, <1>s, JobMoves DEF AddFull, Standing
  <2> QED
    BY <1>4, <1>l, <1>q, <2>1 DEF AddFull
<1>5. CASE AddClaim(t)
  <2>1. CASE qRear = rearCopy[t]
    <3>1. Standing(t)'
      BY <1>5, <1>t, <1>s, <2>1, JobMoves DEF AddClaim, Standing
    <3> QED
      BY <1>5, <1>k, <2>1, <3>1 DEF AddClaim, Receiving
  <2>2. CASE qRear # rearCopy[t]
    <3>1. Standing(t)'
      BY <1>5, <1>t, <1>s, <2>2, JobMoves DEF AddClaim, Standing
    <3> QED
      BY <1>5, <1>k, <2>2, <3>1 DEF AddClaim, Receiving
  <2> QED
    BY <2>1, <2>2
<1>6. CASE AddStore(t)
  <2>1. /\ job[t] = "store" /\ Goes(t, "account") /\ rearCopy[t] = qFront
        /\ pairs' = [pairs EXCEPT ![qFront % QueueCapacity] = q]
        /\ UNCHANGED <<ready, held, wire, qFront, qRear, rearCopy, frontCopy, m_rxAvailable, lostInStack>>
    BY <1>6, <1>q, <1>s DEF AddStore, Standing
  <2>2. pairs'[qFront % QueueCapacity] = q /\ job'[t] = "account"
    BY <1>n, <1>t, <2>1, JobMoves
  <2>3. Standing(t)'
    BY <1>s, <1>q, <2>1, <2>2 DEF Standing
  <2> QED
    BY <1>k, <2>1, <2>3 DEF Receiving
<1>7. CASE Account(t)
  <2>1. /\ job[t] = "account" /\ Goes(t, "read") /\ m_rxAvailable = 0
        /\ m_rxAvailable' = (m_rxAvailable + size[q]) % WordSize
        /\ UNCHANGED <<ready, size, held, wire, pairs, qFront, qRear, rearCopy, frontCopy, lostInStack>>
    BY <1>7, <1>q, <1>s DEF Account, Standing
  <2>2. (0 + size[q]) % WordSize = size[q]
    BY <1>n, PoolConstants
  <2>3. job'[t] = "read" /\ m_rxAvailable' = size[q]
    BY <1>t, <2>1, <2>2, JobMoves
  <2>4. Standing(t)'
    BY <1>s, <1>q, <2>1, <2>3 DEF Standing
  <2> QED
    BY <1>k, <2>1, <2>4 DEF Receiving
<1>8. CASE RecvEmpty(t)
  <2>1. job[t] = "read" /\ qRear = qFront + 1
    BY <1>8, <1>s DEF RecvEmpty, Standing
  <2>2. qFront # qRear
    BY <1>n, <2>1
  <2>3. /\ Goes(t, "pop") /\ rearCopy' = [rearCopy EXCEPT ![t] = qRear]
        /\ UNCHANGED <<ready, size, held, wire, pairs, qFront, qRear, frontCopy, m_rxAvailable, lostInStack>>
    BY <1>8, <2>2 DEF RecvEmpty
  <2>4. job'[t] = "pop" /\ rearCopy'[t] = qRear
    BY <1>n, <1>t, <2>3, JobMoves
  <2>5. Standing(t)'
    BY <1>s, <2>1, <2>3, <2>4 DEF Standing
  <2> QED
    BY <1>k, <2>3, <2>5 DEF Receiving
<1>9. CASE PopClaim(t)
  <2>1. job[t] = "pop" /\ qRear = qFront + 1 /\ rearCopy[t] = qRear
    BY <1>9, <1>s DEF PopClaim, Standing
  <2>2. rearCopy[t] # qFront
    BY <1>n, <2>1
  <2>3. /\ Goes(t, "take") /\ frontCopy' = [frontCopy EXCEPT ![t] = qFront] /\ qFront' = qFront + 1
        /\ UNCHANGED <<ready, size, held, wire, pairs, qRear, rearCopy, m_rxAvailable, lostInStack>>
    BY <1>9, <2>2 DEF PopClaim
  <2>4. job'[t] = "take" /\ frontCopy'[t] = qFront
    BY <1>n, <1>t, <2>3, JobMoves
  <2>5. Standing(t)'
    BY <1>s, <2>1, <2>3, <2>4 DEF Standing
  <2> QED
    BY <1>k, <2>3, <2>5 DEF Receiving
<1>10. CASE CudaRecv(t)
  <2>1. /\ job[t] = "take" /\ pairs[frontCopy[t] % QueueCapacity] = q
        /\ m_rxAvailable = size[q] /\ qRear = qFront
    BY <1>10, <1>q, <1>s DEF CudaRecv, Standing
  <2>2. q # NoPacket
    BY <1>q, PoolConstants
  <2>3. /\ Goes(t, "release") /\ held' = [held EXCEPT ![t] = q] /\ m_rxAvailable' = Drained(q)
        /\ UNCHANGED <<ready, size, wire, pairs, qFront, qRear, rearCopy, frontCopy, lostInStack>>
    BY <1>10, <2>1, <2>2 DEF CudaRecv
  <2>4. held' = held
    BY <1>n, <1>q, <2>3
  <2>5. m_rxAvailable' = 0
    BY <1>n, <2>1, <2>3, PoolConstants DEF Drained
  <2>6. job'[t] = "release"
    BY <1>t, <2>3, JobMoves
  <2>7. Standing(t)'
    BY <2>1, <2>3, <2>5, <2>6 DEF Standing
  <2> QED
    BY <1>k, <2>3, <2>4, <2>7 DEF Receiving
<1>11. CASE HandleRead(t)
  <2>1. Standing(t)'
    BY <1>11, <1>t, <1>s, JobMoves DEF HandleRead, Standing
  <2> QED
    BY <1>11, <1>l, <1>q, <2>1 DEF HandleRead
<1> QED
  BY <1>1, <1>2, <1>3, <1>4, <1>5, <1>6, <1>7, <1>8, <1>9, <1>10, <1>11

\* A launch that does not crowd gives one packet of the wire to one thread.
LEMMA LaunchKeepsPools ==
  ASSUME PoolTyped, ~crowded => Uncrowded, PoolLaunch, ~crowded' PROVE Uncrowded'
<1>1. PICK sends, recvs, work : LaunchWork(sends, recvs, work)
  BY LaunchIs
<1>2. /\ PoolIdle /\ rearCopy' = [t \in Tids |-> 0] /\ frontCopy' = [t \in Tids |-> 0]
      /\ UNCHANGED <<ready, size, scan, pairs, qFront, qRear, m_rxAvailable, m_received, lostInStack>>
  BY LaunchIs
<1>3. Uncrowded /\ ~(Cardinality(recvs) > 1)
  BY <1>1 DEF LaunchWork
<1>4. /\ sends \subseteq Clients /\ recvs \subseteq PoolPackets
      /\ NoPacket \notin recvs /\ \A x \in recvs : x \notin sends
  BY <1>1, PoolConstants DEF LaunchWork, PoolTyped, PoolTypeOK
<1>5. \A u \in Tids :
       /\ job'[u] \in {"idle", "send", "recv"} /\ held'[u] \in recvs \cup {NoPacket}
       /\ job'[u] = "recv" <=> work[u] \in recvs
       /\ job'[u] = "recv" => held'[u] = work[u]
  BY <1>1, <1>4 DEF LaunchWork
<1>6. \A x \in recvs : \A u, v \in Tids : work[u] = x /\ work[v] = x => u = v
  <2> TAKE x \in recvs
  <2>1. PICK S : S = {u \in Tids : work[u] = x}
    OBVIOUS
  <2>2. Cardinality(S) = 1
    BY <1>1, <2>1 DEF LaunchWork
  <2>3. IsFiniteSet(S)
    BY <2>1, PoolConstants, FS_Subset
  <2>4. \E u : S = {u}
    BY <2>2, <2>3, FS_Singleton
  <2> QED
    BY <2>1, <2>4
<1>7. \A x \in recvs : \E u \in Tids : work[u] = x
  <2> TAKE x \in recvs
  <2>1. PICK S : S = {u \in Tids : work[u] = x}
    OBVIOUS
  <2>2. Cardinality(S) = 1
    BY <1>1, <2>1 DEF LaunchWork
  <2>3. IsFiniteSet(S)
    BY <2>1, PoolConstants, FS_Subset
  <2>4. \E u : S = {u}
    BY <2>2, <2>3, FS_Singleton
  <2> QED
    BY <2>1, <2>4
<1>8. \A x, y \in recvs : x = y
  <2>1. IsFiniteSet(PoolPackets)
    <3>1. IsFiniteSet(PoolPlaces)
      BY FS_Interval, PoolConstants DEF PoolPlaces
    <3> QED
      BY <3>1, PoolConstants, FS_Product DEF PoolPackets
  <2>2. IsFiniteSet(recvs) /\ Cardinality(recvs) \in Nat
    BY <1>4, <2>1, FS_Subset, FS_CardinalityType
  <2>3. Cardinality(recvs) = 0 \/ Cardinality(recvs) = 1
    BY <1>3, <2>2
  <2>4. recvs = {} \/ \E x : recvs = {x}
    BY <2>2, <2>3, FS_EmptySet, FS_Singleton
  <2> QED
    BY <2>4
<1>9. OneReceiver'
  BY <1>5, <1>6, <1>8 DEF OneReceiver, Receiving
<1>10. qRear = qFront /\ m_rxAvailable = 0
  BY <1>2, <1>3 DEF Uncrowded, QueueOfOne, Charged, PoolIdle
<1>11. QueueOfOne' /\ Charged'
  BY <1>2, <1>5, <1>10 DEF QueueOfOne, Charged
<1>12. \A u \in Tids : \A r \in PoolPackets : Keeps(u, r)' <=> work[u] = r /\ r \in recvs
  BY <1>5 DEF Keeps, Keeping, Receiving
<1>13. \A u \in Tids : \A r : ~Keeps(u, r)
  BY <1>2 DEF Keeps, Keeping, Receiving, PoolIdle
<1>14. ASSUME NEW r \in PoolPackets
       PROVE  /\ wire'[r] \in {0, 1}
              /\ ready'[r] = 1 <=> wire'[r] = 1 \/ r \in lostInStack' \/ \E u \in Tids : Keeps(u, r)'
              /\ wire'[r] = 1 => r \notin lostInStack' /\ \A u \in Tids : ~Keeps(u, r)'
              /\ r \in lostInStack' => \A u \in Tids : ~Keeps(u, r)'
  <2>1. /\ wire[r] \in {0, 1}
        /\ ready[r] = 1 <=> wire[r] = 1 \/ r \in lostInStack
        /\ wire[r] = 1 => r \notin lostInStack
    BY <1>3, <1>13 DEF Uncrowded, OneHome
  <2>2. CASE r \in recvs
    <3>1. wire[r] = 1 /\ wire'[r] = 0
      BY <1>1, <2>1, <2>2 DEF LaunchWork
    <3>2. \E u \in Tids : Keeps(u, r)'
      BY <1>7, <1>12, <2>2
    <3> QED
      BY <1>2, <2>1, <3>1, <3>2
  <2>3. CASE r \notin recvs
    <3>1. wire'[r] = wire[r] /\ \A u \in Tids : ~Keeps(u, r)'
      BY <1>1, <1>12, <2>3 DEF LaunchWork
    <3> QED
      BY <1>2, <2>1, <3>1
  <2> QED
    BY <2>2, <2>3
<1>15. \A u, v \in Tids :
         job'[u] \in Keeping /\ job'[v] \in Keeping /\ held'[u] = held'[v] => u = v
  BY <1>5, <1>6 DEF Keeping, Receiving
<1>16. OneHome'
  BY <1>14, <1>15 DEF OneHome
<1> QED
  BY <1>9, <1>11, <1>16 DEF Uncrowded

LEMMA PoolNextKeeps == ASSUME PoolInv, [PoolNext]_poolVars PROVE PoolInv'
<1>t. PoolTyped /\ QueueCounts /\ (~crowded => Uncrowded)
  BY DEF PoolInv
<1>1. CASE PoolLaunch
  BY <1>1, <1>t, LaunchPoolTyped, LaunchKeepsPools DEF PoolInv
<1>2. ASSUME NEW t \in Tids, PoolStep(t) PROVE PoolInv'
  <2>1. PoolTyped' /\ QueueCounts'
    BY <1>2, <1>t, PoolStepTyped, PoolStepCounts
  <2>2. crowded' = crowded
    BY <1>2 DEF PoolStep, SendTest, Claim, SendDown, RoomTest, AddReadRear, AddReadFront, AddFull,
         AddClaim, AddStore, Account, RecvEmpty, PopClaim, CudaRecv, HandleRead, poolHist
  <2>3. Uncrowded => Uncrowded'
    BY <1>2, <1>t, SenderKeeps, ReceiverKeeps DEF PoolStep
  <2> QED
    BY <1>t, <2>1, <2>2, <2>3 DEF PoolInv
<1>3. CASE UNCHANGED poolVars
  <2>1. PoolTyped'
    BY <1>3, <1>t DEF poolVars, queueVars, rxVars, sendVars, poolHist, PoolTyped, PoolTypeOK
  <2>2. QueueCounts'
    <3>1. Owed' = Owed
      BY <1>3 DEF poolVars, Owed
    <3>2. Cardinality(Owed)' = Cardinality(Owed)
      BY <3>1
    <3> QED
      BY <1>3, <1>t, <3>2 DEF poolVars, queueVars, QueueCounts
  <2>3. (~crowded => Uncrowded)'
    BY <1>3, <1>t DEF poolVars, queueVars, rxVars, poolHist, Uncrowded, OneReceiver, QueueOfOne,
         Charged, OneHome, Keeps
  <2> QED
    BY <2>1, <2>2, <2>3 DEF PoolInv
<1> QED
  BY <1>1, <1>2, <1>3 DEF PoolNext

----------------------------------------------------------------------------
(* The pools: what the invariant implies.                                  *)

\* The three kinds of users that Users counts.
Holders(p) == {t \in Tids : held[t] = p /\ job[t] \in
                 {"down", "recv", "rear", "front", "add", "store", "release"}}
Takers(p) == {t \in Tids : job[t] = "take" /\ pairs[frontCopy[t] % QueueCapacity] = p}
Slots(p) == {i \in qFront .. qRear - 1 : pairs[i % QueueCapacity] = p
               /\ \A t \in Tids : job[t] = "store" => rearCopy[t] # i}

LEMMA UsersAre == \A p : Users(p) = wire[p] + Cardinality(Holders(p)) + Cardinality(Takers(p))
                                    + Cardinality(Slots(p))
BY DEF Users, Holders, Takers, Slots

\* While one thread receives, a written slot is the one it is about to take.
LEMMA SlotHasThread ==
  ASSUME PoolTyped, Uncrowded, NEW p
  PROVE  /\ \A i \in Slots(p) : i = qFront /\ \E t \in Tids :
              job[t] \in {"account", "read", "pop"} /\ held[t] = p
         /\ \A t \in Tids : job[t] \in {"account", "read", "pop"} /\ held[t] = p => qFront \in Slots(p)
<1>1. qFront \in Nat /\ qRear \in Nat
  BY DEF PoolTyped, PoolTypeOK
<1>2. qRear = IF \E t \in Tids : job[t] \in {"store", "account", "read", "pop"} THEN qFront + 1 ELSE qFront
  BY DEF Uncrowded, QueueOfOne
<1>3. ASSUME NEW i \in Slots(p)
      PROVE  i = qFront /\ \E t \in Tids : job[t] \in {"account", "read", "pop"} /\ held[t] = p
  <2>1. i \in qFront .. qRear - 1 /\ pairs[i % QueueCapacity] = p
        /\ \A t \in Tids : job[t] = "store" => rearCopy[t] # i
    BY DEF Slots
  <2>2. i = qFront /\ \E t \in Tids : job[t] \in {"store", "account", "read", "pop"}
    BY <1>1, <1>2, <2>1
  <2>3. PICK t \in Tids : job[t] \in {"store", "account", "read", "pop"}
    BY <2>2
  <2>4. job[t] # "store"
    BY <2>1, <2>2 DEF Uncrowded, QueueOfOne
  <2>5. pairs[qFront % QueueCapacity] = held[t]
    BY <2>3, <2>4 DEF Uncrowded, QueueOfOne
  <2> QED
    BY <2>1, <2>2, <2>3, <2>4, <2>5
<1>4. ASSUME NEW t \in Tids, job[t] \in {"account", "read", "pop"}, held[t] = p
      PROVE  qFront \in Slots(p)
  <2>1. \A u \in Tids : job[u] # "store"
    BY <1>4 DEF Uncrowded, OneReceiver, Receiving
  <2>2. pairs[qFront % QueueCapacity] = p
    BY <1>4 DEF Uncrowded, QueueOfOne
  <2>3. qFront \in qFront .. qRear - 1
    BY <1>1, <1>2, <1>4
  <2> QED
    BY <2>1, <2>2, <2>3 DEF Slots
<1> QED
  BY <1>3, <1>4

LEMMA EachAccounted ==
  ASSUME PoolTyped, Uncrowded, NEW p \in PoolPackets
  PROVE  Users(p) + (IF p \in lostInStack THEN 1 ELSE 0) = ready[p]
<1>h. /\ wire[p] \in {0, 1} /\ ready[p] \in {0, 1}
      /\ ready[p] = 1 <=> wire[p] = 1 \/ p \in lostInStack \/ \E t \in Tids : Keeps(t, p)
      /\ wire[p] = 1 => p \notin lostInStack /\ \A t \in Tids : ~Keeps(t, p)
      /\ p \in lostInStack => \A t \in Tids : ~Keeps(t, p)
  BY DEF PoolTyped, PoolTypeOK, Uncrowded, OneHome
<1>a. \A t \in Holders(p) : t \in Tids /\ Keeps(t, p)
                 /\ job[t] \in {"down", "recv", "rear", "front", "add", "store", "release"}
  BY DEF Holders, Keeps, Keeping, Receiving
<1>b. \A t \in Takers(p) : t \in Tids /\ Keeps(t, p) /\ job[t] = "take"
  BY DEF Takers, Uncrowded, QueueOfOne, Keeps, Keeping, Receiving
<1>c. \A i \in Slots(p) : i = qFront /\ \E t \in Tids :
        Keeps(t, p) /\ job[t] \in {"account", "read", "pop"}
  BY SlotHasThread DEF Keeps, Keeping, Receiving
<1>d. \A t, u \in Tids : Keeps(t, p) /\ Keeps(u, p) => t = u
  BY DEF Uncrowded, OneHome, Keeps
<1>e. Cardinality({}) = 0 /\ \A x : Cardinality({x}) = 1
  BY FS_EmptySet, FS_Singleton
<1>1. CASE \A t \in Tids : ~Keeps(t, p)
  <2>1. Holders(p) = {} /\ Takers(p) = {} /\ Slots(p) = {}
    BY <1>a, <1>b, <1>c, <1>1
  <2>2. Users(p) = wire[p] + 0 + 0 + 0
    BY <1>e, <2>1, UsersAre
  <2>3. wire[p] + (IF p \in lostInStack THEN 1 ELSE 0) = ready[p]
    BY <1>h, <1>1
  <2> QED
    BY <1>h, <2>2, <2>3
<1>2. ASSUME NEW t \in Tids, Keeps(t, p)
      PROVE  Users(p) + (IF p \in lostInStack THEN 1 ELSE 0) = ready[p]
  <2>1. wire[p] = 0 /\ p \notin lostInStack /\ ready[p] = 1
    BY <1>h, <1>2
  <2>2. /\ job[t] \in {"down", "recv", "rear", "front", "add", "store", "release"}
                      \cup {"take"} \cup {"account", "read", "pop"}
        /\ held[t] = p
    BY <1>2 DEF Keeps, Keeping, Receiving
  <2>3. \A u \in Tids : Keeps(u, p) => u = t
    BY <1>d, <1>2
  <2>4. CASE job[t] \in {"down", "recv", "rear", "front", "add", "store", "release"}
    <3>1. t \in Holders(p)
      BY <2>2, <2>4 DEF Holders
    <3>2. Holders(p) = {t} /\ Takers(p) = {} /\ Slots(p) = {}
      BY <1>a, <1>b, <1>c, <2>3, <2>4, <3>1
    <3>3. Users(p) = wire[p] + 1 + 0 + 0
      BY <1>e, <3>2, UsersAre
    <3> QED
      BY <2>1, <3>3
  <2>5. CASE job[t] = "take"
    <3>1. t \in Takers(p)
      BY <2>2, <2>5 DEF Takers, Uncrowded, QueueOfOne
    <3>2. Holders(p) = {} /\ Takers(p) = {t} /\ Slots(p) = {}
      BY <1>a, <1>b, <1>c, <2>3, <2>5, <3>1
    <3>3. Users(p) = wire[p] + 0 + 1 + 0
      BY <1>e, <3>2, UsersAre
    <3> QED
      BY <2>1, <3>3
  <2>6. CASE job[t] \in {"account", "read", "pop"}
    <3>1. qFront \in Slots(p)
      BY <2>2, <2>6, SlotHasThread
    <3>2. Holders(p) = {} /\ Takers(p) = {} /\ Slots(p) = {qFront}
      BY <1>a, <1>b, <1>c, <2>3, <2>6, <3>1
    <3>3. Users(p) = wire[p] + 0 + 0 + 1
      BY <1>e, <3>2, UsersAre
    <3> QED
      BY <2>1, <3>3
  <2> QED
    BY <2>2, <2>4, <2>5, <2>6
<1> QED
  BY <1>1, <1>2

LEMMA PoolInvImplies == ASSUME PoolInv PROVE PacketsAccounted
<1>1. QueueInRange
  <2>1. qFront \in Nat /\ qRear \in Nat
    BY DEF PoolInv, PoolTyped, PoolTypeOK
  <2> QED
    BY <2>1, OwedFinite DEF PoolInv, QueueCounts, QueueInRange
<1>2. ReceiveBufferDrained
  BY DEF PoolInv, Uncrowded, QueueOfOne, Charged, PoolIdle, ReceiveBufferDrained
<1>3. EveryPacketAccounted
  BY EachAccounted DEF PoolInv, EveryPacketAccounted
<1> QED
  BY <1>1, <1>2, <1>3 DEF PacketsAccounted

\* The packet pools, the delivery queue and the receive buffer keep their
\* types: whatever the threads of the kernels do (ELP_Send, ForwardPacket,
\* Cuda_PairList::Add, CudaRecv, HandleRead), a thread that works on a packet
\* has one of a pool, and the counters of the queue stay within its capacity.
THEOREM PoolTypeCorrect == PoolSpec => []PoolTypeOK
<1>1. PoolInv /\ [PoolNext]_poolVars => PoolInv'
  BY PoolNextKeeps
<1>2. PoolInv => PoolTypeOK
  BY DEF PoolInv, PoolTyped
<1> QED
  BY <1>1, <1>2, PoolInitInv, PTL DEF PoolSpec

\* From ELP_Send to HandleRead no packet, slot or byte of room goes missing but
\* by the two ways the code has to lose one: for any number of threads, clients,
\* packets and kernels, the delivery queue stays in its range whatever its
\* threads interleave; and until a kernel holds two receive events, each packet
\* marked in use has exactly one user or is lost in the stack, and the receive
\* buffer is empty between kernels.
THEOREM PacketsAccountedHolds == PoolSpec => []PacketsAccounted
<1>1. PoolInv /\ [PoolNext]_poolVars => PoolInv'
  BY PoolNextKeeps
<1>2. PoolInv => PacketsAccounted
  BY PoolInvImplies
<1> QED
  BY <1>1, <1>2, PoolInitInv, PTL DEF PoolSpec

----------------------------------------------------------------------------
(* Lookaheads: what an event promises.                                     *)

LaPackets == LaClients \X Nat
Pending == waiting \cup filling \cup running \cup born

\* What is known of an early event at the other end of a link.
Explained(e) ==
  \/ Fed(PeerOf[e.at]) /\ ClientSize[e.p[1]] < MTU
  \/ FasterOut(PeerOf[e.at], e.p)
  \/ \E c \in On(PeerOf[e.at]) : ClientSize[c] > ClientSize[e.p[1]]

\* An event carries the lookahead of what generates its children.
Promising(e) ==
  /\ e.kind \in {"send", "complete", "receive"} /\ e.at \in Devices /\ e.p \in LaPackets
  /\ e.ts \in Nat /\ e.la \in Nat /\ e.bound \in Nat
  /\ e.kind = "send" => e.at = DeviceOf[e.p[1]] /\ e.la = CalculateLookAhead(e.p[1])
  /\ e.kind = "complete" => e.la = devLookahead[e.at]
  /\ e.kind = "receive" => e.la = ReceiveLookahead(PeerOf[e.at]) /\ (e.ts < e.bound => Explained(e))

\* A device without clients has packets only if a bridge sends by it.
LaInv ==
  /\ devLookahead \in DeviceLookaheads
  /\ line \in [Devices -> Seq(LaPackets)]
  /\ \A d \in Devices : line[d] # <<>> => On(d) # {} \/ Fed(d)
  /\ \A e \in Pending : Promising(e)

LEMMA LaConstants ==
  /\ DeviceOf \in [LaClients -> Devices] /\ PeerOf \in [Devices -> Devices]
  /\ OutOf \in [Devices -> Devices] /\ LinkDelay \in [Devices -> Nat]
  /\ \A d \in Devices : PeerOf[PeerOf[d]] = d /\ LinkDelay[d] = LinkDelay[PeerOf[d]]
  /\ \A d \in Devices : ByteTime[d] \in Nat /\ ByteTime[d] > 0
  /\ \A c \in LaClients : ClientSize[c] \in Nat /\ ClientInterval[c] \in Nat
  /\ Never \in Nat /\ MTU \in Nat
BY LookaheadAssumption DEF LookaheadAssumption

\* The time to send grows with the size.
LEMMA LessTime == ASSUME NEW k \in Nat, NEW a \in Nat, NEW b \in Nat, a * k < b * k PROVE a < b
<1> SUFFICES ASSUME b <= a PROVE FALSE
  OBVIOUS
<1>1. PICK c \in Nat : a = b + c
  <2>1. a - b \in Nat /\ a = b + (a - b)
    OBVIOUS
  <2> QED
    BY <2>1
<1>2. a * k = b * k + c * k
  BY <1>1
<1>3. c * k \in Nat /\ b * k \in Nat
  OBVIOUS
<1> QED
  BY <1>2, <1>3

LEMMA TxNat == ASSUME NEW d \in Devices, NEW s \in Nat PROVE Tx(d, s) \in Nat
BY LaConstants DEF Tx

LEMMA SmallerPacket ==
  ASSUME NEW d \in Devices, NEW s \in Nat, NEW r \in Nat, Tx(d, s) < Tx(d, r) PROVE s < r
BY LaConstants, LessTime DEF Tx

LEMMA LookaheadsNat ==
  /\ \A c \in LaClients : CalculateLookAhead(c) \in Nat
  /\ \A d \in Devices : ReceiveLookahead(d) \in Nat /\ InstalledLookahead(d) \in Nat
BY LaConstants, TxNat DEF CalculateLookAhead, ReceiveLookahead, InstalledLookahead

\* A device that its clients wrote over keeps the lookahead of one of them.
LEMMA DeviceLookaheadIs ==
  ASSUME devLookahead \in DeviceLookaheads, NEW d \in Devices
  PROVE  /\ devLookahead[d] \in Nat
         /\ On(d) = {} => devLookahead[d] = LinkDelay[d] + Tx(d, MTU)
         /\ On(d) # {} => \E c \in On(d) : devLookahead[d] = LinkDelay[d] + Tx(d, ClientSize[c])
<1>1. PICK last \in [Devices -> LaClients] :
        /\ \A x \in Devices : On(x) # {} => last[x] \in On(x)
        /\ devLookahead = [x \in Devices |-> IF On(x) = {} THEN InstalledLookahead(x)
                                             ELSE CalculateLookAhead(last[x])]
  BY DEF DeviceLookaheads
<1>2. devLookahead[d] = IF On(d) = {} THEN InstalledLookahead(d) ELSE CalculateLookAhead(last[d])
  BY <1>1
<1>3. On(d) # {} => last[d] \in On(d) /\ last[d] \in LaClients /\ DeviceOf[last[d]] = d
  BY <1>1 DEF On
<1>4. devLookahead[d] \in Nat
  BY <1>1, <1>2, LookaheadsNat
<1> QED
  BY <1>2, <1>3, <1>4 DEF InstalledLookahead, CalculateLookAhead

\* An event earlier than promised took less than the lookahead.
LEMMA EarlyMeans ==
  ASSUME NEW e, e.ts \in Nat, e.la \in Nat, NEW x \in Nat, e.ts + x < Earliest(e)
  PROVE  x < e.la
BY LaConstants DEF Earliest

LEMMA EarliestNat == ASSUME NEW e, e.ts \in Nat, e.la \in Nat PROVE Earliest(e) \in Nat
BY LaConstants DEF Earliest

\* What a device transmits for event e.
LEMMA TransmittedPromise ==
  ASSUME devLookahead \in DeviceLookaheads, NEW e, Promising(e), NEW d \in Devices, NEW p \in LaPackets,
         Tx(d, ClientSize[p[1]]) + LinkDelay[d] < e.la =>
           \/ Fed(d) /\ ClientSize[p[1]] < MTU
           \/ FasterOut(d, p)
           \/ \E c \in On(d) : ClientSize[c] > ClientSize[p[1]]
  PROVE  \A f \in Transmitted(d, p, e) : Promising(f)
<1>1. p[1] \in LaClients /\ ClientSize[p[1]] \in Nat
  BY LaConstants DEF LaPackets
<1>2. PICK x \in Nat : x = Tx(d, ClientSize[p[1]])
  BY <1>1, TxNat
<1>3. LinkDelay[d] \in Nat /\ PeerOf[d] \in Devices /\ PeerOf[PeerOf[d]] = d
  BY LaConstants
<1>4. e.ts \in Nat /\ e.la \in Nat /\ Earliest(e) \in Nat
  BY EarliestNat DEF Promising
<1>5. Promising(CompleteEvent(d, p, e))
  <2>1. PICK c : c = CompleteEvent(d, p, e)
    OBVIOUS
  <2>2. /\ c.kind = "complete" /\ c.at = d /\ c.p = p /\ c.ts = e.ts + x
        /\ c.la = devLookahead[d] /\ c.bound = Earliest(e)
    BY <1>2, <2>1 DEF CompleteEvent
  <2>3. e.ts + x \in Nat /\ devLookahead[d] \in Nat
    BY <1>2, <1>4, DeviceLookaheadIs
  <2>4. Promising(c)
    BY <1>4, <2>2, <2>3 DEF Promising
  <2> QED
    BY <2>1, <2>4
<1>6. Promising(ReceiveEvent(d, p, e))
  <2>1. PICK r : r = ReceiveEvent(d, p, e)
    OBVIOUS
  <2>2. /\ r.kind = "receive" /\ r.at = PeerOf[d] /\ r.p = p /\ r.ts = e.ts + x + LinkDelay[d]
        /\ r.la = ReceiveLookahead(d) /\ r.bound = Earliest(e)
    BY <1>2, <2>1 DEF ReceiveEvent
  <2>3. e.ts + x + LinkDelay[d] \in Nat /\ x + LinkDelay[d] \in Nat /\ ReceiveLookahead(d) \in Nat
        /\ e.ts + x + LinkDelay[d] = e.ts + (x + LinkDelay[d])
    BY <1>2, <1>3, <1>4, LookaheadsNat
  <2>4. ASSUME r.ts < r.bound PROVE Explained(r)
    <3>1. x + LinkDelay[d] < e.la
      BY <1>4, <2>2, <2>3, <2>4, EarlyMeans
    <3>2. PeerOf[r.at] = d /\ r.p = p
      BY <1>3, <2>2
    <3> QED
      BY <1>2, <3>1, <3>2 DEF Explained
  <2>5. Promising(r)
    BY <1>3, <1>4, <2>2, <2>3, <2>4 DEF Promising
  <2> QED
    BY <2>1, <2>5
<1> QED
  BY <1>5, <1>6 DEF Transmitted

----------------------------------------------------------------------------
(* Lookaheads: the handlers.                                               *)

LEMMA LaInitInv == LaInit => LaInv
<1> SUFFICES ASSUME LaInit PROVE LaInv
  OBVIOUS
<1>1. line \in [Devices -> Seq(LaPackets)] /\ \A d \in Devices : line[d] = <<>>
  <2>1. <<>> \in Seq(LaPackets)
    BY EmptySeq
  <2> QED
    BY <2>1 DEF LaInit
<1>2. ASSUME NEW c \in LaClients PROVE Promising(SendEvent(c, 1, 0, 0))
  <2>1. PICK s : s = SendEvent(c, 1, 0, 0)
    OBVIOUS
  <2>2. /\ s.kind = "send" /\ s.at = DeviceOf[c] /\ s.p = <<c, 1>> /\ s.ts = 0
        /\ s.la = CalculateLookAhead(c) /\ s.bound = 0
    BY <2>1 DEF SendEvent
  <2>3. DeviceOf[c] \in Devices /\ CalculateLookAhead(c) \in Nat
    BY LaConstants, LookaheadsNat
  <2> QED
    BY <2>1, <2>2, <2>3 DEF Promising, LaPackets
<1>3. \A e \in Pending : Promising(e)
  BY <1>2 DEF LaInit, Pending
<1> QED
  BY <1>1, <1>3 DEF LaInv, LaInit

\* The promises of events are about constants and lookaheads of devices only.
LEMMA PromisesStay ==
  ASSUME NEW e, Promising(e), devLookahead' = devLookahead PROVE Promising(e)'
BY DEF Promising, Explained

\* SendFrom: the frame goes out, or joins those that wait.
LEMMA LaSendFromKeeps ==
  ASSUME LaInv, NEW e, Promising(e), NEW d \in Devices, NEW p \in LaPackets, NEW others,
         \A f \in others : Promising(f), LaSendFrom(d, p, e, others), On(d) # {} \/ Fed(d),
         Tx(d, ClientSize[p[1]]) + LinkDelay[d] < e.la =>
           \/ Fed(d) /\ ClientSize[p[1]] < MTU
           \/ FasterOut(d, p)
           \/ \E c \in On(d) : ClientSize[c] > ClientSize[p[1]],
         UNCHANGED <<waiting, filling, devLookahead>>, running' \subseteq running
  PROVE  LaInv'
<1>t. /\ devLookahead \in DeviceLookaheads /\ line \in [Devices -> Seq(LaPackets)]
      /\ \A x \in Devices : line[x] # <<>> => On(x) # {} \/ Fed(x)
      /\ \A f \in Pending : Promising(f)
  BY DEF LaInv
<1>1. \A f \in Transmitted(d, p, e) : Promising(f)
  BY <1>t, TransmittedPromise
<1>2. \A f \in born' : Promising(f)
  BY <1>t, <1>1 DEF LaSendFrom, Pending
<1>3. \A f \in Pending' : Promising(f)
  BY <1>t, <1>2 DEF Pending
<1>4. \A f \in Pending' : Promising(f)'
  BY <1>3, PromisesStay
<1>5. line' = line \/ line' = [line EXCEPT ![d] = Append(@, p)]
  BY DEF LaSendFrom
<1>6. line' \in [Devices -> Seq(LaPackets)]
  <2>1. line[d] \in Seq(LaPackets)
    BY <1>t
  <2>2. Append(line[d], p) \in Seq(LaPackets)
    BY <2>1, AppendProperties
  <2> QED
    BY <1>t, <1>5, <2>2
<1>7. \A x \in Devices : line'[x] # <<>> => On(x) # {} \/ Fed(x)
  BY <1>t, <1>5
<1> QED
  BY <1>t, <1>4, <1>6, <1>7 DEF LaInv

\* A handler that sends nothing.
LEMMA NothingSent ==
  ASSUME LaInv, UNCHANGED <<line, devLookahead>>, Pending' \subseteq Pending
  PROVE  LaInv'
<1>1. \A f \in Pending' : Promising(f)
  BY DEF LaInv
<1>2. \A f \in Pending' : Promising(f)'
  BY <1>1, PromisesStay
<1> QED
  BY <1>2 DEF LaInv

LEMMA LaHandleKeeps == ASSUME LaInv, NEW e \in running, LaHandle(e) PROVE LaInv'
<1>t. /\ devLookahead \in DeviceLookaheads /\ line \in [Devices -> Seq(LaPackets)]
      /\ \A x \in Devices : line[x] # <<>> => On(x) # {} \/ Fed(x)
      /\ \A f \in Pending : Promising(f)
      /\ Promising(e)
  BY DEF LaInv, Pending
<1>e. /\ e.at \in Devices /\ e.p \in LaPackets /\ e.ts \in Nat /\ e.la \in Nat /\ Earliest(e) \in Nat
      /\ e.p[1] \in LaClients /\ e.p[2] \in Nat /\ ClientSize[e.p[1]] \in Nat
  BY <1>t, EarliestNat, LaConstants DEF Promising, LaPackets
<1>u. UNCHANGED <<waiting, filling, devLookahead>> /\ running' \subseteq running
  BY DEF LaHandle, loopVars
<1>n. ASSUME UNCHANGED <<born, line>> PROVE LaInv'
  <2>1. Pending' \subseteq Pending
    BY <1>n, <1>u DEF Pending
  <2> QED
    BY <1>n, <1>u, <2>1, NothingSent
<1>1. CASE LaSend(e)
  <2>1. CASE numSent[e.p[1]] >= ClientCount[e.p[1]]
    BY <1>1, <1>n, <2>1 DEF LaSend
  <2>2. CASE ~(numSent[e.p[1]] >= ClientCount[e.p[1]])
    <3>1. PICK c \in LaClients : c = e.p[1]
      BY <1>e
    <3>2. PICK d \in Devices : d = e.at
      BY <1>e
    <3>3. e.kind = "send" /\ d = DeviceOf[c] /\ e.la = CalculateLookAhead(c) /\ c \in On(d)
      BY <1>1, <1>t, <3>1, <3>2 DEF LaSend, Promising, On
    <3>4. PICK s : s = SendEvent(c, e.p[2] + 1, e.ts + ClientInterval[c], Earliest(e))
      OBVIOUS
    <3>5. LaSendFrom(d, e.p, e, {s})
      BY <1>1, <2>2, <3>1, <3>2, <3>4 DEF LaSend
    <3>6. Promising(s)
      <4>1. /\ s.kind = "send" /\ s.at = DeviceOf[c] /\ s.p = <<c, e.p[2] + 1>>
            /\ s.ts = e.ts + ClientInterval[c] /\ s.la = CalculateLookAhead(c) /\ s.bound = Earliest(e)
        BY <3>4 DEF SendEvent
      <4>2. e.p[2] + 1 \in Nat /\ e.ts + ClientInterval[c] \in Nat /\ CalculateLookAhead(c) \in Nat
        BY <1>e, LaConstants, LookaheadsNat
      <4>3. s.p \in LaPackets /\ s.p[1] = c
        BY <4>1, <4>2 DEF LaPackets
      <4> QED
        BY <1>e, <3>2, <3>3, <4>1, <4>2, <4>3 DEF Promising
    <3>7. ~(Tx(d, ClientSize[e.p[1]]) + LinkDelay[d] < e.la)
      <4>1. e.la = LinkDelay[d] + Tx(d, ClientSize[c])
        BY <3>3 DEF CalculateLookAhead
      <4>2. Tx(d, ClientSize[c]) \in Nat /\ LinkDelay[d] \in Nat
        BY <1>e, <3>1, TxNat, LaConstants
      <4> QED
        BY <3>1, <4>1, <4>2
    <3> QED
      BY <1>t, <1>e, <1>u, <3>3, <3>5, <3>6, <3>7, LaSendFromKeeps, ZenonT(60)
  <2> QED
    BY <2>1, <2>2
<1>2. CASE LaComplete(e)
  <2>1. PICK d \in Devices : d = e.at
    BY <1>e
  <2>2. CASE line[d] = <<>>
    BY <1>2, <1>n, <2>1, <2>2 DEF LaComplete
  <2>3. CASE line[d] # <<>>
    <3>1. PICK p : p = Head(line[d])
      OBVIOUS
    <3>2. p \in LaPackets /\ Tail(line[d]) \in Seq(LaPackets)
      <4>1. line[d] \in Seq(LaPackets)
        BY <1>t
      <4> QED
        BY <2>3, <3>1, <4>1, HeadTailProperties
    <3>3. /\ e.kind = "complete" /\ line' = [line EXCEPT ![d] = Tail(@)]
          /\ born' = born \cup Transmitted(d, p, e)
      BY <1>2, <2>1, <2>3, <3>1 DEF LaComplete
    <3>4. e.la = devLookahead[d]
      BY <1>t, <2>1, <3>3 DEF Promising
    <3>5. p[1] \in LaClients /\ ClientSize[p[1]] \in Nat /\ MTU \in Nat /\ LinkDelay[d] \in Nat
          /\ Tx(d, ClientSize[p[1]]) \in Nat /\ Tx(d, MTU) \in Nat
      BY <3>2, LaConstants, TxNat DEF LaPackets
    <3>6. ASSUME Tx(d, ClientSize[p[1]]) + LinkDelay[d] < e.la
          PROVE  \/ Fed(d) /\ ClientSize[p[1]] < MTU
                 \/ \E c \in On(d) : ClientSize[c] > ClientSize[p[1]]
      <4>1. CASE On(d) = {}
        <5>1. e.la = LinkDelay[d] + Tx(d, MTU)
          BY <1>t, <3>4, <4>1, DeviceLookaheadIs
        <5>2. Tx(d, ClientSize[p[1]]) < Tx(d, MTU)
          BY <3>5, <3>6, <5>1
        <5>3. ClientSize[p[1]] < MTU
          BY <3>5, <5>2, SmallerPacket
        <5> QED
          BY <1>t, <2>3, <4>1, <5>3
      <4>2. CASE On(d) # {}
        <5>1. PICK c \in On(d) : devLookahead[d] = LinkDelay[d] + Tx(d, ClientSize[c])
          BY <1>t, <4>2, DeviceLookaheadIs
        <5>2. ClientSize[c] \in Nat /\ Tx(d, ClientSize[c]) \in Nat
          BY LaConstants, TxNat DEF On
        <5>3. Tx(d, ClientSize[p[1]]) < Tx(d, ClientSize[c])
          BY <3>4, <3>5, <3>6, <5>1, <5>2
        <5>4. ClientSize[p[1]] < ClientSize[c]
          BY <3>5, <5>2, <5>3, SmallerPacket
        <5> QED
          BY <5>4
      <4> QED
        BY <4>1, <4>2
    <3>7. \A f \in Transmitted(d, p, e) : Promising(f)
      BY <1>t, <3>2, <3>6, TransmittedPromise
    <3>8. \A f \in Pending' : Promising(f)
      BY <1>t, <1>u, <3>3, <3>7 DEF Pending
    <3>9. \A f \in Pending' : Promising(f)'
      BY <1>u, <3>8, PromisesStay
    <3>10. line' \in [Devices -> Seq(LaPackets)]
           /\ \A x \in Devices : line'[x] # <<>> => On(x) # {} \/ Fed(x)
      BY <1>t, <2>3, <3>2, <3>3
    <3> QED
      BY <1>t, <1>u, <3>9, <3>10 DEF LaInv
  <2> QED
    BY <2>2, <2>3
<1>3. CASE LaReceive(e)
  <2>1. PICK b \in Devices : b = e.at
    BY <1>e
  <2>2. CASE ~Bridged(b)
    BY <1>3, <1>n, <2>1, <2>2 DEF LaReceive
  <2>3. CASE Bridged(b)
    <3>1. PICK d \in Devices : d = OutOf[b]
      BY LaConstants
    <3>2. e.kind = "receive" /\ LaSendFrom(d, e.p, e, {})
      BY <1>3, <2>1, <2>3, <3>1 DEF LaReceive
    <3>3. Fed(d)
      BY <2>3, <3>1 DEF Fed
    <3>4. e.la = Tx(PeerOf[b], MTU) + LinkDelay[b]
      <4>1. PeerOf[PeerOf[b]] = b /\ LinkDelay[b] = LinkDelay[PeerOf[b]]
        BY LaConstants
      <4>2. e.la = ReceiveLookahead(PeerOf[b])
        BY <1>t, <2>1, <3>2 DEF Promising
      <4> QED
        BY <2>3, <4>1, <4>2 DEF ReceiveLookahead
    <3>5. Tx(d, ClientSize[e.p[1]]) + LinkDelay[d] < e.la => FasterOut(d, e.p)
      BY <2>3, <3>1, <3>4 DEF FasterOut
    <3> QED
      BY <1>t, <1>e, <1>u, <3>2, <3>3, <3>5, LaSendFromKeeps
  <2> QED
    BY <2>2, <2>3
<1> QED
  BY <1>1, <1>2, <1>3 DEF LaHandle

LEMMA LaStepInv == LaInv /\ [LaNext]_laVars => LaInv'
<1> SUFFICES ASSUME LaInv, [LaNext]_laVars PROVE LaInv'
  OBVIOUS
<1>1. ASSUME NEW e \in waiting, Dispatch(e) PROVE LaInv'
  <2>1. UNCHANGED <<line, devLookahead>> /\ Pending' \subseteq Pending
    BY <1>1 DEF Dispatch, Pending
  <2> QED
    BY <2>1, NothingSent
<1>2. CASE ChangeBuffers
  <2>1. UNCHANGED <<line, devLookahead>> /\ Pending' \subseteq Pending
    BY <1>2 DEF ChangeBuffers, Pending
  <2> QED
    BY <2>1, NothingSent
<1>3. CASE UNCHANGED laVars
  <2>1. UNCHANGED <<line, devLookahead>> /\ Pending' \subseteq Pending
    BY <1>3 DEF laVars, loopVars, Pending
  <2> QED
    BY <2>1, NothingSent
<1> QED
  BY <1>1, <1>2, <1>3, LaHandleKeeps DEF LaNext

\* The lookaheads that clients, devices, the channel and bridges give their
\* events (CalculateLookAhead, TransmitStart, D_TransmitComplete) are kept
\* towards other nodes, in any network and with any sizes and intervals, but
\* for the three kinds of frames that EarlyOnlyAtHome names.
THEOREM EarlyOnlyAtHomeHolds == LaSpec => []EarlyOnlyAtHome
<1>1. LaInv => EarlyOnlyAtHome
  BY DEF LaInv, Pending, Promising, Explained, EarlyOnlyAtHome
<1> QED
  BY <1>1, LaInitInv, LaStepInv, PTL DEF LaSpec

----------------------------------------------------------------------------
(* The tables: the loop of LookupRoute over a sequence of entries.         *)

TableEntry == [network : Subnets, netdevIndex : NetDevices, priority : Priorities]
NoEntry == Entry({}, Unrouted)

\* One turn of the loop, and the function the fold is made of: what the loop
\* holds after the entries at the places of a set.
Turn(a, best, x) ==
  IF a \in x.network /\ (best.netdevIndex = NoRoute \/ BetterRoute(x, best)) THEN x ELSE best
LoopOver(a, s, S, iter) ==
  iter = [u \in SUBSET S |-> IF u = {} THEN NoEntry
                             ELSE LET x == Max(u) IN Turn(a, iter[u \ {x}], s[x])]

LEMMA TablesConstants ==
  /\ \A p, q \in Subnets : p # {} /\ (p \subseteq q \/ q \subseteq p \/ p \cap q = {})
  /\ NoRoute \notin NetDevices /\ NoRoute \notin DeviceMacs
  /\ RouteCapacity \in Nat /\ MAX_CACHE_SIZE \in Nat /\ Priorities \subseteq Nat
BY TablesAssumption DEF TablesAssumption

LEMMA LastOfPlaces ==
  ASSUME NEW n \in Nat, NEW u \in SUBSET (1 .. n + 1), n + 1 \in u
  PROVE  Max(u) = n + 1
<1>1. \A y \in u : n + 1 >= y
  OBVIOUS
<1> DEFINE m == CHOOSE x \in u : \A y \in u : x >= y
<1>2. m \in u /\ m >= n + 1
  BY <1>1
<1> HIDE DEF m
<1>3. m = n + 1
  BY <1>2
<1> QED
  BY <1>3, Zenon DEF Max, m

\* A function as the fold wants it exists for every number of entries.
LEMMA LoopExists ==
  ASSUME NEW a, NEW s, NEW n \in Nat
  PROVE  \E iter : LoopOver(a, s, 1 .. n, iter)
<1> DEFINE S == {k \in Nat : \E iter : LoopOver(a, s, 1 .. k, iter)}
<1>1. 0 \in S
  <2> DEFINE f == [u \in SUBSET (1 .. 0) |-> NoEntry]
  <2>1. \A u \in SUBSET (1 .. 0) : u = {}
    OBVIOUS
  <2>2. f = [u \in SUBSET (1 .. 0) |-> IF u = {} THEN NoEntry
                                       ELSE LET x == Max(u) IN Turn(a, f[u \ {x}], s[x])]
    BY <2>1
  <2>3. LoopOver(a, s, 1 .. 0, f)
    BY <2>2, Zenon DEF LoopOver
  <2> HIDE DEF f
  <2> QED
    BY <2>3
<1>2. ASSUME NEW k \in Nat, k \in S
      PROVE  k + 1 \in S
  <2>1. PICK g : LoopOver(a, s, 1 .. k, g)
    BY <1>2
  <2> DEFINE T == SUBSET (1 .. k + 1)
             body(u, h) == IF u = {} THEN NoEntry
                           ELSE LET x == Max(u) IN Turn(a, h[u \ {x}], s[x])
             f == [u \in T |-> IF k + 1 \in u THEN Turn(a, g[u \ {k + 1}], s[k + 1]) ELSE g[u]]
  <2>2. \A u \in SUBSET (1 .. k) : g[u] = body(u, g)
    BY <2>1, Zenon DEF LoopOver
  <2>3. \A u \in T : f[u] = IF k + 1 \in u THEN Turn(a, g[u \ {k + 1}], s[k + 1]) ELSE g[u]
    OBVIOUS
  <2>4. ASSUME NEW u \in T
        PROVE  f[u] = body(u, f)
    <3>1. CASE k + 1 \in u
      <4>1. Max(u) = k + 1 /\ u # {}
        BY <3>1, LastOfPlaces
      <4>2. u \ {k + 1} \in T /\ ~ (k + 1 \in u \ {k + 1})
        OBVIOUS
      <4>3. f[u \ {k + 1}] = g[u \ {k + 1}]
        BY <2>3, <4>2, Zenon
      <4> HIDE DEF f
      <4>4. f[u] = Turn(a, f[u \ {k + 1}], s[k + 1])
        BY <2>3, <3>1, <4>3, Zenon
      <4> QED
        BY <4>1, <4>4, Zenon
    <3>2. CASE ~ (k + 1 \in u)
      <4>1. u \in SUBSET (1 .. k)
        BY <3>2
      <4>2. f[u] = g[u]
        BY <2>3, <3>2, Zenon
      <4>3. u \ {Max(u)} \in T /\ ~ (k + 1 \in u \ {Max(u)})
        BY <3>2, Zenon
      <4>4. f[u \ {Max(u)}] = g[u \ {Max(u)}]
        BY <2>3, <4>3, Zenon
      <4> HIDE DEF f
      <4>5. g[u] = body(u, g)
        BY <2>2, <4>1, Zenon
      <4> QED
        BY <4>2, <4>4, <4>5, Zenon
    <3> QED
      BY <3>1, <3>2
  <2>5. f = [u \in T |-> body(u, f)]
    BY <2>4, Zenon
  <2>6. LoopOver(a, s, 1 .. k + 1, f)
    BY <2>5, Zenon DEF LoopOver
  <2> HIDE DEF f
  <2> QED
    BY <2>6, k + 1 \in Nat
<1> HIDE DEF S
<1>3. n \in S
  BY <1>1, <1>2, SetInduction
<1> QED
  BY <1>3 DEF S

\* What the loop of LookupRoute returns is what such a function has for all
\* entries.
LEMMA LookupIsLoop ==
  ASSUME NEW a, m_routes \in Seq(TableEntry)
  PROVE  \E iter : /\ LoopOver(a, m_routes, 1 .. Len(m_routes), iter)
                   /\ LookupRoute(a) = iter[1 .. Len(m_routes)].netdevIndex
<1> DEFINE S == 1 .. Len(m_routes)
           c == CHOOSE iter : iter = [u \in SUBSET S |-> IF u = {} THEN NoEntry
                             ELSE LET x == Max(u) IN Turn(a, iter[u \ {x}], m_routes[x])]
<1>1. Len(m_routes) \in Nat /\ DOMAIN m_routes = S
  OBVIOUS
<1>2. \E iter : LoopOver(a, m_routes, S, iter)
  BY <1>1, LoopExists
<1>3. c = [u \in SUBSET S |-> IF u = {} THEN NoEntry
                              ELSE LET x == Max(u) IN Turn(a, c[u \ {x}], m_routes[x])]
  BY <1>2, Zenon DEF LoopOver
<1>4. LookupRoute(a) = c[S].netdevIndex
  BY <1>1, Zenon DEF LookupRoute, FoldLeft, MapThenFoldSet, Turn, NoEntry
<1> HIDE DEF c
<1>5. LoopOver(a, m_routes, S, c)
  BY <1>3, Zenon DEF LoopOver
<1> QED
  BY <1>4, <1>5, Zenon

\* What the loop holds after the first k entries: nothing if none of them has
\* the address, otherwise one that has it and is within all others that do.
Covers(a, s, k) == {i \in 1 .. k : a \in s[i].network}
BestOf(a, s, k, best) ==
  IF Covers(a, s, k) = {} THEN best = NoEntry
  ELSE \E i \in Covers(a, s, k) : best = s[i] /\ \A j \in Covers(a, s, k) : s[i].network \subseteq s[j].network

LEMMA TurnKeepsBest ==
  ASSUME NEW a, NEW s \in Seq(TableEntry), NEW k \in Nat, k + 1 <= Len(s), NEW best,
         BestOf(a, s, k, best)
  PROVE  BestOf(a, s, k + 1, Turn(a, best, s[k + 1]))
<1> DEFINE x == s[k + 1]
           new == Turn(a, best, x)
<1>1. \A i \in 1 .. k + 1 : s[i] \in TableEntry
  OBVIOUS
<1>2. \A i \in 1 .. k + 1 : s[i].network \in Subnets /\ s[i].netdevIndex # NoRoute
  BY <1>1, TablesConstants DEF TableEntry
<1>3. k + 1 \in 1 .. k + 1 /\ \A i \in Covers(a, s, k) : i \in 1 .. k + 1 /\ a \in s[i].network
  BY DEF Covers
<1>4. CASE a \notin x.network
  <2>1. Covers(a, s, k + 1) = Covers(a, s, k)
    BY <1>4 DEF Covers
  <2>2. new = best
    BY <1>4 DEF Turn
  <2> QED
    BY <2>1, <2>2, Zenon DEF BestOf
<1>5. CASE a \in x.network
  <2>1. Covers(a, s, k + 1) = Covers(a, s, k) \cup {k + 1}
    BY <1>5 DEF Covers
  <2>2. CASE Covers(a, s, k) = {}
    <3>1. best.netdevIndex = NoRoute
      BY <2>2 DEF BestOf, NoEntry, Entry, Unrouted
    <3>2. new = x
      BY <1>5, <3>1 DEF Turn
    <3> HIDE DEF new
    <3>3. Covers(a, s, k + 1) = {k + 1}
      BY <2>1, <2>2
    <3>4. k + 1 \in Covers(a, s, k + 1) /\ Covers(a, s, k + 1) # {}
      BY <3>3
    <3>5. \A j \in Covers(a, s, k + 1) : x.network \subseteq s[j].network
      BY <3>3
    <3>6. BestOf(a, s, k + 1, new)
      BY <3>2, <3>4, <3>5, Zenon DEF BestOf
    <3> QED
      BY <3>6, Zenon DEF new
  <2>3. CASE Covers(a, s, k) # {}
    <3>1. PICK i \in Covers(a, s, k) :
            best = s[i] /\ \A j \in Covers(a, s, k) : s[i].network \subseteq s[j].network
      BY <2>3, Zenon DEF BestOf
    <3>2. i \in 1 .. k + 1 /\ a \in s[i].network
      BY <1>3
    <3>3. s[i].netdevIndex # NoRoute
      BY <1>2, <3>2, Zenon
    <3>4. s[i].network \in Subnets /\ x.network \in Subnets
      BY <1>2, <1>3, <3>2, Zenon
    <3>5. s[i].network \subseteq x.network \/ x.network \subseteq s[i].network
      BY <1>5, <3>2, <3>4, TablesConstants
    <3>6. CASE BetterRoute(x, s[i])
      <4>1. new = x
        BY <1>5, <3>1, <3>6, Zenon DEF Turn
      <4>2. x.network \subseteq s[i].network
        BY <3>6, Zenon DEF BetterRoute
      <4>3. \A j \in Covers(a, s, k + 1) : x.network \subseteq s[j].network
        BY <2>1, <3>1, <4>2
      <4> HIDE DEF new
      <4>4. k + 1 \in Covers(a, s, k + 1) /\ Covers(a, s, k + 1) # {}
        BY <2>1
      <4>5. BestOf(a, s, k + 1, new)
        BY <4>1, <4>3, <4>4, Zenon DEF BestOf
      <4> QED
        BY <4>5, Zenon DEF new
    <3>7. CASE ~ BetterRoute(x, s[i])
      <4>1. new = s[i]
        BY <3>1, <3>3, <3>7, Zenon DEF Turn
      <4>2. s[i].network \subseteq x.network
        BY <3>5, <3>7, Zenon DEF BetterRoute
      <4>3. \A j \in Covers(a, s, k + 1) : s[i].network \subseteq s[j].network
        BY <2>1, <3>1, <4>2
      <4> HIDE DEF new
      <4>4. i \in Covers(a, s, k + 1) /\ Covers(a, s, k + 1) # {}
        BY <2>1
      <4>5. BestOf(a, s, k + 1, new)
        BY <4>1, <4>3, <4>4, Zenon DEF BestOf
      <4> QED
        BY <4>5, Zenon DEF new
    <3> QED
      BY <3>6, <3>7
  <2> QED
    BY <2>2, <2>3
<1> QED
  BY <1>4, <1>5

LEMMA LoopFindsBest ==
  ASSUME NEW a, NEW s \in Seq(TableEntry), NEW iter, LoopOver(a, s, 1 .. Len(s), iter)
  PROVE  BestOf(a, s, Len(s), iter[1 .. Len(s)])
<1> DEFINE S == {k \in Nat : k <= Len(s) => BestOf(a, s, k, iter[1 .. k])}
<1>1. \A u \in SUBSET (1 .. Len(s)) :
        iter[u] = IF u = {} THEN NoEntry ELSE LET x == Max(u) IN Turn(a, iter[u \ {x}], s[x])
  BY Zenon DEF LoopOver
<1>2. Len(s) \in Nat
  OBVIOUS
<1>3. 0 \in S
  <2>1. 1 .. 0 = {} /\ {} \in SUBSET (1 .. Len(s))
    OBVIOUS
  <2>2. iter[1 .. 0] = NoEntry
    BY <1>1, <2>1, Zenon
  <2>3. Covers(a, s, 0) = {}
    BY <2>1 DEF Covers
  <2> QED
    BY <2>2, <2>3 DEF BestOf
<1>4. ASSUME NEW k \in Nat, k \in S
      PROVE  k + 1 \in S
  <2>1. SUFFICES ASSUME k + 1 <= Len(s) PROVE BestOf(a, s, k + 1, iter[1 .. k + 1])
    BY <1>4
  <2>2. BestOf(a, s, k, iter[1 .. k])
    BY <1>2, <1>4, <2>1
  <2> HIDE DEF S
  <2>3. /\ 1 .. k + 1 \in SUBSET (1 .. Len(s)) /\ 1 .. k + 1 # {}
        /\ (1 .. k + 1) \ {k + 1} = 1 .. k /\ k + 1 \in 1 .. k + 1
    BY <1>2, <2>1
  <2>4. Max(1 .. k + 1) = k + 1
    BY <2>3, LastOfPlaces
  <2>5. iter[1 .. k + 1] = Turn(a, iter[1 .. k], s[k + 1])
    BY <1>1, <2>3, <2>4, Zenon
  <2> QED
    BY <2>1, <2>2, <2>5, TurnKeepsBest
<1> HIDE DEF S
<1>5. Len(s) \in S
  BY <1>2, <1>3, <1>4, SetInduction
<1> QED
  BY <1>2, <1>5 DEF S

LEMMA LookupFindsBest ==
  ASSUME NEW a, m_routes \in Seq(TableEntry)
  PROVE  \E best : BestOf(a, m_routes, Len(m_routes), best) /\ LookupRoute(a) = best.netdevIndex
BY LookupIsLoop, LoopFindsBest, Zenon

----------------------------------------------------------------------------
(* The tables: the routes.                                                 *)

RouteEntries ==
  /\ m_routes \in Seq(TableEntry)
  /\ routeOf \in [Subnets -> Route \cup {Unrouted}]

\* A prefix has one entry, what it was last given, or none if that was removed.
RoutesKept ==
  /\ \A i, j \in DOMAIN m_routes : m_routes[i].network = m_routes[j].network => i = j
  /\ \A i \in DOMAIN m_routes :
       /\ routeOf[m_routes[i].network] # Unrouted
       /\ m_routes[i].netdevIndex = routeOf[m_routes[i].network].netdevIndex
  /\ \A p \in Subnets : routeOf[p] # Unrouted => \E i \in DOMAIN m_routes : m_routes[i].network = p

LEMMA EntryFields ==
  ASSUME NEW p \in Subnets, NEW r \in Route
  PROVE  /\ Entry(p, r) \in TableEntry /\ Entry(p, r).network = p
         /\ Entry(p, r).netdevIndex = r.netdevIndex /\ r # Unrouted
BY TablesConstants DEF Entry, TableEntry, Route, Unrouted

LEMMA RoutesStart == TablesInit => RouteEntries /\ RoutesKept
BY DEF TablesInit, RouteEntries, RoutesKept

LEMMA AddKeepsRoutes ==
  ASSUME RouteEntries, RoutesKept, NEW p \in Subnets, NEW r \in Route, AddRoute(p, r)
  PROVE  RouteEntries' /\ RoutesKept'
<1> PICK e : e = Entry(p, r)
  OBVIOUS
<1>1. e \in TableEntry /\ e.network = p /\ e.netdevIndex = r.netdevIndex /\ r # Unrouted
  BY EntryFields
<1> PICK n \in Nat : n = Len(m_routes) /\ DOMAIN m_routes = 1 .. n
  BY DEF RouteEntries
<1>2. \A i \in 1 .. n : m_routes[i] \in TableEntry
  BY DEF RouteEntries
<1>3. \A i \in 1 .. n : m_routes[i].network \in Subnets
  BY <1>2 DEF TableEntry
<1>4. /\ routeOf' \in [Subnets -> Route \cup {Unrouted}]
      /\ routeOf'[p] = r /\ \A q \in Subnets : q # p => routeOf'[q] = routeOf[q]
  BY DEF AddRoute, RouteEntries
<1>5. CASE IndexOf(p) # {}
  <2>1. PICK i \in 1 .. n : m_routes[i].network = p
    BY <1>5 DEF IndexOf
  <2>2. \A j \in 1 .. n : j \in IndexOf(p) <=> j = i
    BY <2>1 DEF IndexOf, RoutesKept
  <2>3. m_routes' = [j \in 1 .. n |-> IF j \in IndexOf(p) THEN e ELSE m_routes[j]]
    BY <1>5, Zenon DEF AddRoute
  <2>4. /\ m_routes' \in Seq(TableEntry) /\ DOMAIN m_routes' = 1 .. n
    <3>1. \A j \in 1 .. n : m_routes'[j] \in TableEntry
      BY <1>1, <1>2, <2>3
    <3>2. m_routes' \in [1 .. n -> TableEntry]
      BY <2>3, <3>1, Zenon
    <3> QED
      BY <3>2
  <2>5. m_routes'[i] = e /\ \A j \in 1 .. n : j # i => m_routes'[j] = m_routes[j]
    BY <2>2, <2>3
  <2>6. \A j \in 1 .. n : m_routes'[j].network = m_routes[j].network
    BY <1>1, <2>1, <2>5
  <2>7. RouteEntries'
    BY <1>4, <2>4 DEF RouteEntries
  <2>8. \A j, k \in 1 .. n : m_routes'[j].network = m_routes'[k].network => j = k
    BY <2>6 DEF RoutesKept
  <2>9. \A j \in 1 .. n : /\ routeOf'[m_routes'[j].network] # Unrouted
                          /\ m_routes'[j].netdevIndex = routeOf'[m_routes'[j].network].netdevIndex
    <3>1. SUFFICES ASSUME NEW j \in 1 .. n
          PROVE /\ routeOf'[m_routes'[j].network] # Unrouted
                /\ m_routes'[j].netdevIndex = routeOf'[m_routes'[j].network].netdevIndex
      OBVIOUS
    <3>2. CASE j = i
      BY <1>1, <1>4, <2>5, <3>2
    <3>3. CASE j # i
      <4>1. m_routes'[j] = m_routes[j] /\ m_routes[j].network # p
        BY <2>1, <2>5, <3>3 DEF RoutesKept
      <4> QED
        BY <1>3, <1>4, <4>1 DEF RoutesKept
    <3> QED
      BY <3>2, <3>3
  <2>10. ASSUME NEW q \in Subnets, routeOf'[q] # Unrouted
         PROVE  \E j \in 1 .. n : m_routes'[j].network = q
    BY <1>1, <1>4, <2>1, <2>6, <2>10 DEF RoutesKept
  <2>11. RoutesKept'
    BY <2>4, <2>8, <2>9, <2>10, Zenon DEF RoutesKept
  <2> QED
    BY <2>7, <2>11
<1>6. CASE IndexOf(p) = {}
  <2>1. m_routes' = Append(m_routes, e)
    BY <1>6 DEF AddRoute
  <2>2. /\ m_routes' \in Seq(TableEntry) /\ DOMAIN m_routes' = 1 .. n + 1
        /\ m_routes'[n + 1] = e /\ \A j \in 1 .. n : m_routes'[j] = m_routes[j]
    BY <1>1, <2>1 DEF RouteEntries
  <2>3. \A j \in 1 .. n : m_routes[j].network # p
    BY <1>6 DEF IndexOf
  <2>4. \A j \in 1 .. n + 1 : j = n + 1 \/ j \in 1 .. n
    OBVIOUS
  <2>7. RouteEntries'
    BY <1>4, <2>2 DEF RouteEntries
  <2>8. \A j, k \in 1 .. n + 1 : m_routes'[j].network = m_routes'[k].network => j = k
    BY <1>1, <2>2, <2>3, <2>4 DEF RoutesKept
  <2>9. \A j \in 1 .. n + 1 :
          /\ routeOf'[m_routes'[j].network] # Unrouted
          /\ m_routes'[j].netdevIndex = routeOf'[m_routes'[j].network].netdevIndex
    <3>1. SUFFICES ASSUME NEW j \in 1 .. n + 1
          PROVE /\ routeOf'[m_routes'[j].network] # Unrouted
                /\ m_routes'[j].netdevIndex = routeOf'[m_routes'[j].network].netdevIndex
      OBVIOUS
    <3>2. CASE j = n + 1
      BY <1>1, <1>4, <2>2, <3>2
    <3>3. CASE j \in 1 .. n
      BY <1>3, <1>4, <2>2, <2>3, <3>3 DEF RoutesKept
    <3> QED
      BY <2>4, <3>2, <3>3
  <2>10. ASSUME NEW q \in Subnets, routeOf'[q] # Unrouted
         PROVE  \E j \in 1 .. n + 1 : m_routes'[j].network = q
    <3>1. CASE q = p
      BY <1>1, <2>2, <3>1
    <3>2. CASE q # p
      <4>1. PICK j \in 1 .. n : m_routes[j].network = q
        BY <1>4, <2>10, <3>2 DEF RoutesKept
      <4> QED
        BY <2>2, <4>1
    <3> QED
      BY <3>1, <3>2
  <2>11. RoutesKept'
    BY <2>2, <2>8, <2>9, <2>10, Zenon DEF RoutesKept
  <2> QED
    BY <2>7, <2>11
<1> QED
  BY <1>5, <1>6

LEMMA RemoveKeepsRoutes ==
  ASSUME RouteEntries, RoutesKept, NEW p \in Subnets, RemoveRoute(p)
  PROVE  RouteEntries' /\ RoutesKept'
<1> PICK n \in Nat : n = Len(m_routes) /\ DOMAIN m_routes = 1 .. n
  BY DEF RouteEntries
<1>1. PICK i \in 1 .. n : m_routes[i].network = p /\ m_routes' = WithoutRoute(i)
  BY DEF RemoveRoute, IndexOf
<1>2. \A j \in 1 .. n : m_routes[j] \in TableEntry
  BY DEF RouteEntries
<1>3. \A j \in 1 .. n : m_routes[j].network \in Subnets
  BY <1>2 DEF TableEntry
<1>4. /\ routeOf' \in [Subnets -> Route \cup {Unrouted}]
      /\ routeOf'[p] = Unrouted /\ \A q \in Subnets : q # p => routeOf'[q] = routeOf[q]
  BY DEF RemoveRoute, RouteEntries
<1>5. /\ m_routes' \in Seq(TableEntry) /\ DOMAIN m_routes' = 1 .. n - 1
      /\ \A j \in 1 .. n - 1 : m_routes'[j] = IF j = i THEN m_routes[n] ELSE m_routes[j]
  <2> PICK s : s = [m_routes EXCEPT ![i] = m_routes[n]]
    OBVIOUS
  <2>1. /\ s \in Seq(TableEntry) /\ Len(s) = n
        /\ \A j \in 1 .. n : s[j] = IF j = i THEN m_routes[n] ELSE m_routes[j]
    BY <1>2 DEF RouteEntries
  <2>2. m_routes' = SubSeq(s, 1, n - 1)
    BY <1>1, <2>1, Zenon DEF WithoutRoute, Front
  <2> QED
    BY <2>1, <2>2, SubSeqProperties
\* Where an entry that stays is found now.
<1> DEFINE now(j) == IF j = n THEN i ELSE j
<1>6. \A j \in 1 .. n : j # i => now(j) \in 1 .. n - 1 /\ m_routes'[now(j)] = m_routes[j]
  BY <1>5
<1>7. ASSUME NEW k \in 1 .. n - 1
      PROVE  \E j \in 1 .. n : j # i /\ k = now(j)
  <2>1. CASE k = i
    <3>1. n \in 1 .. n /\ n # i /\ k = now(n)
      BY <2>1
    <3> QED
      BY <3>1, Zenon
  <2>2. CASE k # i
    <3>1. k \in 1 .. n /\ k = now(k)
      OBVIOUS
    <3> QED
      BY <2>2, <3>1, Zenon
  <2> QED
    BY <2>1, <2>2
<1>8. \A j \in 1 .. n : j # i => m_routes[j].network # p
  BY <1>1 DEF RoutesKept
<1> HIDE DEF now
<1>9. RouteEntries'
  BY <1>4, <1>5 DEF RouteEntries
<1>10. ASSUME NEW j \in 1 .. n - 1, NEW k \in 1 .. n - 1, m_routes'[j].network = m_routes'[k].network
       PROVE  j = k
  <2>1. PICK x \in 1 .. n, y \in 1 .. n : x # i /\ y # i /\ j = now(x) /\ k = now(y)
    BY <1>7, Zenon
  <2>2. m_routes[x].network = m_routes[y].network
    BY <1>6, <1>10, <2>1, Zenon
  <2> QED
    BY <2>1, <2>2, Zenon DEF RoutesKept
<1>11. ASSUME NEW k \in 1 .. n - 1
       PROVE  /\ routeOf'[m_routes'[k].network] # Unrouted
              /\ m_routes'[k].netdevIndex = routeOf'[m_routes'[k].network].netdevIndex
  <2>1. PICK x \in 1 .. n : x # i /\ k = now(x)
    BY <1>7, Zenon
  <2>2. m_routes'[k] = m_routes[x] /\ m_routes[x].network # p /\ m_routes[x].network \in Subnets
    BY <1>3, <1>6, <1>8, <2>1, Zenon
  <2> QED
    BY <1>4, <2>2 DEF RoutesKept
<1>12. ASSUME NEW q \in Subnets, routeOf'[q] # Unrouted
       PROVE  \E k \in 1 .. n - 1 : m_routes'[k].network = q
  <2>1. q # p /\ routeOf[q] # Unrouted
    BY <1>4, <1>12
  <2>2. PICK x \in 1 .. n : m_routes[x].network = q
    BY <2>1 DEF RoutesKept
  <2>3. x # i
    BY <1>1, <2>1, <2>2
  <2> QED
    BY <1>6, <2>2, <2>3, Zenon
<1>13. RoutesKept'
  BY <1>5, <1>10, <1>11, <1>12, Zenon DEF RoutesKept
<1> QED
  BY <1>9, <1>13

\* LookupRoute over such a table.
LEMMA KeptRoutesFound ==
  ASSUME RouteEntries, RoutesKept
  PROVE  LookupIsLongestPrefix
<1>1. m_routes \in Seq(TableEntry) /\ DOMAIN m_routes = 1 .. Len(m_routes) /\ Len(m_routes) \in Nat
  BY DEF RouteEntries
<1>2. \A j \in 1 .. Len(m_routes) : m_routes[j].network \in Subnets
  <2>1. \A j \in 1 .. Len(m_routes) : m_routes[j] \in TableEntry
    BY <1>1
  <2> QED
    BY <2>1 DEF TableEntry
<1>3. SUFFICES ASSUME NEW a \in Hosts, NEW known, known = {p \in Subnets : a \in p /\ routeOf[p] # Unrouted}
               PROVE  IF known = {} THEN LookupRoute(a) = NoRoute
                      ELSE \E p \in known : /\ \A q \in known : p \subseteq q
                                            /\ LookupRoute(a) = routeOf[p].netdevIndex
  BY Zenon DEF LookupIsLongestPrefix
<1>4. PICK best : /\ BestOf(a, m_routes, Len(m_routes), best)
                  /\ LookupRoute(a) = best.netdevIndex
  BY <1>1, LookupFindsBest
<1> DEFINE C == Covers(a, m_routes, Len(m_routes))
<1>5. \A i \in C : i \in 1 .. Len(m_routes) /\ m_routes[i].network \in known
  BY <1>1, <1>2, <1>3 DEF Covers, RoutesKept
<1>6. \A p \in known : \E i \in C : m_routes[i].network = p
  BY <1>1, <1>3 DEF Covers, RoutesKept
<1>7. CASE C = {}
  <2>1. known = {} /\ best = NoEntry
    BY <1>4, <1>6, <1>7 DEF BestOf
  <2>2. best.netdevIndex = NoRoute
    BY <2>1 DEF NoEntry, Entry, Unrouted
  <2> QED
    BY <1>4, <2>1, <2>2
<1>8. CASE C # {}
  <2>1. PICK i \in C : best = m_routes[i] /\ \A j \in C : m_routes[i].network \subseteq m_routes[j].network
    BY <1>4, <1>8, Zenon DEF BestOf
  <2>2. \A q \in known : m_routes[i].network \subseteq q
    BY <1>6, <2>1
  <2>3. m_routes[i].netdevIndex = routeOf[m_routes[i].network].netdevIndex
    BY <1>1, <1>5, <2>1 DEF RoutesKept
  <2> QED
    BY <1>4, <1>5, <2>1, <2>2, <2>3, Zenon
<1> QED
  BY <1>7, <1>8

----------------------------------------------------------------------------
(* The tables: the ARP cache.                                              *)

CacheEntry == [ip : Hosts, mac : DeviceMacs]

\* at[k] is the place of the k-th MAC of an address: the places grow, and no
\* other place has an entry of the address.
PlacesOf(a, at) ==
  /\ at \in [1 .. Len(macsOf[a]) -> 1 .. Len(m_entries)]
  /\ \A k \in 1 .. Len(macsOf[a]) : m_entries[at[k]].ip = a /\ m_entries[at[k]].mac = macsOf[a][k]
  /\ \A k, l \in 1 .. Len(macsOf[a]) : k < l => at[k] < at[l]
  /\ \A i \in 1 .. Len(m_entries) : m_entries[i].ip = a => \E k \in 1 .. Len(macsOf[a]) : i = at[k]
CacheTyped ==
  /\ m_entries \in Seq(CacheEntry)
  /\ macsOf \in [Hosts -> Seq(DeviceMacs)]
CacheKept == \A a \in Hosts : \E at : PlacesOf(a, at)

LEMMA CacheStart == TablesInit => CacheTyped /\ CacheKept
<1> SUFFICES ASSUME TablesInit PROVE CacheTyped /\ CacheKept
  OBVIOUS
<1>1. /\ CacheTyped /\ Len(m_entries) = 0 /\ \A a \in Hosts : Len(macsOf[a]) = 0
  BY DEF TablesInit, CacheTyped
<1>2. ASSUME NEW a \in Hosts, NEW at, at = [k \in 1 .. 0 |-> 1]
      PROVE  PlacesOf(a, at)
  BY <1>1, <1>2 DEF PlacesOf
<1> QED
  BY <1>1, <1>2, Zenon DEF CacheKept

LEMMA AddKeepsCache ==
  ASSUME CacheTyped, CacheKept, NEW a \in Hosts, NEW hw \in DeviceMacs, AddArpEntry(a, hw)
  PROVE  CacheTyped' /\ CacheKept'
<1> PICK n \in Nat : n = Len(m_entries)
  BY DEF CacheTyped
<1> PICK e : e = [ip |-> a, mac |-> hw]
  OBVIOUS
<1>1. /\ m_entries' = Append(m_entries, e) /\ macsOf' = [macsOf EXCEPT ![a] = Append(macsOf[a], hw)]
      /\ e \in CacheEntry /\ e.ip = a /\ e.mac = hw
  BY DEF AddArpEntry, CacheEntry
<1>2. /\ m_entries' \in Seq(CacheEntry) /\ Len(m_entries') = n + 1 /\ m_entries'[n + 1] = e
      /\ \A i \in 1 .. n : m_entries'[i] = m_entries[i]
  BY <1>1 DEF CacheTyped
<1>3. macsOf[a] \in Seq(DeviceMacs) /\ Append(macsOf[a], hw) \in Seq(DeviceMacs)
  BY DEF CacheTyped
<1>4. CacheTyped'
  BY <1>1, <1>2, <1>3 DEF CacheTyped
<1>5. ASSUME NEW b \in Hosts
      PROVE  \E at : PlacesOf(b, at)'
  <2>1. PICK f : PlacesOf(b, f)
    BY DEF CacheKept
  <2> PICK m \in Nat : m = Len(macsOf[b])
    BY DEF CacheTyped
  <2>2. /\ f \in [1 .. m -> 1 .. n]
        /\ \A k \in 1 .. m : m_entries[f[k]].ip = b /\ m_entries[f[k]].mac = macsOf[b][k]
        /\ \A k, l \in 1 .. m : k < l => f[k] < f[l]
        /\ \A i \in 1 .. n : m_entries[i].ip = b => \E k \in 1 .. m : i = f[k]
    BY <2>1, Zenon DEF PlacesOf
  <2>3. \A k \in 1 .. m : f[k] \in 1 .. n /\ m_entries'[f[k]] = m_entries[f[k]]
    BY <1>2, <2>2
  <2>4. CASE b = a
    <3> PICK g : g = [k \in 1 .. m + 1 |-> IF k = m + 1 THEN n + 1 ELSE f[k]]
      OBVIOUS
    <3>1. /\ Len(macsOf'[b]) = m + 1 /\ macsOf'[b][m + 1] = hw
          /\ \A k \in 1 .. m : macsOf'[b][k] = macsOf[b][k]
      BY <1>1, <1>3, <2>4 DEF CacheTyped
    <3>2. /\ g[m + 1] = n + 1 /\ \A k \in 1 .. m : g[k] = f[k]
          /\ \A k \in 1 .. m + 1 : k = m + 1 \/ k \in 1 .. m
      OBVIOUS
    <3>3. g \in [1 .. m + 1 -> 1 .. n + 1]
      BY ONLY <2>3, m \in Nat, n \in Nat, g = [k \in 1 .. m + 1 |-> IF k = m + 1 THEN n + 1 ELSE f[k]]
    <3>4. \A k \in 1 .. m + 1 : m_entries'[g[k]].ip = b /\ m_entries'[g[k]].mac = macsOf'[b][k]
      BY <1>1, <1>2, <2>2, <2>3, <2>4, <3>1, <3>2
    <3>5. \A k, l \in 1 .. m + 1 : k < l => g[k] < g[l]
      BY ONLY <2>2, <2>3, <3>2, m \in Nat, n \in Nat
    <3>6. ASSUME NEW i \in 1 .. n + 1, m_entries'[i].ip = b
          PROVE  \E k \in 1 .. m + 1 : i = g[k]
      <4>1. CASE i = n + 1
        <5>1. m + 1 \in 1 .. m + 1
          OBVIOUS
        <5> QED
          BY <3>2, <4>1, <5>1, Zenon
      <4>2. CASE i # n + 1
        <5>1. i \in 1 .. n
          BY <4>2
        <5>2. PICK k \in 1 .. m : i = f[k]
          BY <1>2, <2>2, <3>6, <5>1
        <5>3. k \in 1 .. m + 1
          OBVIOUS
        <5> QED
          BY <3>2, <5>2, <5>3, Zenon
      <4> QED
        BY <4>1, <4>2
    <3>7. Len(m_entries') = n + 1
      BY <1>2
    <3>8. PlacesOf(b, g)'
      <4>1. \A i \in 1 .. n + 1 : m_entries'[i].ip = b => \E k \in 1 .. m + 1 : i = g[k]
        BY <3>6, Zenon
      <4> QED
        BY ONLY <3>1, <3>3, <3>4, <3>5, <3>7, <4>1, ZenonT(40) DEF PlacesOf
    <3> QED
      BY <3>8
  <2>5. CASE b # a
    <3>1. macsOf'[b] = macsOf[b] /\ Len(macsOf'[b]) = m
      BY <1>1, <2>5 DEF CacheTyped
    <3>2. f \in [1 .. m -> 1 .. n + 1]
      BY ONLY <2>2, n \in Nat, m \in Nat
    <3>3. \A k \in 1 .. m : m_entries'[f[k]].ip = b /\ m_entries'[f[k]].mac = macsOf'[b][k]
      BY <2>2, <2>3, <3>1
    <3>4. \A i \in 1 .. n + 1 : m_entries'[i].ip = b => \E k \in 1 .. m : i = f[k]
      <4>1. \A i \in 1 .. n + 1 : i = n + 1 \/ i \in 1 .. n
        OBVIOUS
      <4> QED
        BY <1>1, <1>2, <2>2, <2>5, <4>1
    <3>5. Len(m_entries') = n + 1
      BY <1>2
    <3>6. PlacesOf(b, f)'
      BY <2>2, <3>1, <3>2, <3>3, <3>4, <3>5, Zenon DEF PlacesOf
    <3> QED
      BY <3>6
  <2> QED
    BY <2>4, <2>5
<1> QED
  BY <1>4, <1>5, Zenon DEF CacheKept

LEMMA FirstOfPlaces ==
  ASSUME CacheTyped, NEW a \in Hosts, NEW at, PlacesOf(a, at)
  PROVE  FirstEntries(a) = IF Len(macsOf[a]) = 0 THEN {} ELSE {at[1]}
<1> PICK n \in Nat : n = Len(m_entries) /\ DOMAIN m_entries = 1 .. n
  BY DEF CacheTyped
<1> PICK m \in Nat : m = Len(macsOf[a])
  BY DEF CacheTyped
<1>1. /\ \A k \in 1 .. m : at[k] \in 1 .. n /\ m_entries[at[k]].ip = a
      /\ \A k, l \in 1 .. m : k < l => at[k] < at[l]
      /\ \A i \in 1 .. n : m_entries[i].ip = a => \E k \in 1 .. m : i = at[k]
  BY DEF PlacesOf
<1>2. CASE m = 0
  BY <1>1, <1>2 DEF FirstEntries
<1>3. CASE m # 0
  <2>1. 1 \in 1 .. m /\ \A k \in 1 .. m : k = 1 \/ 1 < k
    BY <1>3
  <2>2. \A j \in 1 .. at[1] - 1 : m_entries[j].ip # a
    BY <1>1, <2>1
  <2>3. at[1] \in FirstEntries(a)
    BY <1>1, <2>1, <2>2 DEF FirstEntries
  <2>4. ASSUME NEW i \in FirstEntries(a)
        PROVE  i = at[1]
    <3>1. PICK k \in 1 .. m : i = at[k]
      BY <1>1 DEF FirstEntries
    <3>2. ~ (at[1] \in 1 .. i - 1)
      BY <1>1, <2>1 DEF FirstEntries
    <3> QED
      BY <1>1, <2>1, <3>1, <3>2
  <2> QED
    BY <1>3, <2>3, <2>4
<1> QED
  BY <1>2, <1>3

LEMMA EntryRemoved ==
  ASSUME NEW s \in Seq(CacheEntry), NEW i \in 1 .. Len(s)
  PROVE  /\ RemoveAt(s, i) \in Seq(CacheEntry) /\ Len(RemoveAt(s, i)) = Len(s) - 1
         /\ \A j \in 1 .. Len(s) - 1 : RemoveAt(s, i)[j] = IF j < i THEN s[j] ELSE s[j + 1]
<1> DEFINE x == SubSeq(s, 1, i - 1)
           y == SubSeq(s, i + 1, Len(s))
<1>1. /\ x \in Seq(CacheEntry) /\ Len(x) = i - 1 /\ \A j \in 1 .. i - 1 : x[j] = s[j]
  BY SubSeqProperties
<1>2. /\ y \in Seq(CacheEntry) /\ Len(y) = Len(s) - i /\ \A j \in 1 .. Len(s) - i : y[j] = s[i + j]
  BY SubSeqProperties
<1> HIDE DEF x, y
<1>3. RemoveAt(s, i) = x \o y
  BY DEF RemoveAt, x, y
<1>4. /\ x \o y \in Seq(CacheEntry) /\ Len(x \o y) = Len(s) - 1
      /\ \A j \in 1 .. Len(s) - 1 : (x \o y)[j] = IF j < i THEN s[j] ELSE s[j + 1]
  <2>1. /\ x \o y \in Seq(CacheEntry) /\ Len(x \o y) = Len(s) - 1
        /\ \A j \in 1 .. Len(s) - 1 : (x \o y)[j] = IF j <= Len(x) THEN x[j] ELSE y[j - Len(x)]
    <3>1. /\ x \o y \in Seq(CacheEntry) /\ Len(x \o y) = Len(x) + Len(y)
          /\ \A j \in 1 .. Len(x) + Len(y) : (x \o y)[j] = IF j <= Len(x) THEN x[j] ELSE y[j - Len(x)]
      BY <1>1, <1>2, ConcatProperties, Zenon
    <3>2. Len(x) + Len(y) = Len(s) - 1
      BY <1>1, <1>2
    <3> QED
      BY <3>1, <3>2, Zenon
  <2>2. ASSUME NEW j \in 1 .. Len(s) - 1
        PROVE  (x \o y)[j] = IF j < i THEN s[j] ELSE s[j + 1]
    <3>1. CASE j < i
      <4>1. j \in 1 .. i - 1 /\ j <= Len(x)
        BY <1>1, <3>1
      <4> QED
        BY <1>1, <2>1, <3>1, <4>1, Zenon
    <3>2. CASE ~ (j < i)
      <4>1. j - Len(x) \in 1 .. Len(s) - i /\ ~ (j <= Len(x)) /\ i + (j - Len(x)) = j + 1
        BY <1>1, <3>2
      <4>2. y[j - Len(x)] = s[j + 1]
        BY <1>2, <4>1
      <4> QED
        BY <2>1, <3>2, <4>1, <4>2, Zenon
    <3> QED
      BY <3>1, <3>2
  <2> QED
    BY <2>1, <2>2, Zenon
<1> QED
  BY <1>3, <1>4, Zenon

\* The places of an address after one entry is gone: those behind it are one
\* less, and the first one of the address is gone with its MAC.
LEMMA RemoveKeepsCache ==
  ASSUME CacheTyped, CacheKept, NEW a \in Hosts, RemoveArpEntry(a)
  PROVE  CacheTyped' /\ CacheKept'
<1> PICK n \in Nat : n = Len(m_entries) /\ DOMAIN m_entries = 1 .. n
  BY DEF CacheTyped
<1>1. PICK i \in FirstEntries(a) : m_entries' = Removed(i)
  BY DEF RemoveArpEntry
<1>2. i \in 1 .. n /\ m_entries[i].ip = a
  BY <1>1 DEF FirstEntries
<1>3. /\ m_entries' \in Seq(CacheEntry) /\ Len(m_entries') = n - 1
      /\ \A j \in 1 .. n - 1 : m_entries'[j] = IF j < i THEN m_entries[j] ELSE m_entries[j + 1]
  BY <1>1, <1>2, EntryRemoved DEF Removed, CacheTyped
<1>4. PICK h : PlacesOf(a, h)
  BY DEF CacheKept
<1>5. Len(macsOf[a]) \in Nat /\ macsOf[a] \in Seq(DeviceMacs)
  BY DEF CacheTyped
<1>6. Len(macsOf[a]) # 0 /\ i = h[1]
  BY <1>1, <1>4, FirstOfPlaces
<1>7. /\ macsOf' = [macsOf EXCEPT ![a] = Tail(macsOf[a])] /\ Tail(macsOf[a]) \in Seq(DeviceMacs)
      /\ Len(Tail(macsOf[a])) = Len(macsOf[a]) - 1
      /\ \A k \in 1 .. Len(macsOf[a]) - 1 : Tail(macsOf[a])[k] = macsOf[a][k + 1]
  BY <1>5, <1>6 DEF RemoveArpEntry
<1>8. CacheTyped'
  BY <1>3, <1>7 DEF CacheTyped
\* Where an entry that stays is found now.
<1> DEFINE now(j) == IF j < i THEN j ELSE j - 1
<1>9. \A j \in 1 .. n : j # i => now(j) \in 1 .. n - 1 /\ m_entries'[now(j)] = m_entries[j]
  BY ONLY <1>2, <1>3, n \in Nat
<1>10. \A j, k \in 1 .. n : j < k /\ j # i /\ k # i => now(j) < now(k)
  BY ONLY <1>2, n \in Nat
<1>11. ASSUME NEW j \in 1 .. n - 1
       PROVE  \E k \in 1 .. n : k # i /\ j = now(k)
  <2>1. CASE j < i
    <3>1. j \in 1 .. n /\ j # i /\ j = now(j)
      BY <2>1
    <3> QED
      BY <3>1, Zenon
  <2>2. CASE ~ (j < i)
    <3>1. j + 1 \in 1 .. n /\ j + 1 # i /\ j = now(j + 1)
      BY <1>2, <2>2
    <3> QED
      BY <3>1, Zenon
  <2> QED
    BY <2>1, <2>2
<1> HIDE DEF now
<1>12. ASSUME NEW b \in Hosts
       PROVE  \E at : PlacesOf(b, at)'
  <2>1. PICK f : PlacesOf(b, f)
    BY DEF CacheKept
  <2> PICK m \in Nat : m = Len(macsOf[b])
    BY DEF CacheTyped
  <2>2. /\ f \in [1 .. m -> 1 .. n]
        /\ \A k \in 1 .. m : m_entries[f[k]].ip = b /\ m_entries[f[k]].mac = macsOf[b][k]
        /\ \A k, l \in 1 .. m : k < l => f[k] < f[l]
        /\ \A j \in 1 .. n : m_entries[j].ip = b => \E k \in 1 .. m : j = f[k]
    BY <2>1, Zenon DEF PlacesOf
  <2>3. \A k \in 1 .. m : f[k] \in 1 .. n
    BY <2>2
  <2>4. CASE b = a
    <3>1. Len(macsOf[b]) # 0 /\ i = f[1]
      BY <1>1, <2>1, <2>4, FirstOfPlaces
    <3>2. m # 0 /\ 1 \in 1 .. m /\ m - 1 \in Nat
      BY <3>1
    <3>3. \A k \in 1 .. m - 1 : k + 1 \in 1 .. m /\ 1 < k + 1
      OBVIOUS
    <3>4. \A k \in 1 .. m - 1 : f[k + 1] \in 1 .. n /\ f[k + 1] # i
      <4>1. \A k \in 1 .. m - 1 : f[1] < f[k + 1]
        BY <2>2, <3>2, <3>3
      <4> QED
        BY <2>3, <3>1, <3>2, <3>3, <4>1
    <3> PICK g : g = [k \in 1 .. m - 1 |-> now(f[k + 1])]
      OBVIOUS
    <3>5. \A k \in 1 .. m - 1 : g[k] = now(f[k + 1])
      OBVIOUS
    <3>6. g \in [1 .. m - 1 -> 1 .. n - 1]
      BY ONLY <1>9, <3>4, g = [k \in 1 .. m - 1 |-> now(f[k + 1])]
    <3>7. /\ Len(macsOf'[b]) = m - 1 /\ \A k \in 1 .. m - 1 : macsOf'[b][k] = macsOf[b][k + 1]
      BY <1>7, <2>4 DEF CacheTyped
    <3>8. \A k \in 1 .. m - 1 : m_entries'[g[k]].ip = b /\ m_entries'[g[k]].mac = macsOf'[b][k]
      BY <1>9, <2>2, <3>3, <3>4, <3>5, <3>7
    <3>9. \A k, l \in 1 .. m - 1 : k < l => g[k] < g[l]
      <4>1. \A k, l \in 1 .. m - 1 : k < l => f[k + 1] < f[l + 1]
        <5>1. \A k, l \in 1 .. m - 1 : k < l => k + 1 < l + 1
          OBVIOUS
        <5> QED
          BY <2>2, <3>3, <5>1, Zenon
      <4> QED
        BY <1>10, <3>4, <3>5, <4>1, Zenon
    <3>10. ASSUME NEW j \in 1 .. n - 1, m_entries'[j].ip = b
           PROVE  \E k \in 1 .. m - 1 : j = g[k]
      <4>1. PICK x \in 1 .. n : x # i /\ j = now(x)
        BY <1>11
      <4>2. PICK k \in 1 .. m : x = f[k]
        BY <1>9, <2>2, <3>10, <4>1
      <4>3. k # 1
        BY <3>1, <4>1, <4>2
      <4>4. k - 1 \in 1 .. m - 1 /\ (k - 1) + 1 = k
        BY <4>3
      <4>5. g[k - 1] = now(f[k])
        BY <3>5, <4>4
      <4> QED
        BY <4>1, <4>2, <4>4, <4>5, Zenon
    <3>11. PlacesOf(b, g)'
      <4>1. \A j \in 1 .. n - 1 : m_entries'[j].ip = b => \E k \in 1 .. m - 1 : j = g[k]
        BY <3>10, Zenon
      <4>2. Len(m_entries') = n - 1
        BY <1>3
      <4> QED
        BY ONLY <3>6, <3>7, <3>8, <3>9, <4>1, <4>2, ZenonT(40) DEF PlacesOf
    <3> QED
      BY <3>11
  <2>5. CASE b # a
    <3>1. macsOf'[b] = macsOf[b] /\ Len(macsOf'[b]) = m
      BY <1>7, <2>5 DEF CacheTyped
    <3>2. \A k \in 1 .. m : f[k] \in 1 .. n /\ f[k] # i
      BY <1>2, <2>2, <2>3, <2>5
    <3> PICK g : g = [k \in 1 .. m |-> now(f[k])]
      OBVIOUS
    <3>3. \A k \in 1 .. m : g[k] = now(f[k])
      OBVIOUS
    <3>4. g \in [1 .. m -> 1 .. n - 1]
      BY ONLY <1>9, <3>2, g = [k \in 1 .. m |-> now(f[k])]
    <3>5. \A k \in 1 .. m : m_entries'[g[k]].ip = b /\ m_entries'[g[k]].mac = macsOf'[b][k]
      BY <1>9, <2>2, <3>1, <3>2, <3>3
    <3>6. \A k, l \in 1 .. m : k < l => g[k] < g[l]
      BY <1>10, <2>2, <3>2, <3>3, Zenon
    <3>7. ASSUME NEW j \in 1 .. n - 1, m_entries'[j].ip = b
          PROVE  \E k \in 1 .. m : j = g[k]
      <4>1. PICK x \in 1 .. n : x # i /\ j = now(x)
        BY <1>11
      <4>2. PICK k \in 1 .. m : x = f[k]
        BY <1>9, <2>2, <3>7, <4>1
      <4> QED
        BY <3>3, <4>1, <4>2, Zenon
    <3>8. PlacesOf(b, g)'
      <4>1. \A j \in 1 .. n - 1 : m_entries'[j].ip = b => \E k \in 1 .. m : j = g[k]
        BY <3>7, Zenon
      <4>2. Len(m_entries') = n - 1
        BY <1>3
      <4> QED
        BY ONLY <3>1, <3>4, <3>5, <3>6, <4>1, <4>2, ZenonT(40) DEF PlacesOf
    <3> QED
      BY <3>8
  <2> QED
    BY <2>4, <2>5
<1> QED
  BY <1>8, <1>12, Zenon DEF CacheKept

\* Lookup over such a cache.
LEMMA KeptMacsFound ==
  ASSUME CacheTyped, CacheKept
  PROVE  LookupIsOldestMac
<1> SUFFICES ASSUME NEW a \in Hosts
             PROVE  LookupArp(a) = IF macsOf[a] = <<>> THEN NoRoute ELSE Head(macsOf[a])
  BY Zenon DEF LookupIsOldestMac
<1>1. PICK at : PlacesOf(a, at)
  BY DEF CacheKept
<1>2. FirstEntries(a) = IF Len(macsOf[a]) = 0 THEN {} ELSE {at[1]}
  BY <1>1, FirstOfPlaces
<1>3. macsOf[a] \in Seq(DeviceMacs) /\ (macsOf[a] = <<>> <=> Len(macsOf[a]) = 0)
  BY DEF CacheTyped
<1>4. CASE Len(macsOf[a]) = 0
  BY <1>2, <1>3, <1>4, Zenon DEF LookupArp
<1>5. CASE Len(macsOf[a]) # 0
  <2>1. 1 \in 1 .. Len(macsOf[a]) /\ Head(macsOf[a]) = macsOf[a][1]
    BY <1>3, <1>5
  <2>2. m_entries[at[1]].mac = Head(macsOf[a])
    BY <1>1, <2>1 DEF PlacesOf
  <2>3. FirstEntries(a) = {at[1]} /\ FirstEntries(a) # {}
    BY <1>2, <1>5
  <2>4. (CHOOSE j \in FirstEntries(a) : TRUE) = at[1]
    BY <2>3
  <2>5. LookupArp(a) = m_entries[at[1]].mac
    BY <2>3, <2>4, Zenon DEF LookupArp
  <2> QED
    BY <1>3, <1>5, <2>2, <2>5
<1> QED
  BY <1>4, <1>5

----------------------------------------------------------------------------
\* Whatever is added and removed, a lookup of a route answers with the longest
\* prefix that is there, and one of a MAC with the oldest of the address: the
\* CPU removes a route by moving the last entry into its place, and an ARP
\* entry by moving up those behind it (CudaIpv4StaticRouting, CudaArpCache).
THEOREM LookupsRightHolds == TablesSpec => []LookupsRight
<1> DEFINE IInv == RouteEntries /\ RoutesKept /\ CacheTyped /\ CacheKept
<1>1. TablesInit => IInv
  BY RoutesStart, CacheStart
<1>2. IInv /\ [TablesNext]_ipTableVars => IInv'
  <2> SUFFICES ASSUME IInv, [TablesNext]_ipTableVars PROVE IInv'
    OBVIOUS
  <2>1. UNCHANGED <<m_routes, routeOf>> => RouteEntries' /\ RoutesKept'
    BY DEF RouteEntries, RoutesKept
  <2>2. ASSUME UNCHANGED <<m_entries, macsOf>> PROVE CacheTyped' /\ CacheKept'
    <3>1. CacheTyped'
      BY <2>2 DEF CacheTyped
    <3>2. \A a \in Hosts : \A at : PlacesOf(a, at) => PlacesOf(a, at)'
      BY <2>2, Zenon DEF PlacesOf
    <3> QED
      BY <3>1, <3>2, Zenon DEF CacheKept
  <2>3. ASSUME NEW p \in Subnets, RemoveRoute(p) PROVE IInv'
    BY <2>2, <2>3, RemoveKeepsRoutes DEF RemoveRoute
  <2>4. ASSUME NEW p \in Subnets, NEW r \in Route, AddRoute(p, r) PROVE IInv'
    BY <2>2, <2>4, AddKeepsRoutes DEF AddRoute
  <2>5. ASSUME NEW a \in Hosts, RemoveArpEntry(a) PROVE IInv'
    BY <2>1, <2>5, RemoveKeepsCache DEF RemoveArpEntry
  <2>6. ASSUME NEW a \in Hosts, NEW hw \in DeviceMacs, AddArpEntry(a, hw) PROVE IInv'
    BY <2>1, <2>6, AddKeepsCache DEF AddArpEntry
  <2>7. CASE ClearRoutes
    <3>1. RouteEntries' /\ RoutesKept'
      BY <2>7 DEF ClearRoutes, RouteEntries, RoutesKept
    <3> QED
      BY <2>2, <2>7, <3>1 DEF ClearRoutes
  <2>8. CASE ClearArp
    <3>1. CacheTyped' /\ Len(m_entries') = 0 /\ \A a \in Hosts : Len(macsOf'[a]) = 0
      BY <2>8 DEF ClearArp, CacheTyped
    <3>2. ASSUME NEW a \in Hosts, NEW at, at = [k \in 1 .. 0 |-> 1]
          PROVE  PlacesOf(a, at)'
      BY <3>1, <3>2 DEF PlacesOf
    <3>3. CacheKept'
      BY <3>2, Zenon DEF CacheKept
    <3> QED
      BY <2>1, <2>8, <3>1, <3>3 DEF ClearArp
  <2>9. CASE UNCHANGED ipTableVars
    BY <2>1, <2>2, <2>9 DEF ipTableVars
  <2> HIDE DEF IInv
  <2> QED
    BY <2>3, <2>4, <2>5, <2>6, <2>7, <2>8, <2>9, Zenon DEF TablesNext
<1>3. IInv => LookupsRight
  BY KeptRoutesFound, KeptMacsFound DEF LookupsRight
<1> QED
  BY <1>1, <1>2, <1>3, PTL DEF TablesSpec
=============================================================================
