------------------------- MODULE ElpSimulator_proofs -------------------------
(***************************************************************************)
(* Proofs about ELP_RunSK for every number of slots, threads and event     *)
(* kinds, every warp size, set of lookaheads and bounds: types, no         *)
(* straggler, and the buffers of a running kernel are its own.             *)
(***************************************************************************)
EXTENDS ElpSimulator, FiniteSetTheorems, TLAPS

USE DEF Bufs, Other

\* The constants, one fact at a time.
LEMMA Constants ==
  /\ WarpSize \in Nat \ {0} /\ Forever \in Nat /\ Lookaheads \subseteq Nat
  /\ Types \subseteq Nat /\ Cpu \notin Types /\ MaxTs \in Nat
  /\ None \notin Event
<1>1. Types \subseteq Nat
  BY ElpAssumption, FS_CardinalityType DEF ElpAssumption
<1> QED
  BY <1>1, ElpAssumption, InitialAssumption DEF ElpAssumption

\* The fields of an event; a device event is not a CPU event.
LEMMA EventFields == ASSUME NEW e \in Event
  PROVE  /\ e.eid \in Nat /\ e.ts \in Nat /\ e.la \in Nat /\ e # None
         /\ e.type # Cpu => e \in DeviceEvent
BY Constants DEF Event, DeviceEvent, CpuEvent

LEMMA DeviceEventFields == ASSUME NEW e \in DeviceEvent
  PROVE  /\ e \in Event /\ e.type \in Types /\ e.type # Cpu /\ e # None
         /\ e.eid \in Nat /\ e.ts \in Nat /\ e.la \in Nat
BY Constants DEF Event, DeviceEvent

\* Lower(ts, e) is a timestamp, at most ts and at most e's earliest child.
LEMMA LowerBounds == ASSUME NEW ts \in Nat, NEW e \in Event
  PROVE  /\ Lower(ts, e) \in Nat /\ Lower(ts, e) <= ts
         /\ e.la # Forever => Lower(ts, e) <= EarliestChild(e)
         /\ \A x \in Nat : x <= ts /\ x <= e.ts => x <= Lower(ts, e)
         /\ e.la = Forever \/ ts <= EarliestChild(e) => Lower(ts, e) = ts
BY EventFields DEF Lower, Min2, EarliestChild

LEMMA Counts == Cardinality(InitialEvents) \in Nat /\ Cardinality(Types) \in Nat
BY ElpAssumption, InitialAssumption, FS_CardinalityType DEF ElpAssumption

\* The type invariant holds initially.
LEMMA InitTypeOK == Init => TypeOK
<1> SUFFICES ASSUME Init PROVE TypeOK
  OBVIOUS
<1> USE DEF Init
<1>1. m_events \subseteq Event
  BY InitialAssumption DEF Init
<1>2. /\ m_eventsWithContext \subseteq [eid : Nat, delay : Nat]
      /\ IsFiniteSet(m_eventsWithContext)
  BY FS_EmptySet
<1>3. /\ m_unscheduledEvents \in Int /\ m_eventCount \in Nat /\ born \in Nat
      /\ next_avail_warp \in Nat
  BY Counts
<1>4. /\ safe_ts \in Nat /\ d_safe_ts \in [Bufs -> Nat] /\ old \in Nat
      /\ warp_index \in [Types -> Nat] /\ warp_thread_index \in [Types -> 0 .. WarpSize - 1]
  BY Constants
<1>5. hostBuf \in [Bufs -> [Slots -> DeviceEvent \cup {None}]]
  BY DEF Init
<1> QED
  BY <1>1, <1>2, <1>3, <1>4, <1>5 DEF TypeOK

\* What ChangeHostQueue does to the types.
LEMMA ChangeHostQueueTypes == ASSUME TypeOK, ChangeHostQueue
  PROVE  /\ d_bufrdy' \in [Bufs -> {0, 1}] /\ d_curDevBuf' \in Bufs
         /\ h_bufrdy' \in [Bufs -> {0, 1}] /\ h_curHostBuf' \in Bufs
         /\ d_safe_ts' \in [Bufs -> Nat] /\ k_buf' \in Bufs
         /\ warp_index' \in [Types -> Nat]
         /\ warp_thread_index' \in [Types -> 0 .. WarpSize - 1]
         /\ next_avail_warp' \in Nat
         /\ hostBuf' = hostBuf /\ devBuf' = devBuf
BY Constants, Counts
   DEF TypeOK, ChangeHostQueue, ChangeDevQueue, ReleaseBound

\* The device event an action takes off the heap.
LEMMA Dispatched == ASSUME TypeOK, ELP_ProcessOneEvent
  PROVE  \E e \in m_events :
           /\ e \in DeviceEvent /\ IsNext(e) /\ e.ts < safe_ts /\ cur' = e
           /\ safe_ts' = Lower(safe_ts, e) /\ m_events' = m_events \ {e}
           /\ m_currentTs' = IF e.ts > m_currentTs THEN e.ts ELSE m_currentTs
BY EventFields DEF TypeOK, ELP_ProcessOneEvent, IsSafe, Advance

\* Every step preserves the types.
LEMMA TypeOKStep == TypeOK /\ [Next]_vars => TypeOK'
<1> SUFFICES ASSUME TypeOK, [Next]_vars PROVE TypeOK'
  OBVIOUS
<1> USE DEF heapVars, clockVars, safeVars, warpVars, hostVars, devVars
<1>1. ASSUME LoopHead PROVE TypeOK'
  BY <1>1 DEF LoopHead, TypeOK
<1>2. ASSUME CollectStart PROVE TypeOK'
  BY <1>2 DEF CollectStart, TypeOK
<1>3. ASSUME ELP_Schedule PROVE TypeOK'
  BY <1>3 DEF ELP_Schedule, TypeOK, Event
<1>4. ASSUME CollectNext PROVE TypeOK'
  BY <1>4 DEF CollectNext, TypeOK
<1>5. ASSUME Refresh PROVE TypeOK'
  BY <1>5 DEF Refresh, BufferBound, Min2, TypeOK
<1>6. ASSUME Change PROVE TypeOK'
  <2>1. ChangeHostQueue
    BY <1>6 DEF Change
  <2> QED
    BY <1>6, <2>1, ChangeHostQueueTypes DEF Change, TypeOK
<1>7. ASSUME ELP_ProcessOneEvent PROVE TypeOK'
  <2>1. PICK e \in m_events :
           /\ e \in DeviceEvent /\ cur' = e
           /\ safe_ts' = Lower(safe_ts, e) /\ m_events' = m_events \ {e}
           /\ m_currentTs' = IF e.ts > m_currentTs THEN e.ts ELSE m_currentTs
    BY <1>7, Dispatched
  <2>2. safe_ts' \in Nat /\ m_currentTs' \in Nat /\ cur' # None
    BY <2>1, LowerBounds, DeviceEventFields DEF TypeOK
  <2> QED
    BY <1>7, <2>1, <2>2 DEF ELP_ProcessOneEvent, TypeOK
<1>8. ASSUME ClaimFull PROVE TypeOK'
  <2>1. ChangeHostQueue
    BY <1>8 DEF ClaimFull
  <2> QED
    BY <1>8, <2>1, ChangeHostQueueTypes DEF ClaimFull, TypeOK
<1>9. ASSUME h_insert_sort PROVE TypeOK'
  <2>1. cur \in DeviceEvent /\ cur.type \in Types
    BY <1>9, DeviceEventFields DEF h_insert_sort, TypeOK
  <2>2. safe_ts' \in Nat /\ d_safe_ts' \in [Bufs -> Nat]
    BY <1>9, <2>1, LowerBounds, DeviceEventFields DEF h_insert_sort, TypeOK
  <2>3. /\ warp_index' \in [Types -> Nat] /\ next_avail_warp' \in Nat
        /\ warp_thread_index' \in [Types -> 0 .. WarpSize - 1]
    <3>1. warp_thread_index[cur.type] \in 0 .. WarpSize - 1
      BY <2>1 DEF TypeOK
    <3>2. CASE WarpFull(cur.type)
      BY <1>9, <2>1, <3>2, Constants DEF h_insert_sort, TypeOK
    <3>3. CASE ~WarpFull(cur.type)
      <4>1. warp_thread_index[cur.type] + 1 \in 0 .. WarpSize - 1
        BY <3>1, <3>3, Constants DEF WarpFull
      <4> QED
        BY <1>9, <2>1, <3>3, <4>1 DEF h_insert_sort, TypeOK
    <3> QED
      BY <3>2, <3>3
  <2>4. hostBuf' \in [Bufs -> [Slots -> DeviceEvent \cup {None}]]
    BY <1>9, <2>1 DEF h_insert_sort, TypeOK
  <2> QED
    BY <1>9, <2>2, <2>3, <2>4 DEF h_insert_sort, TypeOK
<1>10. ASSUME ProcessOneEvent PROVE TypeOK'
  <2>1. PICK e \in m_events : /\ m_events' = m_events \ {e} /\ m_currentTs' = e.ts
                              /\ executed' = executed \cup {e.eid}
    BY <1>10 DEF ProcessOneEvent
  <2>2. m_events' \subseteq Event /\ m_currentTs' \in Nat /\ executed' \subseteq Nat
    BY <2>1, EventFields DEF TypeOK
  <2>3. /\ m_unscheduledEvents' = m_unscheduledEvents - 1
        /\ m_eventCount' = m_eventCount + 1 /\ pc = "peek" /\ pc' = "handler"
        /\ UNCHANGED <<m_eventsWithContext, m_stop, safeVars, old, hostVars, warpVars,
                        devVars, h_curDevBuf, k_buf, cur, born>>
    BY <1>10 DEF ProcessOneEvent
  <2> QED
    BY <2>2, <2>3 DEF TypeOK
<1>11. ASSUME Schedule PROVE TypeOK'
  <2>1. m_events' \subseteq Event
    BY <1>11, Constants
       DEF Schedule, NewEvent, TypeOK, Event, DeviceEvent, CpuEvent
  <2> QED
    BY <1>11, <2>1 DEF Schedule, TypeOK
<1>12. ASSUME Stop PROVE TypeOK'
  BY <1>12 DEF Stop, TypeOK
<1>13. ASSUME HandlerReturn PROVE TypeOK'
  <2>1. m_unscheduledEvents' \in Int
    BY <1>13, FS_CardinalityType DEF HandlerReturn, ProcessEventsWithContext, TypeOK
  <2>2. m_events' \subseteq Event
    BY <1>13 DEF HandlerReturn, ProcessEventsWithContext, TypeOK, Event, CpuEvent
  <2> QED
    BY <1>13, <2>1, <2>2, FS_EmptySet
       DEF HandlerReturn, ProcessEventsWithContext, TypeOK
<1>14. ASSUME ScheduleWithContext PROVE TypeOK'
  <2>1. PICK delay \in 0 .. MaxTs :
          m_eventsWithContext' = m_eventsWithContext \cup
                                   {[eid |-> born + 1, delay |-> delay]}
    BY <1>14 DEF ScheduleWithContext
  <2>2. m_eventsWithContext' \subseteq [eid : Nat, delay : Nat]
    BY <2>1, Constants DEF TypeOK
  <2>3. IsFiniteSet(m_eventsWithContext')
    BY <2>1, FS_AddElement DEF TypeOK
  <2> QED
    BY <1>14, <2>2, <2>3 DEF ScheduleWithContext, TypeOK
<1>15. ASSUME Synchronize PROVE TypeOK'
  BY <1>15 DEF Synchronize, TypeOK
<1>16. ASSUME NEW i \in Slots, d_insert(i) PROVE TypeOK'
  <2>1. PICK x \in DeviceEvent :
          devBuf' = [devBuf EXCEPT ![d_curDevBuf] = @ \cup {x}]
    <3>1. hostBuf[k_buf][i] \in DeviceEvent
      BY <1>16 DEF d_insert, Working, TypeOK
    <3>2. FirstChild(hostBuf[k_buf][i]) \in Nat
      BY <3>1, DeviceEventFields, Constants DEF FirstChild, EarliestChild
    <3>3. PICK ts \in FirstChild(hostBuf[k_buf][i]) .. MaxTs, k \in Types,
               la \in Lookaheads \cup {Forever} :
            devBuf' = [devBuf EXCEPT ![d_curDevBuf] = @ \cup {NewEvent(ts, k, la)}]
      BY <1>16 DEF d_insert
    <3>4. NewEvent(ts, k, la) \in DeviceEvent
      BY <3>2, <3>3, Constants DEF NewEvent, DeviceEvent, TypeOK
    <3> QED
      BY <3>3, <3>4
  <2> QED
    BY <1>16, <2>1 DEF d_insert, TypeOK
<1>17. ASSUME NEW i \in Slots, Retire(i) PROVE TypeOK'
  <2>1. hostBuf[k_buf][i] \in DeviceEvent /\ k_buf \in Bufs
    BY <1>17 DEF Retire, Working, TypeOK
  <2>2. executed' \subseteq Nat
    BY <1>17, <2>1, DeviceEventFields DEF Retire, TypeOK
  <2> QED
    BY <1>17, <2>1, <2>2 DEF Retire, TypeOK
<1>18. ASSUME Finished \/ UNCHANGED vars PROVE TypeOK'
  <2>1. UNCHANGED vars
    BY <1>18 DEF Finished
  <2> QED
    BY <2>1 DEF vars, TypeOK
<1> QED
  BY <1>1, <1>2, <1>3, <1>4, <1>5, <1>6, <1>7, <1>8, <1>9, <1>10, <1>11, <1>12, <1>13,
     <1>14, <1>15, <1>16, <1>17, <1>18
     DEF Next, HostStep, KernelStep

\* The state of ELP_RunSK is well typed in every run.
THEOREM TypeCorrect == Spec => []TypeOK
<1>1. Init => TypeOK
  BY InitTypeOK
<1>2. TypeOK /\ [Next]_vars => TypeOK'
  BY TypeOKStep
<1> QED
  BY <1>1, <1>2, PTL DEF Spec

----------------------------------------------------------------------------
(* The inductive invariant.  A bound of safe_ts must hold wherever an event *)
(* that may still generate others, or one already generated, can be.        *)

\* The kernel works on the buffer that the CPU is not filling; once it is
\* idle, that buffer is empty.
KernelBuffer ==
  /\ k_buf \in {0, Other(h_curHostBuf)}
  /\ h_bufrdy[h_curHostBuf] = 0
  /\ k_buf # 0 => h_bufrdy[k_buf] = 1
  /\ k_buf = 0 => \A i \in Slots : hostBuf[Other(h_curHostBuf)][i] = None

\* Only the buffer the kernel does not write is ever ready or collected, and
\* it is empty before the CPU looks at the heap.
DeviceBuffers ==
  /\ d_bufrdy[d_curDevBuf] = 0
  /\ devBuf[Other(d_curDevBuf)] # {} => d_bufrdy[Other(d_curDevBuf)] = 1
  /\ pc = "collect1" => h_curDevBuf = Other(d_curDevBuf)
  /\ pc # "collect2"
  /\ pc \in {"peek", "change", "claim"} => d_bufrdy[Other(d_curDevBuf)] = 0

\* d_safe_ts[b] bounds what the events of buffer b can generate, and what
\* the running kernel has generated.
BufferBounds ==
  /\ \A b \in Bufs : d_safe_ts[b] <= Forever
  /\ \A b \in Bufs, i \in Slots :
       hostBuf[b][i] # None /\ hostBuf[b][i].la # Forever =>
         d_safe_ts[b] <= EarliestChild(hostBuf[b][i])
  /\ \A e \in devBuf[d_curDevBuf] : k_buf # 0 /\ d_safe_ts[k_buf] <= e.ts

\* safe_ts bounds both buffers, the event on its way to one of them and what
\* has been generated but not collected.
SafeBounds ==
  /\ \A b \in Bufs : safe_ts <= d_safe_ts[b]
  /\ cur # None /\ cur.la # Forever => safe_ts <= EarliestChild(cur)
  /\ \A e \in devBuf[Other(d_curDevBuf)] : safe_ts <= e.ts

\* The clock is behind the heap and behind safe_ts.
ClockBounds ==
  /\ \A e \in m_events : m_currentTs <= e.ts
  /\ m_currentTs <= safe_ts

Ownership == TypeOK /\ KernelBuffer /\ DeviceBuffers
IInv == Ownership /\ BufferBounds /\ SafeBounds /\ ClockBounds


LEMMA InitOwnership == Init => Ownership
<1> SUFFICES ASSUME Init PROVE Ownership
  OBVIOUS
<1>1. KernelBuffer /\ DeviceBuffers
  BY DEF Init, KernelBuffer, DeviceBuffers
<1> QED
  BY <1>1, InitTypeOK DEF Ownership

\* ChangeHostQueue hands the buffers over: the one released is empty.
LEMMA ChangeHostQueueOwnership ==
  ASSUME Ownership, ChangeHostQueue, pc \in {"change", "claim"},
         pc' \in {"loop", "insert"}, UNCHANGED h_curDevBuf
  PROVE  /\ KernelBuffer' /\ DeviceBuffers'
         /\ \A i \in Slots : hostBuf[Other(h_curHostBuf)][i] = None
         /\ devBuf[Other(d_curDevBuf)] = {}
<1> DEFINE fill == h_curHostBuf
           free == Other(h_curHostBuf)
           written == d_curDevBuf
           other == Other(d_curDevBuf)
<1>1. /\ fill \in Bufs /\ free \in Bufs /\ written \in Bufs /\ other \in Bufs
      /\ fill # free /\ written # other /\ Other(free) = fill /\ Other(other) = written
  BY DEF Ownership, TypeOK
<1>2. /\ k_buf' = fill /\ h_curHostBuf' = free /\ d_curDevBuf' = other
      /\ hostBuf' = hostBuf /\ devBuf' = devBuf
      /\ h_bufrdy' = [h_bufrdy EXCEPT ![fill] = 1, ![free] = 0]
      /\ d_bufrdy' = [d_bufrdy EXCEPT ![written] = 1]
  BY DEF ChangeHostQueue, ChangeDevQueue
<1>3. \A i \in Slots : hostBuf[free][i] = None
  BY DEF ChangeHostQueue, KernelIdle, Ownership, KernelBuffer
<1>4. devBuf[other] = {} /\ d_bufrdy[other] = 0
  BY DEF Ownership, DeviceBuffers, TypeOK
<1>5. KernelBuffer'
  BY <1>1, <1>2 DEF KernelBuffer, Ownership, TypeOK
<1>6. DeviceBuffers'
  BY <1>1, <1>2, <1>4 DEF DeviceBuffers, Ownership, TypeOK
<1> QED
  BY <1>3, <1>4, <1>5, <1>6

\* Every step preserves the ownership of the buffers, whatever the lookaheads.
LEMMA OwnershipStep == Ownership /\ [Next]_vars => Ownership'
<1> SUFFICES ASSUME Ownership, [Next]_vars PROVE KernelBuffer' /\ DeviceBuffers'
  BY TypeOKStep DEF Ownership
<1>t. TypeOK
  BY DEF Ownership
<1> USE DEF heapVars, clockVars, safeVars, warpVars, hostVars, devVars
<1>1. ASSUME LoopHead \/ Stop \/ Synchronize \/ Refresh \/ ELP_ProcessOneEvent
             \/ ProcessOneEvent \/ Schedule \/ HandlerReturn \/ ScheduleWithContext
      PROVE  KernelBuffer' /\ DeviceBuffers'
  BY <1>1 DEF LoopHead, Stop, Synchronize, Refresh, ELP_ProcessOneEvent, ProcessOneEvent,
     Schedule, HandlerReturn, ProcessEventsWithContext, ScheduleWithContext,
     Ownership, KernelBuffer, DeviceBuffers
<1>2. ASSUME CollectStart \/ CollectNext PROVE KernelBuffer' /\ DeviceBuffers'
  <2>1. DeviceBuffers'
    BY <1>2, <1>t DEF CollectStart, CollectNext, TypeOK, Ownership, DeviceBuffers
  <2> QED
    BY <1>2, <2>1 DEF CollectStart, CollectNext, Ownership, KernelBuffer
<1>3. ASSUME ELP_Schedule PROVE KernelBuffer' /\ DeviceBuffers'
  BY <1>3, <1>t DEF ELP_Schedule, TypeOK, Ownership, DeviceBuffers, KernelBuffer
<1>4. ASSUME Change \/ ClaimFull PROVE KernelBuffer' /\ DeviceBuffers'
  BY <1>4, ChangeHostQueueOwnership DEF Change, ClaimFull
<1>5. ASSUME h_insert_sort PROVE KernelBuffer' /\ DeviceBuffers'
  <2>1. PICK j : hostBuf' = [hostBuf EXCEPT ![h_curHostBuf][j] = cur]
    BY <1>5 DEF h_insert_sort
  <2>2. hostBuf'[Other(h_curHostBuf)] = hostBuf[Other(h_curHostBuf)]
    BY <1>t, <2>1 DEF TypeOK
  <2> QED
    BY <1>5, <2>2 DEF h_insert_sort, Ownership, KernelBuffer, DeviceBuffers
<1>6. ASSUME NEW i \in Slots, d_insert(i) PROVE KernelBuffer' /\ DeviceBuffers'
  <2>1. PICK new : devBuf' = [devBuf EXCEPT ![d_curDevBuf] = @ \cup {new}]
    BY <1>6 DEF d_insert
  <2>2. devBuf'[Other(d_curDevBuf)] = devBuf[Other(d_curDevBuf)]
    BY <1>t, <2>1 DEF TypeOK
  <2> QED
    BY <1>6, <2>2 DEF d_insert, Ownership, KernelBuffer, DeviceBuffers
<1>7. ASSUME NEW i \in Slots, Retire(i) PROVE KernelBuffer' /\ DeviceBuffers'
  <2>1. k_buf # 0
    BY <1>7 DEF Retire, Working
  <2> QED
    BY <1>7, <2>1 DEF Retire, Ownership, KernelBuffer, DeviceBuffers
<1>8. ASSUME Finished \/ UNCHANGED vars PROVE KernelBuffer' /\ DeviceBuffers'
  BY <1>8 DEF Finished, vars, Ownership, KernelBuffer, DeviceBuffers
<1> QED
  BY <1>1, <1>2, <1>3, <1>4, <1>5, <1>6, <1>7, <1>8 DEF Next, HostStep, KernelStep

\* While the kernel runs, the buffers it reads and writes are its own, in
\* any run and whatever the lookaheads.
THEOREM KernelOwnsItsBuffersHolds == Spec => []KernelOwnsItsBuffers
<1>1. Init => Ownership
  BY InitOwnership
<1>2. Ownership /\ [Next]_vars => Ownership'
  BY OwnershipStep
<1>3. Ownership => KernelOwnsItsBuffers
  BY DEF Ownership, TypeOK, KernelBuffer, DeviceBuffers, KernelOwnsItsBuffers, KernelIdle
<1> QED
  BY <1>1, <1>2, <1>3, PTL DEF Spec

----------------------------------------------------------------------------
LEMMA InitIInv == Init => IInv
<1> SUFFICES ASSUME Init PROVE IInv
  OBVIOUS
<1>1. BufferBounds /\ SafeBounds
  BY Constants DEF Init, BufferBounds, SafeBounds
<1>2. ClockBounds
  BY Constants, InitialAssumption, EventFields DEF Init, ClockBounds
<1> QED
  BY <1>1, <1>2, InitOwnership DEF IInv

\* An event the device has generated is not earlier than safe_ts, hence not
\* earlier than the clock.
LEMMA FreshAreLate == ASSUME IInv, NEW e \in Fresh
  PROVE  e.ts \in Nat /\ safe_ts <= e.ts /\ m_currentTs <= e.ts
<1>1. e.ts \in Nat /\ safe_ts \in Nat /\ m_currentTs \in Nat /\ d_safe_ts \in [Bufs -> Nat]
  BY DeviceEventFields DEF IInv, Ownership, TypeOK, Fresh
<1>2. safe_ts <= e.ts
  <2>1. CASE e \in devBuf[d_curDevBuf]
    <3>1. k_buf \in Bufs /\ d_safe_ts[k_buf] <= e.ts /\ safe_ts <= d_safe_ts[k_buf]
      BY <2>1 DEF IInv, Ownership, TypeOK, BufferBounds, SafeBounds
    <3> QED
      BY <1>1, <3>1
  <2>2. CASE e \in devBuf[Other(d_curDevBuf)]
    BY <2>2 DEF IInv, SafeBounds
  <2> QED
    BY <2>1, <2>2 DEF IInv, Ownership, TypeOK, Fresh
<1> QED
  BY <1>1, <1>2 DEF IInv, ClockBounds

\* ChangeHostQueue keeps the bounds: the buffer released is empty, and what
\* its kernel has generated is bounded by safe_ts.
LEMMA ChangeHostQueueBounds ==
  ASSUME IInv, ChangeHostQueue, pc \in {"change", "claim"},
         pc' \in {"loop", "insert"}, UNCHANGED <<safe_ts, cur, h_curDevBuf>>
  PROVE  BufferBounds' /\ SafeBounds'
<1> DEFINE fill == h_curHostBuf
           free == Other(h_curHostBuf)
<1>1. /\ fill \in Bufs /\ free \in Bufs /\ fill # free
      /\ d_safe_ts \in [Bufs -> Nat] /\ safe_ts \in Nat
      /\ Other(Other(d_curDevBuf)) = d_curDevBuf
  BY DEF IInv, Ownership, TypeOK
<1>2. /\ k_buf' = fill /\ h_curHostBuf' = free /\ d_curDevBuf' = Other(d_curDevBuf)
      /\ hostBuf' = hostBuf /\ devBuf' = devBuf
      /\ d_safe_ts' = [d_safe_ts EXCEPT ![free] = Forever]
  BY DEF ChangeHostQueue, ChangeDevQueue, ReleaseBound
<1>3. /\ \A i \in Slots : hostBuf[free][i] = None
      /\ devBuf[Other(d_curDevBuf)] = {}
  BY ChangeHostQueueOwnership DEF IInv
<1>4. BufferBounds'
  <2>1. d_safe_ts'[free] = Forever /\ d_safe_ts'[fill] = d_safe_ts[fill]
    BY <1>1, <1>2
  <2>2. \A b \in Bufs : d_safe_ts'[b] <= Forever
    BY <1>1, <2>1, Constants DEF IInv, BufferBounds
  <2>3. ASSUME NEW b \in Bufs, NEW i \in Slots,
               hostBuf[b][i] # None, hostBuf[b][i].la # Forever
        PROVE  d_safe_ts'[b] <= EarliestChild(hostBuf[b][i])
    <3>1. b = fill
      BY <1>1, <1>3, <2>3
    <3> QED
      BY <2>1, <2>3, <3>1 DEF IInv, BufferBounds
  <2>4. devBuf'[d_curDevBuf'] = {}
    BY <1>2, <1>3
  <2> QED
    BY <1>2, <2>2, <2>3, <2>4 DEF BufferBounds, EarliestChild
<1>5. SafeBounds'
  <2>1. safe_ts <= Forever
    BY <1>1, Constants DEF IInv, SafeBounds, BufferBounds
  <2>2. \A b \in Bufs : safe_ts <= d_safe_ts'[b]
    BY <1>1, <1>2, <2>1 DEF IInv, SafeBounds
  <2>3. \A e \in devBuf'[Other(d_curDevBuf')] : safe_ts <= e.ts
    <3>1. \A e \in devBuf[d_curDevBuf] : e \in Fresh
      BY DEF IInv, Ownership, TypeOK, Fresh
    <3> QED
      BY <1>1, <1>2, <3>1, FreshAreLate
  <2> QED
    BY <2>2, <2>3 DEF SafeBounds, IInv, EarliestChild
<1> QED
  BY <1>4, <1>5

\* Every step preserves the inductive invariant.
LEMMA IInvStep == HonestLookahead /\ IInv /\ [Next]_vars => IInv'
<1> SUFFICES ASSUME HonestLookahead, IInv, [Next]_vars
             PROVE  BufferBounds' /\ SafeBounds' /\ ClockBounds'
  BY OwnershipStep DEF IInv
<1>t. TypeOK
  BY DEF IInv, Ownership
<1>n. /\ safe_ts \in Nat /\ m_currentTs \in Nat /\ d_safe_ts \in [Bufs -> Nat]
      /\ \A e \in m_events : e.ts \in Nat
  BY <1>t, EventFields DEF TypeOK
<1> USE DEF heapVars, clockVars, safeVars, warpVars, hostVars, devVars
<1>1. ASSUME LoopHead \/ Stop \/ Synchronize PROVE BufferBounds' /\ SafeBounds' /\ ClockBounds'
  BY <1>1, <1>t DEF LoopHead, Stop, Synchronize, IInv, BufferBounds, SafeBounds, ClockBounds, EarliestChild
<1>2. ASSUME CollectStart PROVE BufferBounds' /\ SafeBounds' /\ ClockBounds'
  BY <1>2 DEF CollectStart, IInv, BufferBounds, SafeBounds, ClockBounds, EarliestChild
<1>3. ASSUME ELP_Schedule PROVE BufferBounds' /\ SafeBounds' /\ ClockBounds'
  <2>1. PICK e \in devBuf[h_curDevBuf] :
          /\ devBuf' = [devBuf EXCEPT ![h_curDevBuf] = @ \ {e}]
          /\ m_events' = m_events \cup {e}
    BY <1>3 DEF ELP_Schedule
  <2>2. e \in Fresh /\ h_curDevBuf = Other(d_curDevBuf)
    BY <1>3, <1>t DEF ELP_Schedule, IInv, Ownership, DeviceBuffers, TypeOK, Fresh
  <2>3. ClockBounds'
    BY <1>3, <2>1, <2>2, FreshAreLate DEF ELP_Schedule, IInv, ClockBounds
  <2>4. BufferBounds' /\ SafeBounds'
    BY <1>3, <1>t, <2>1 DEF ELP_Schedule, IInv, BufferBounds, SafeBounds, TypeOK,
       EarliestChild
  <2> QED
    BY <2>3, <2>4
<1>4. ASSUME CollectNext PROVE BufferBounds' /\ SafeBounds' /\ ClockBounds'
  BY <1>4 DEF CollectNext, IInv, BufferBounds, SafeBounds, ClockBounds, EarliestChild
<1>5. ASSUME Refresh PROVE BufferBounds' /\ SafeBounds' /\ ClockBounds'
  <2>1. /\ safe_ts' \in {d_safe_ts[1], d_safe_ts[2]}
        /\ safe_ts' <= d_safe_ts[1] /\ safe_ts' <= d_safe_ts[2] /\ safe_ts <= safe_ts'
    BY <1>5, <1>n DEF Refresh, BufferBound, Min2, IInv, SafeBounds
  <2>2. cur' = None
    BY <1>5, <1>t DEF Refresh, TypeOK
  <2>3. devBuf'[Other(d_curDevBuf')] = {}
    BY <1>5, <1>t DEF Refresh, IInv, Ownership, DeviceBuffers, TypeOK
  <2>4. SafeBounds'
    BY <1>5, <2>1, <2>2, <2>3 DEF Refresh, SafeBounds
  <2>5. ClockBounds'
    BY <1>5, <1>n, <1>t, <2>1 DEF Refresh, IInv, ClockBounds, TypeOK
  <2> QED
    BY <1>5, <2>4, <2>5 DEF Refresh, IInv, BufferBounds, EarliestChild
<1>6. ASSUME Change \/ ClaimFull PROVE BufferBounds' /\ SafeBounds' /\ ClockBounds'
  <2>1. BufferBounds' /\ SafeBounds'
    BY <1>6, ChangeHostQueueBounds DEF Change, ClaimFull
  <2> QED
    BY <1>6, <2>1 DEF Change, ClaimFull, IInv, ClockBounds
<1>7. ASSUME ELP_ProcessOneEvent PROVE BufferBounds' /\ SafeBounds' /\ ClockBounds'
  <2>1. PICK e \in m_events :
           /\ e \in DeviceEvent /\ IsNext(e) /\ e.ts < safe_ts /\ cur' = e
           /\ safe_ts' = Lower(safe_ts, e) /\ m_events' = m_events \ {e}
           /\ m_currentTs' = IF e.ts > m_currentTs THEN e.ts ELSE m_currentTs
    BY <1>7, <1>t, Dispatched
  <2>2. e.ts \in Nat /\ m_currentTs <= e.ts /\ e \in Event /\ EarliestChild(e) \in Nat
    BY <2>1, DeviceEventFields, Constants DEF IInv, ClockBounds, EarliestChild
  <2>3. /\ safe_ts' \in Nat /\ safe_ts' <= safe_ts
        /\ e.la # Forever => safe_ts' <= EarliestChild(e)
    BY <1>n, <2>1, <2>2, LowerBounds
  <2>4. m_currentTs' = e.ts /\ e.ts <= safe_ts'
    <3>1. e.ts <= EarliestChild(e) \/ e.la = Forever
      BY <2>1, <2>2, DeviceEventFields DEF EarliestChild
    <3>2. e.ts <= safe_ts /\ e.ts <= e.ts
      BY <1>n, <2>1, <2>2
    <3> QED
      BY <1>n, <2>1, <2>2, <3>2, LowerBounds
  <2>5. ClockBounds'
    BY <1>n, <2>1, <2>2, <2>4 DEF ClockBounds, IsNext
  <2>6. SafeBounds'
    <3>1. \A b \in Bufs : safe_ts' <= d_safe_ts[b]
      BY <1>n, <2>3 DEF IInv, SafeBounds
    <3>2. \A f \in devBuf[Other(d_curDevBuf)] : safe_ts' <= f.ts
      BY <1>n, <1>t, <2>3, FreshAreLate DEF Fresh, TypeOK
    <3> QED
      BY <1>7, <2>1, <2>3, <3>1, <3>2 DEF ELP_ProcessOneEvent, SafeBounds, EarliestChild
  <2> QED
    BY <1>7, <2>5, <2>6 DEF ELP_ProcessOneEvent, IInv, BufferBounds, EarliestChild
<1>8. ASSUME h_insert_sort PROVE BufferBounds' /\ SafeBounds' /\ ClockBounds'
  <2>1. /\ cur \in DeviceEvent /\ cur \in Event /\ cur # None
        /\ cur.la # Forever => safe_ts <= EarliestChild(cur)
        /\ EarliestChild(cur) \in Nat
    BY <1>8, <1>t, DeviceEventFields, Constants
       DEF h_insert_sort, TypeOK, IInv, SafeBounds, EarliestChild
  <2>2. PICK j :
          /\ hostBuf' = [hostBuf EXCEPT ![h_curHostBuf][j] = cur]
          /\ d_safe_ts' = [d_safe_ts EXCEPT ![h_curHostBuf] = Lower(@, cur)]
          /\ safe_ts' = Lower(safe_ts, cur) /\ cur' = None /\ pc' = "loop"
          /\ UNCHANGED <<heapVars, clockVars, old, h_curHostBuf, h_bufrdy, devVars,
                         h_curDevBuf, k_buf, born, executed>>
    BY <1>8 DEF h_insert_sort
  <2>3. safe_ts' = safe_ts
    BY <1>n, <2>1, <2>2, LowerBounds
  <2>4. \A b \in Bufs : /\ d_safe_ts'[b] \in Nat /\ d_safe_ts'[b] <= d_safe_ts[b]
                        /\ safe_ts <= d_safe_ts'[b]
    <3>1. ASSUME NEW b \in Bufs, b = h_curHostBuf
          PROVE  /\ d_safe_ts'[b] \in Nat /\ d_safe_ts'[b] <= d_safe_ts[b]
                 /\ safe_ts <= d_safe_ts'[b]
      <4>1. d_safe_ts'[b] = Lower(d_safe_ts[b], cur)
        BY <1>n, <2>2, <3>1
      <4>2. d_safe_ts[b] \in Nat /\ safe_ts <= d_safe_ts[b]
        BY <1>n DEF IInv, SafeBounds
      <4> QED
        BY <1>n, <2>1, <4>1, <4>2 DEF Lower, Min2, EarliestChild
    <3>2. ASSUME NEW b \in Bufs, b # h_curHostBuf
          PROVE  /\ d_safe_ts'[b] \in Nat /\ d_safe_ts'[b] <= d_safe_ts[b]
                 /\ safe_ts <= d_safe_ts'[b]
      BY <1>n, <2>2, <3>2 DEF IInv, SafeBounds
    <3> QED
      BY <3>1, <3>2
  <2>5. BufferBounds'
    <3>1. \A b \in Bufs : d_safe_ts'[b] <= Forever
      BY <1>n, <2>4, Constants DEF IInv, BufferBounds
    <3>2. ASSUME NEW b \in Bufs, NEW i \in Slots,
                 hostBuf'[b][i] # None, hostBuf'[b][i].la # Forever
          PROVE  d_safe_ts'[b] <= EarliestChild(hostBuf'[b][i])
      <4>1. CASE b = h_curHostBuf /\ i = j
        <5>1. hostBuf'[b][i] = cur
          BY <1>t, <2>2, <4>1 DEF TypeOK
        <5>2. d_safe_ts'[b] = Lower(d_safe_ts[b], cur) /\ d_safe_ts[b] \in Nat
          BY <1>n, <2>2, <4>1
        <5>3. cur.la # Forever
          BY <3>2, <5>1
        <5>4. Lower(d_safe_ts[b], cur) <= EarliestChild(cur)
          BY <2>1, <5>2, <5>3, LowerBounds
        <5> QED
          BY <5>1, <5>2, <5>4
      <4>2. CASE ~(b = h_curHostBuf /\ i = j)
        <5>1. hostBuf'[b][i] = hostBuf[b][i]
          BY <1>t, <2>2, <4>2 DEF TypeOK
        <5>2. hostBuf[b][i] \in DeviceEvent /\ d_safe_ts[b] <= EarliestChild(hostBuf[b][i])
          BY <1>t, <3>2, <5>1 DEF TypeOK, IInv, BufferBounds
        <5>3. EarliestChild(hostBuf[b][i]) \in Nat
          BY <5>2, DeviceEventFields, Constants DEF EarliestChild
        <5>4. d_safe_ts'[b] \in Nat /\ d_safe_ts'[b] <= d_safe_ts[b] /\ d_safe_ts[b] \in Nat
          BY <1>n, <2>4
        <5> QED
          BY <5>1, <5>2, <5>3, <5>4
      <4> QED
        BY <4>1, <4>2
    <3>3. \A e \in devBuf'[d_curDevBuf'] : k_buf' # 0 /\ d_safe_ts'[k_buf'] <= e.ts
      <4> SUFFICES ASSUME NEW e \in devBuf[d_curDevBuf]
                   PROVE  k_buf # 0 /\ d_safe_ts'[k_buf] <= e.ts
        BY <2>2
      <4>1. k_buf # 0 /\ d_safe_ts[k_buf] <= e.ts /\ k_buf \in Bufs
        BY <1>t DEF IInv, BufferBounds, TypeOK
      <4>2. e.ts \in Nat
        BY <1>t, FreshAreLate DEF Fresh, TypeOK
      <4>3. d_safe_ts'[k_buf] \in Nat /\ d_safe_ts'[k_buf] <= d_safe_ts[k_buf]
        BY <2>4, <4>1
      <4> QED
        BY <1>n, <4>1, <4>2, <4>3
    <3> QED
      BY <3>1, <3>2, <3>3 DEF BufferBounds, EarliestChild
  <2>6. SafeBounds'
    BY <2>2, <2>3, <2>4 DEF IInv, SafeBounds
  <2>7. ClockBounds'
    BY <2>2, <2>3 DEF IInv, ClockBounds
  <2> QED
    BY <2>5, <2>6, <2>7
<1>9. ASSUME ProcessOneEvent PROVE BufferBounds' /\ SafeBounds' /\ ClockBounds'
  <2>1. PICK e \in m_events : /\ IsNext(e) /\ IsSafe(e) /\ m_events' = m_events \ {e}
                              /\ m_currentTs' = e.ts
    BY <1>9 DEF ProcessOneEvent
  <2>2. ClockBounds'
    BY <1>9, <1>n, <2>1 DEF ProcessOneEvent, ClockBounds, IsNext, IsSafe
  <2> QED
    BY <1>9, <2>2 DEF ProcessOneEvent, IInv, BufferBounds, SafeBounds, EarliestChild
<1>10. ASSUME Schedule PROVE BufferBounds' /\ SafeBounds' /\ ClockBounds'
  <2>1. PICK ts, k, la : /\ ts \in m_currentTs .. MaxTs
                         /\ m_events' = m_events \cup {NewEvent(ts, k, la)}
    BY <1>10 DEF Schedule
  <2>2. ClockBounds'
    BY <1>10, <1>n, <2>1 DEF Schedule, NewEvent, IInv, ClockBounds
  <2> QED
    BY <1>10, <2>2 DEF Schedule, IInv, BufferBounds, SafeBounds, EarliestChild
<1>11. ASSUME HandlerReturn PROVE BufferBounds' /\ SafeBounds' /\ ClockBounds'
  <2>1. \A x \in m_eventsWithContext : x.delay \in Nat
    BY <1>t DEF TypeOK
  <2>2. ClockBounds'
    BY <1>11, <1>n, <2>1 DEF HandlerReturn, ProcessEventsWithContext, IInv, ClockBounds
  <2> QED
    BY <1>11, <2>2 DEF HandlerReturn, ProcessEventsWithContext, IInv, BufferBounds,
       SafeBounds, EarliestChild
<1>12. ASSUME ScheduleWithContext PROVE BufferBounds' /\ SafeBounds' /\ ClockBounds'
  BY <1>12 DEF ScheduleWithContext, IInv, BufferBounds, SafeBounds, ClockBounds, EarliestChild
<1>13. ASSUME NEW i \in Slots, d_insert(i) PROVE BufferBounds' /\ SafeBounds' /\ ClockBounds'
  <2> DEFINE parent == hostBuf[k_buf][i]
  <2>1. /\ k_buf \in Bufs /\ parent \in DeviceEvent /\ parent # None
        /\ parent.la # Forever
    BY <1>13, <1>t DEF d_insert, Working, TypeOK
  <2>2. /\ EarliestChild(parent) \in Nat /\ d_safe_ts[k_buf] <= EarliestChild(parent)
        /\ d_safe_ts[k_buf] \in Nat
    BY <1>n, <2>1, DeviceEventFields, Constants DEF IInv, BufferBounds, EarliestChild
  <2>3. PICK ts \in FirstChild(parent) .. MaxTs, k \in Types,
             la \in Lookaheads \cup {Forever} :
          devBuf' = [devBuf EXCEPT ![d_curDevBuf] = @ \cup {NewEvent(ts, k, la)}]
    BY <1>13 DEF d_insert
  <2>4. ts \in Nat /\ d_safe_ts[k_buf] <= ts
    BY <2>2, <2>3, Constants DEF FirstChild
  <2>5. /\ devBuf'[d_curDevBuf] = devBuf[d_curDevBuf] \cup {NewEvent(ts, k, la)}
        /\ devBuf'[Other(d_curDevBuf)] = devBuf[Other(d_curDevBuf)]
    BY <1>t, <2>3 DEF TypeOK
  <2>6. \A e \in devBuf'[d_curDevBuf] : k_buf # 0 /\ d_safe_ts[k_buf] <= e.ts
    BY <2>1, <2>4, <2>5 DEF NewEvent, IInv, BufferBounds
  <2>7. BufferBounds'
    BY <1>13, <2>6 DEF d_insert, IInv, BufferBounds, EarliestChild
  <2>8. SafeBounds'
    BY <1>13, <2>5 DEF d_insert, IInv, SafeBounds, EarliestChild
  <2> QED
    BY <1>13, <2>7, <2>8 DEF d_insert, IInv, ClockBounds
<1>14. ASSUME NEW i \in Slots, Retire(i) PROVE BufferBounds' /\ SafeBounds' /\ ClockBounds'
  <2>1. /\ k_buf \in Bufs /\ hostBuf' = [hostBuf EXCEPT ![k_buf][i] = None]
        /\ UNCHANGED <<heapVars, clockVars, safeVars, old, h_curHostBuf, h_bufrdy,
                       warpVars, devVars, h_curDevBuf, k_buf, pc, cur, born>>
    BY <1>14, <1>t DEF Retire, Working, TypeOK
  <2>2. \A b \in Bufs, j \in Slots : hostBuf'[b][j] \in {None, hostBuf[b][j]}
    BY <1>t, <2>1 DEF TypeOK
  <2>3. BufferBounds'
    BY <2>1, <2>2 DEF IInv, BufferBounds, EarliestChild
  <2> QED
    BY <2>1, <2>3 DEF IInv, SafeBounds, ClockBounds, EarliestChild
<1>15. ASSUME Finished \/ UNCHANGED vars PROVE BufferBounds' /\ SafeBounds' /\ ClockBounds'
  BY <1>15 DEF Finished, vars, IInv, BufferBounds, SafeBounds, ClockBounds, EarliestChild
<1> QED
  BY <1>1, <1>2, <1>3, <1>4, <1>5, <1>6, <1>7, <1>8, <1>9, <1>10, <1>11, <1>12, <1>13,
     <1>14, <1>15
     DEF Next, HostStep, KernelStep

\* While lookaheads are honest, no event of the heap and none generated on
\* the device is older than the clock, in any run.
THEOREM NoStragglerHolds ==
  ASSUME HonestLookahead PROVE Spec => []NoStraggler
<1>1. Init => IInv
  BY InitIInv
<1>2. IInv /\ [Next]_vars => IInv'
  BY IInvStep
<1>3. IInv => NoStraggler
  BY FreshAreLate, EventFields DEF IInv, Ownership, TypeOK, ClockBounds, NoStraggler, Fresh
<1> QED
  BY <1>1, <1>2, <1>3, PTL DEF Spec

----------------------------------------------------------------------------
(* The clock, whatever the lookaheads: a device event may have been          *)
(* overtaken, a CPU event never.                                             *)
CpuEventsAhead == \A e \in m_events : e.type = Cpu => m_currentTs <= e.ts

ClockInv == TypeOK /\ CpuEventsAhead

\* Each step keeps the CPU events ahead of the clock and never sets it back.
LEMMA ClockStep == ClockInv /\ [Next]_vars => ClockInv' /\ m_currentTs' >= m_currentTs
<1> SUFFICES ASSUME ClockInv, [Next]_vars
             PROVE  CpuEventsAhead' /\ m_currentTs' >= m_currentTs
  BY TypeOKStep DEF ClockInv
<1>n. /\ m_currentTs \in Nat /\ \A e \in m_events : e.ts \in Nat
      /\ \A x \in m_eventsWithContext : x.delay \in Nat
  BY EventFields DEF ClockInv, TypeOK
<1> USE DEF heapVars, clockVars
<1>1. ASSUME UNCHANGED <<m_events, m_currentTs>>
      PROVE  CpuEventsAhead' /\ m_currentTs' >= m_currentTs
  BY <1>1, <1>n DEF ClockInv, CpuEventsAhead
<1>2. ASSUME ELP_Schedule PROVE CpuEventsAhead' /\ m_currentTs' >= m_currentTs
  <2>1. PICK e \in devBuf[h_curDevBuf] : m_events' = m_events \cup {e}
    BY <1>2 DEF ELP_Schedule
  <2>2. e.type # Cpu
    BY DeviceEventFields DEF ClockInv, TypeOK
  <2> QED
    BY <1>2, <1>n, <2>1, <2>2 DEF ELP_Schedule, ClockInv, CpuEventsAhead
<1>3. ASSUME ELP_ProcessOneEvent PROVE CpuEventsAhead' /\ m_currentTs' >= m_currentTs
  <2>1. PICK e \in m_events :
          /\ IsNext(e) /\ m_events' = m_events \ {e}
          /\ m_currentTs' = IF e.ts > m_currentTs THEN e.ts ELSE m_currentTs
    BY <1>3, Dispatched DEF ClockInv
  <2> QED
    BY <1>n, <2>1 DEF ClockInv, CpuEventsAhead, IsNext
<1>4. ASSUME ProcessOneEvent PROVE CpuEventsAhead' /\ m_currentTs' >= m_currentTs
  <2>1. PICK e \in m_events : /\ IsNext(e) /\ e.type = Cpu /\ m_currentTs' = e.ts
                              /\ m_events' = m_events \ {e}
    BY <1>4 DEF ProcessOneEvent
  <2> QED
    BY <1>n, <2>1 DEF ClockInv, CpuEventsAhead, IsNext
<1>5. ASSUME Schedule PROVE CpuEventsAhead' /\ m_currentTs' >= m_currentTs
  <2>1. PICK ts, k, la : /\ ts \in m_currentTs .. MaxTs
                         /\ m_events' = m_events \cup {NewEvent(ts, k, la)}
    BY <1>5 DEF Schedule
  <2> QED
    BY <1>5, <1>n, <2>1 DEF Schedule, NewEvent, ClockInv, CpuEventsAhead
<1>6. ASSUME HandlerReturn PROVE CpuEventsAhead' /\ m_currentTs' >= m_currentTs
  BY <1>6, <1>n DEF HandlerReturn, ProcessEventsWithContext, ClockInv, CpuEventsAhead
<1> QED
  BY <1>1, <1>2, <1>3, <1>4, <1>5, <1>6
     DEF Next, HostStep, KernelStep, LoopHead, CollectStart, CollectNext, Refresh, Change,
         ClaimFull, h_insert_sort, Stop, Synchronize, ScheduleWithContext, d_insert,
         Retire, Finished, vars

\* In any run, whatever the lookaheads, no step sets m_currentTs back.
THEOREM ClockNeverGoesBackHolds == Spec => ClockNeverGoesBack
<1>1. Init => ClockInv
  BY InitTypeOK, InitialAssumption, EventFields DEF Init, ClockInv, CpuEventsAhead
<1>2. ClockInv /\ [Next]_vars => ClockInv' /\ [m_currentTs' >= m_currentTs]_vars
  BY ClockStep
<1> QED
  BY <1>1, <1>2, PTL DEF Spec, ClockNeverGoesBack

-----------------------------------------------------------------------------
(***************************************************************************)
(* Where the events of ELP_RunSK are.  No event is lost, duplicated or run *)
(* twice: every one that was ever created is in one place, whatever the    *)
(* sizes and the lookaheads.  From this follow the counters of the loop    *)
(* and, with the bounds proved above, that the loop implements            *)
(* ConservativeDes.                                                        *)
(***************************************************************************)

USE DEF Bufs, Other

----------------------------------------------------------------------------
(* Slots of a host buffer.                                                 *)

\* Different positions of different warps are different slots.
LEMMA WarpSlots ==
  ASSUME NEW v \in Nat, NEW w \in Nat,
         NEW i \in 0 .. WarpSize - 1, NEW j \in 0 .. WarpSize - 1,
         v * WarpSize + i = w * WarpSize + j
  PROVE  v = w /\ i = j
<1>1. ASSUME NEW x \in Nat, NEW y \in Nat, x < y
      PROVE  x * WarpSize + WarpSize <= y * WarpSize
  <2>1. PICK d \in Nat : y = x + 1 + d
    <3>1. y - x - 1 \in Nat /\ y = x + 1 + (y - x - 1)
      BY <1>1
    <3> QED
      BY <3>1
  <2>2. y * WarpSize = x * WarpSize + WarpSize + d * WarpSize /\ d * WarpSize >= 0
    BY <2>1, Constants
  <2>3. x * WarpSize \in Nat /\ d * WarpSize \in Nat
    BY <2>1, Constants
  <2> QED
    BY <2>2, <2>3, Constants
<1>2. v * WarpSize \in Nat /\ w * WarpSize \in Nat
  BY Constants
<1>3. ~(v < w) /\ ~(w < v)
  BY <1>1, <1>2, Constants
<1> QED
  BY <1>2, <1>3, Constants

\* The warps of the buffer being filled are distinct, and free from the next
\* position of each on; so are those nobody has taken yet.  A slot computed
\* anew after a change of buffers is in range.
FreeSlots ==
  /\ \A k, l \in Types : warp_index[k] = warp_index[l] => k = l
  /\ \A k \in Types : warp_index[k] < next_avail_warp
  /\ \A k \in Types : \A j \in warp_thread_index[k] .. WarpSize - 1 :
       LET i == warp_index[k] * WarpSize + j IN
       i \in Slots => hostBuf[h_curHostBuf][i] = None
  /\ \A i \in Slots : i >= next_avail_warp * WarpSize => hostBuf[h_curHostBuf][i] = None
  /\ pc = "insert" => Slot(cur.type) < QueueLength

\* ChangeHostQueue starts filling an empty buffer with one warp per type.
LEMMA ChangeHostQueueFreesSlots ==
  ASSUME Ownership, ChangeHostQueue, pc \in {"change", "claim"},
         pc' \in {"loop", "insert"}, UNCHANGED <<h_curDevBuf, cur>>,
         pc' = "insert" => cur # None
  PROVE  FreeSlots'
<1>1. \A i \in Slots : hostBuf'[h_curHostBuf'][i] = None
  BY ChangeHostQueueOwnership DEF ChangeHostQueue
<1>2. /\ warp_index' = [k \in Types |-> k] /\ warp_thread_index' = [k \in Types |-> 0]
      /\ next_avail_warp' = Cardinality(Types)
  BY DEF ChangeHostQueue
<1>3. \A k \in Types : k < Cardinality(Types)
  BY ElpAssumption, Counts DEF ElpAssumption
<1>4. ASSUME cur # None PROVE Slot(cur.type)' < QueueLength
  <2>1. cur.type \in Types /\ cur' = cur
    BY <1>4, DeviceEventFields DEF Ownership, TypeOK
  <2>2. cur.type \in Nat /\ (cur.type + 1) * WarpSize <= QueueLength
    BY <2>1, Constants, ElpAssumption DEF ElpAssumption
  <2>3. Slot(cur.type)' = cur.type * WarpSize
    BY <1>2, <2>1, <2>2, Constants DEF Slot
  <2>4. (cur.type + 1) * WarpSize = cur.type * WarpSize + WarpSize
    BY <2>2, Constants
  <2>5. cur.type * WarpSize \in Nat /\ QueueLength \in Nat
    BY <2>2, Constants, ElpAssumption DEF ElpAssumption
  <2> QED
    BY <2>2, <2>3, <2>4, <2>5, Constants
<1> QED
  BY <1>1, <1>2, <1>3, <1>4 DEF FreeSlots

\* The slot that h_insert_sort fills is in range and free.
LEMMA FilledSlotIsFree ==
  ASSUME TypeOK, FreeSlots, h_insert_sort
  PROVE  /\ Slot(cur.type) \in Slots /\ hostBuf[h_curHostBuf][Slot(cur.type)] = None
         /\ cur \in DeviceEvent /\ cur.type \in Types
<1>1. cur \in DeviceEvent /\ cur.type \in Types /\ pc \in {"insert", "claim"}
  BY DeviceEventFields DEF h_insert_sort, TypeOK
<1>2. warp_index[cur.type] \in Nat /\ warp_thread_index[cur.type] \in 0 .. WarpSize - 1
  BY <1>1 DEF TypeOK
<1>3. Slot(cur.type) \in Nat /\ Slot(cur.type) < QueueLength /\ QueueLength \in Nat
  <2>1. warp_index[cur.type] * WarpSize \in Nat
    BY <1>2, Constants
  <2>2. Slot(cur.type) \in Nat
    BY <1>2, <2>1 DEF Slot
  <2>3. Slot(cur.type) < QueueLength
    BY <1>1 DEF h_insert_sort, FreeSlots
  <2> QED
    BY <2>2, <2>3, ElpAssumption DEF ElpAssumption
<1>4. Slot(cur.type) \in Slots
  BY <1>3 DEF Slots
<1>5. warp_thread_index[cur.type] \in warp_thread_index[cur.type] .. WarpSize - 1
  BY <1>2
<1> QED
  BY <1>1, <1>4, <1>5 DEF FreeSlots, Slot

\* Filling that slot leaves free what FreeSlots says is free.
LEMMA FillingKeepsFreeSlots ==
  ASSUME TypeOK, FreeSlots, h_insert_sort PROVE FreeSlots'
<1> DEFINE k0 == cur.type
           w0 == warp_index[k0]
           i0 == Slot(k0)
           h == h_curHostBuf
<1>1. /\ i0 \in Slots /\ k0 \in Types /\ pc' = "loop" /\ h_curHostBuf' = h /\ h \in Bufs
      /\ hostBuf' = [hostBuf EXCEPT ![h][i0] = cur]
  BY FilledSlotIsFree DEF h_insert_sort, TypeOK
<1>2. /\ warp_index \in [Types -> Nat] /\ warp_thread_index \in [Types -> 0 .. WarpSize - 1]
      /\ next_avail_warp \in Nat
  BY DEF TypeOK
<1>3. \A i \in Slots : i # i0 => hostBuf'[h][i] = hostBuf[h][i]
  BY <1>1 DEF TypeOK
<1>4. \A k \in Types : \A j \in 0 .. WarpSize - 1 :
        warp_index[k] * WarpSize + j = i0 => k = k0 /\ j = warp_thread_index[k0]
  <2> SUFFICES ASSUME NEW k \in Types, NEW j \in 0 .. WarpSize - 1,
                      warp_index[k] * WarpSize + j = w0 * WarpSize + warp_thread_index[k0]
               PROVE  k = k0 /\ j = warp_thread_index[k0]
    BY DEF Slot
  <2>1. warp_index[k] = w0 /\ j = warp_thread_index[k0]
    BY <1>1, <1>2, WarpSlots
  <2> QED
    BY <1>1, <2>1 DEF FreeSlots
<1>5. i0 < next_avail_warp * WarpSize
  <2>1. w0 + 1 <= next_avail_warp /\ w0 \in Nat
    BY <1>1, <1>2 DEF FreeSlots
  <2>2. (w0 + 1) * WarpSize <= next_avail_warp * WarpSize
    <3>1. PICK d \in Nat : next_avail_warp = w0 + 1 + d
      <4>1. next_avail_warp - w0 - 1 \in Nat /\ next_avail_warp = w0 + 1 + (next_avail_warp - w0 - 1)
        BY <1>2, <2>1
      <4> QED
        BY <4>1
    <3>2. next_avail_warp * WarpSize = (w0 + 1) * WarpSize + d * WarpSize /\ d * WarpSize >= 0
      BY <2>1, <3>1, Constants
    <3> QED
      BY <2>1, <3>1, <3>2, Constants
  <2>3. (w0 + 1) * WarpSize = w0 * WarpSize + WarpSize /\ w0 * WarpSize \in Nat
    BY <2>1, Constants
  <2>4. warp_thread_index[k0] \in 0 .. WarpSize - 1
    BY <1>1, <1>2
  <2>5. next_avail_warp * WarpSize \in Nat
    BY <1>2, Constants
  <2> QED
    BY <2>2, <2>3, <2>4, <2>5, Constants DEF Slot
<1>6. CASE WarpFull(k0)
  <2>1. /\ warp_thread_index' = [warp_thread_index EXCEPT ![k0] = 0]
        /\ warp_index' = [warp_index EXCEPT ![k0] = next_avail_warp]
        /\ next_avail_warp' = next_avail_warp + 1
    BY <1>6 DEF h_insert_sort
  <2>2. /\ \A k, l \in Types : warp_index'[k] = warp_index'[l] => k = l
        /\ \A k \in Types : warp_index'[k] < next_avail_warp'
    BY <1>1, <1>2, <2>1 DEF FreeSlots
  <2>3. ASSUME NEW i \in Slots, i >= next_avail_warp * WarpSize
        PROVE  hostBuf'[h][i] = None
    <3>1. i # i0
      BY <1>2, <1>5, <2>3, Constants DEF Slots
    <3> QED
      BY <1>3, <2>3, <3>1 DEF FreeSlots
  <2>4. ASSUME NEW k \in Types, NEW j \in warp_thread_index'[k] .. WarpSize - 1,
               warp_index'[k] * WarpSize + j \in Slots
        PROVE  hostBuf'[h][warp_index'[k] * WarpSize + j] = None
    <3>1. CASE k = k0
      <4>1. warp_index'[k] = next_avail_warp /\ j \in Nat
        BY <1>1, <1>2, <2>1, <2>4, <3>1, Constants
      <4>2. next_avail_warp * WarpSize \in Nat
        BY <1>2, Constants
      <4>3. warp_index'[k] * WarpSize + j >= next_avail_warp * WarpSize
        BY <4>1, <4>2
      <4> QED
        BY <2>3, <2>4, <4>3
    <3>2. CASE k # k0
      <4>1. /\ warp_index'[k] = warp_index[k] /\ warp_thread_index'[k] = warp_thread_index[k]
            /\ j \in 0 .. WarpSize - 1 /\ j \in warp_thread_index[k] .. WarpSize - 1
        BY <1>1, <1>2, <2>1, <2>4, <3>2
      <4>2. warp_index[k] * WarpSize + j # i0
        BY <1>4, <3>2, <4>1
      <4> QED
        BY <1>3, <2>4, <4>1, <4>2 DEF FreeSlots
    <3> QED
      BY <3>1, <3>2
  <2>5. (next_avail_warp + 1) * WarpSize >= next_avail_warp * WarpSize
        /\ (next_avail_warp + 1) * WarpSize \in Nat /\ next_avail_warp * WarpSize \in Nat
    BY <1>2, Constants
  <2>6. \A i \in Slots : i >= (next_avail_warp + 1) * WarpSize => i >= next_avail_warp * WarpSize
    BY <2>5 DEF Slots
  <2> QED
    BY <1>1, <2>1, <2>2, <2>3, <2>4, <2>6 DEF FreeSlots
<1>7. CASE ~WarpFull(k0)
  <2>1. /\ warp_thread_index' = [warp_thread_index EXCEPT ![k0] = @ + 1]
        /\ warp_index' = warp_index /\ next_avail_warp' = next_avail_warp
    BY <1>7 DEF h_insert_sort
  <2>2. ASSUME NEW i \in Slots, i >= next_avail_warp * WarpSize
        PROVE  hostBuf'[h][i] = None
    <3>1. i # i0
      BY <1>2, <1>5, <2>2, Constants DEF Slots
    <3> QED
      BY <1>3, <2>2, <3>1 DEF FreeSlots
  <2>3. ASSUME NEW k \in Types, NEW j \in warp_thread_index'[k] .. WarpSize - 1,
               warp_index[k] * WarpSize + j \in Slots
        PROVE  hostBuf'[h][warp_index[k] * WarpSize + j] = None
    <3>1. /\ j \in 0 .. WarpSize - 1 /\ j \in warp_thread_index[k] .. WarpSize - 1
          /\ k = k0 => j # warp_thread_index[k0]
      BY <1>1, <1>2, <2>1, <2>3
    <3>2. warp_index[k] * WarpSize + j # i0
      BY <1>4, <3>1
    <3> QED
      BY <1>3, <2>3, <3>1, <3>2 DEF FreeSlots
  <2> QED
    BY <1>1, <2>1, <2>2, <2>3 DEF FreeSlots
<1> QED
  BY <1>6, <1>7

\* Every step keeps the free slots free.
LEMMA FreeSlotsStep == Ownership /\ FreeSlots /\ [Next]_vars => FreeSlots'
<1> SUFFICES ASSUME Ownership, FreeSlots, [Next]_vars PROVE FreeSlots'
  OBVIOUS
<1>t. TypeOK
  BY DEF Ownership
<1> USE DEF heapVars, clockVars, safeVars, warpVars, hostVars, devVars
<1>1. ASSUME Change \/ ClaimFull PROVE FreeSlots'
  BY <1>1, <1>t, ChangeHostQueueFreesSlots DEF Change, ClaimFull, TypeOK
<1>2. ASSUME h_insert_sort PROVE FreeSlots'
  BY <1>2, <1>t, FillingKeepsFreeSlots
<1>3. ASSUME NEW i \in Slots, Retire(i) PROVE FreeSlots'
  <2>1. \A b \in Bufs, j \in Slots : hostBuf'[b][j] \in {None, hostBuf[b][j]}
    BY <1>3, <1>t DEF Retire, Working, TypeOK
  <2>2. UNCHANGED <<h_curHostBuf, warpVars, pc, cur>> /\ h_curHostBuf \in Bufs
    BY <1>3, <1>t DEF Retire, TypeOK
  <2> QED
    BY <2>1, <2>2 DEF FreeSlots, Slot
<1>4. ASSUME UNCHANGED <<hostBuf, h_curHostBuf, warpVars>>,
             pc' = "insert" => pc = "insert" /\ cur' = cur
      PROVE  FreeSlots'
  BY <1>4 DEF FreeSlots, Slot
<1>5. ASSUME \/ LoopHead \/ CollectStart \/ ELP_Schedule \/ CollectNext \/ Refresh
             \/ ELP_ProcessOneEvent \/ ProcessOneEvent \/ Schedule \/ Stop \/ HandlerReturn
             \/ Synchronize \/ ScheduleWithContext \/ Finished \/ UNCHANGED vars
             \/ \E i \in Slots : d_insert(i)
      PROVE  FreeSlots'
  BY <1>4, <1>5 DEF LoopHead, CollectStart, ELP_Schedule, CollectNext, Refresh,
     ELP_ProcessOneEvent, ProcessOneEvent, Schedule, Stop, HandlerReturn, Synchronize,
     ScheduleWithContext, Finished, d_insert, vars
<1> QED
  BY <1>1, <1>2, <1>3, <1>5 DEF Next, HostStep, KernelStep

----------------------------------------------------------------------------
(* Where an event can be, by its birth number.                             *)
InHeap(id) == \E e \in m_events : e.eid = id
InQueue(id) == \E x \in m_eventsWithContext : x.eid = id
InHand(id) == cur # None /\ cur.eid = id
InRegion(id) == \E b \in Bufs : \E e \in devBuf[b] : e.eid = id
InSlot(id) == \E b \in Bufs, i \in Slots : hostBuf[b][i] # None /\ hostBuf[b][i].eid = id
HasRun(id) == id \in executed

Present(id) == \/ InHeap(id) \/ InQueue(id) \/ InHand(id)
               \/ InRegion(id) \/ InSlot(id) \/ HasRun(id)
Once(id) ==
  /\ InHeap(id) => ~(InQueue(id) \/ InHand(id) \/ InRegion(id) \/ InSlot(id) \/ HasRun(id))
  /\ InQueue(id) => ~(InHand(id) \/ InRegion(id) \/ InSlot(id) \/ HasRun(id))
  /\ InHand(id) => ~(InRegion(id) \/ InSlot(id) \/ HasRun(id))
  /\ InRegion(id) => ~(InSlot(id) \/ HasRun(id))
  /\ InSlot(id) => ~HasRun(id)

\* Every event born is in one kind of place, and no other number is.
EachOnce ==
  /\ \A id \in 1 .. born : Present(id) /\ Once(id)
  /\ \A id \in Nat : id \notin 1 .. born => ~Present(id)

\* A number names one event of the heap, of the queue, of the regions and
\* of the slots.
UniqueIds ==
  /\ \A e, f \in m_events : e.eid = f.eid => e = f
  /\ \A x, y \in m_eventsWithContext : x.eid = y.eid => x = y
  /\ \A b, c \in Bufs : \A e \in devBuf[b], f \in devBuf[c] : e.eid = f.eid => b = c /\ e = f
  /\ \A b, c \in Bufs, i, j \in Slots :
       hostBuf[b][i] # None /\ hostBuf[c][j] # None /\ hostBuf[b][i].eid = hostBuf[c][j].eid
         => b = c /\ i = j

OnePlace == Ownership /\ FreeSlots /\ EachOnce /\ UniqueIds

placeVars == <<m_events, m_eventsWithContext, cur, devBuf, hostBuf, executed, born>>

\* A step that moves one event, or creates one, leaves every other alone.
LEMMA OneMoves ==
  ASSUME EachOnce, born \in Nat, NEW id0 \in Nat, id0 \in 1 .. born',
         born' = born \/ (born' = born + 1 /\ id0 = born'),
         Present(id0)', Once(id0)',
         \A id \in Nat : id # id0 =>
           /\ InHeap(id)' <=> InHeap(id)
           /\ InQueue(id)' <=> InQueue(id)
           /\ InHand(id)' <=> InHand(id)
           /\ InRegion(id)' <=> InRegion(id)
           /\ InSlot(id)' <=> InSlot(id)
           /\ HasRun(id)' <=> HasRun(id)
  PROVE  EachOnce'
<1>1. \A id \in Nat : id # id0 => (Present(id)' <=> Present(id)) /\ (Once(id)' <=> Once(id))
  BY DEF Present, Once
<1>2. \A id \in Nat : id # id0 => (id \in 1 .. born' <=> id \in 1 .. born)
  OBVIOUS
<1>3. \A id \in 1 .. born' : Present(id)' /\ Once(id)'
  <2> TAKE id \in 1 .. born'
  <2>1. id \in Nat
    OBVIOUS
  <2> QED
    BY <1>1, <1>2, <2>1 DEF EachOnce
<1>4. \A id \in Nat : id \notin 1 .. born' => ~Present(id)'
  BY <1>1, <1>2 DEF EachOnce
<1> QED
  BY <1>3, <1>4 DEF EachOnce

\* The number of the next event is nowhere.
LEMMA NextIdIsNew == ASSUME TypeOK, EachOnce
  PROVE  /\ born \in Nat /\ born + 1 \in 1 .. born + 1 /\ ~Present(born + 1)
BY DEF TypeOK, EachOnce

\* What is in a place is an event born, by its number.
LEMMA PlacesOfEvents == ASSUME TypeOK
  PROVE  /\ \A e \in m_events : e.eid \in Nat /\ InHeap(e.eid)
         /\ \A x \in m_eventsWithContext : x.eid \in Nat /\ InQueue(x.eid)
         /\ \A b \in Bufs : \A e \in devBuf[b] : e.eid \in Nat /\ InRegion(e.eid)
         /\ \A b \in Bufs, i \in Slots : hostBuf[b][i] # None =>
              hostBuf[b][i].eid \in Nat /\ InSlot(hostBuf[b][i].eid)
         /\ cur # None => cur.eid \in Nat /\ InHand(cur.eid)
<1>1. \A e \in m_events : e.eid \in Nat
  BY EventFields DEF TypeOK
<1>2. \A x \in m_eventsWithContext : x.eid \in Nat
  BY DEF TypeOK
<1>3. \A b \in Bufs : \A e \in devBuf[b] : e.eid \in Nat
  BY DeviceEventFields DEF TypeOK
<1>4. \A b \in Bufs, i \in Slots : hostBuf[b][i] # None => hostBuf[b][i].eid \in Nat
  BY DeviceEventFields DEF TypeOK
<1>5. cur # None => cur.eid \in Nat
  BY DeviceEventFields DEF TypeOK
<1> QED
  BY <1>1, <1>2, <1>3, <1>4, <1>5 DEF InHeap, InQueue, InRegion, InSlot, InHand

LEMMA InitOnePlace == Init => OnePlace
<1> SUFFICES ASSUME Init PROVE OnePlace
  OBVIOUS
<1>1. FreeSlots
  <2>1. \A k \in Types : k < Cardinality(Types)
    BY ElpAssumption, Counts DEF ElpAssumption
  <2> QED
    BY <2>1 DEF Init, FreeSlots
<1>2. \A id \in Nat : id \in 1 .. born <=> InHeap(id)
  BY InitialAssumption DEF Init, InHeap
<1>3. \A id \in Nat : ~InQueue(id) /\ ~InHand(id) /\ ~InRegion(id) /\ ~InSlot(id) /\ ~HasRun(id)
  BY DEF Init, InQueue, InHand, InRegion, InSlot, HasRun
<1>4. EachOnce
  BY <1>2, <1>3 DEF EachOnce, Present, Once
<1>5. UniqueIds
  BY InitialAssumption DEF Init, UniqueIds
<1> QED
  BY <1>1, <1>4, <1>5, InitOwnership DEF OnePlace

\* Every step keeps every event in one place.
LEMMA OnePlaceStep == OnePlace /\ [Next]_vars => OnePlace'
<1> SUFFICES ASSUME OnePlace, [Next]_vars PROVE EachOnce' /\ UniqueIds'
  BY OwnershipStep, FreeSlotsStep DEF OnePlace
<1>t. TypeOK /\ EachOnce /\ UniqueIds /\ FreeSlots /\ born \in Nat
  BY DEF OnePlace, Ownership, TypeOK
<1>p. \A id \in Nat : Present(id) => id \in 1 .. born /\ Once(id)
  <2> TAKE id \in Nat
  <2> QED
    BY <1>t, Zenon DEF EachOnce
<1> USE DEF heapVars, clockVars, safeVars, warpVars, hostVars, devVars
<1>1. ASSUME UNCHANGED placeVars PROVE EachOnce' /\ UniqueIds'
  <2>1. \A id \in Nat : /\ InHeap(id)' <=> InHeap(id)
                        /\ InQueue(id)' <=> InQueue(id)
                        /\ InHand(id)' <=> InHand(id)
                        /\ InRegion(id)' <=> InRegion(id)
                        /\ InSlot(id)' <=> InSlot(id)
                        /\ HasRun(id)' <=> HasRun(id)
    BY <1>1 DEF placeVars, InHeap, InQueue, InHand, InRegion, InSlot, HasRun
  <2>2. \A id \in Nat : (Present(id)' <=> Present(id)) /\ (Once(id)' <=> Once(id))
    BY <2>1 DEF Present, Once
  <2>3. EachOnce'
    BY <1>1, <1>t, <2>2 DEF placeVars, EachOnce
  <2>4. UniqueIds'
    BY <1>1, <1>t DEF placeVars, UniqueIds
  <2> QED
    BY <2>3, <2>4
<1>2. ASSUME ELP_Schedule PROVE EachOnce' /\ UniqueIds'
  <2> DEFINE r == h_curDevBuf
  <2>1. PICK e \in devBuf[r] : /\ devBuf' = [devBuf EXCEPT ![r] = @ \ {e}]
                               /\ m_events' = m_events \cup {e}
    BY <1>2 DEF ELP_Schedule
  <2>2. r \in Bufs /\ e.eid \in Nat /\ InRegion(e.eid) /\ Once(e.eid) /\ e.eid \in 1 .. born
    BY <1>t, <1>p, PlacesOfEvents DEF TypeOK, Present
  <2>3. UNCHANGED <<m_eventsWithContext, cur, hostBuf, executed, born>>
    BY <1>2 DEF ELP_Schedule
  <2>4. /\ devBuf'[r] = devBuf[r] \ {e}
        /\ \A b \in Bufs : b # r => devBuf'[b] = devBuf[b]
    BY <1>t, <2>1, <2>2 DEF TypeOK
  <2>5. \A id \in Nat : InHeap(id)' <=> InHeap(id) \/ id = e.eid
    BY <2>1 DEF InHeap
  <2>6. \A id \in Nat : InRegion(id)' <=> InRegion(id) /\ id # e.eid
    BY <1>t, <2>2, <2>4 DEF InRegion, UniqueIds
  <2>7. \A id \in Nat : /\ InQueue(id)' <=> InQueue(id)
                        /\ InHand(id)' <=> InHand(id)
                        /\ InSlot(id)' <=> InSlot(id)
                        /\ HasRun(id)' <=> HasRun(id)
    BY <2>3 DEF InQueue, InHand, InSlot, HasRun
  <2>8. Present(e.eid)' /\ Once(e.eid)'
    BY <2>2, <2>5, <2>6, <2>7 DEF Present, Once
  <2>9. EachOnce'
    BY <1>t, <2>2, <2>3, <2>5, <2>6, <2>7, <2>8, OneMoves
  <2>10. \A f \in m_events : f.eid # e.eid
    BY <2>2 DEF Once, InHeap
  <2>11. UniqueIds'
    BY <1>t, <2>1, <2>2, <2>3, <2>4, <2>10 DEF UniqueIds
  <2> QED
    BY <2>9, <2>11
<1>3. ASSUME ELP_ProcessOneEvent PROVE EachOnce' /\ UniqueIds'
  <2>1. PICK e \in m_events : e \in DeviceEvent /\ cur' = e /\ m_events' = m_events \ {e}
    BY <1>3, <1>t, Dispatched
  <2>2. e.eid \in Nat /\ InHeap(e.eid) /\ Once(e.eid) /\ e.eid \in 1 .. born /\ e # None
    BY <1>t, <1>p, <2>1, PlacesOfEvents, DeviceEventFields DEF Present
  <2>3. /\ UNCHANGED <<m_eventsWithContext, devBuf, hostBuf, executed, born>> /\ cur = None
    BY <1>3, <1>t DEF ELP_ProcessOneEvent, TypeOK
  <2>4. \A id \in Nat : /\ InHeap(id)' <=> InHeap(id) /\ id # e.eid
                        /\ InHand(id)' <=> id = e.eid
                        /\ ~InHand(id)
    BY <1>t, <2>1, <2>2, <2>3 DEF InHeap, InHand, UniqueIds
  <2>5. \A id \in Nat : /\ InQueue(id)' <=> InQueue(id)
                        /\ InRegion(id)' <=> InRegion(id)
                        /\ InSlot(id)' <=> InSlot(id)
                        /\ HasRun(id)' <=> HasRun(id)
    BY <2>3 DEF InQueue, InRegion, InSlot, HasRun
  <2>6. Present(e.eid)' /\ Once(e.eid)'
    BY <2>2, <2>4, <2>5 DEF Present, Once
  <2>7. EachOnce'
    BY <1>t, <2>2, <2>3, <2>4, <2>5, <2>6, OneMoves
  <2>8. UniqueIds'
    BY <1>t, <2>1, <2>3 DEF UniqueIds
  <2> QED
    BY <2>7, <2>8
<1>4. ASSUME h_insert_sort PROVE EachOnce' /\ UniqueIds'
  <2> DEFINE h == h_curHostBuf
             s == Slot(cur.type)
  <2>0. PICK n : n = cur.eid
    OBVIOUS
  <2>1. /\ h \in Bufs /\ s \in Slots /\ hostBuf[h][s] = None /\ cur \in DeviceEvent
        /\ hostBuf' = [hostBuf EXCEPT ![h][s] = cur] /\ cur' = None /\ cur # None
        /\ UNCHANGED <<m_events, m_eventsWithContext, devBuf, executed, born>>
    BY <1>4, <1>t, FilledSlotIsFree, DeviceEventFields DEF h_insert_sort, TypeOK
  <2>2. n \in Nat /\ InHand(n) /\ Once(n) /\ n \in 1 .. born
    BY <1>t, <1>p, <2>0, <2>1, PlacesOfEvents DEF Present
  <2>3. /\ hostBuf'[h][s] = cur
        /\ \A b \in Bufs, i \in Slots : b # h \/ i # s => hostBuf'[b][i] = hostBuf[b][i]
    BY <1>t, <2>1 DEF TypeOK
  <2>4. \A id \in Nat : /\ InSlot(id)' <=> InSlot(id) \/ id = n
                        /\ InHand(id) <=> id = n
                        /\ ~InHand(id)'
    BY <2>0, <2>1, <2>3 DEF InSlot, InHand
  <2>5. \A id \in Nat : /\ InHeap(id)' <=> InHeap(id)
                        /\ InQueue(id)' <=> InQueue(id)
                        /\ InRegion(id)' <=> InRegion(id)
                        /\ HasRun(id)' <=> HasRun(id)
    BY <2>1 DEF InHeap, InQueue, InRegion, HasRun
  <2>6. Present(n)' /\ Once(n)'
    BY <2>2, <2>4, <2>5 DEF Present, Once
  <2>7. EachOnce'
    BY <1>t, <2>1, <2>2, <2>4, <2>5, <2>6, OneMoves
  <2>8. \A b \in Bufs, i \in Slots : hostBuf[b][i] # None => hostBuf[b][i].eid # n
    BY <2>2 DEF Once, InSlot
  <2>9. UniqueIds'
    BY <1>t, <2>0, <2>1, <2>3, <2>8 DEF UniqueIds
  <2> QED
    BY <2>7, <2>9
<1>5. ASSUME ProcessOneEvent PROVE EachOnce' /\ UniqueIds'
  <2>1. PICK e \in m_events : m_events' = m_events \ {e} /\ executed' = executed \cup {e.eid}
    BY <1>5 DEF ProcessOneEvent
  <2>2. e.eid \in Nat /\ InHeap(e.eid) /\ Once(e.eid) /\ e.eid \in 1 .. born
    BY <1>t, <1>p, <2>1, PlacesOfEvents DEF Present
  <2>3. UNCHANGED <<m_eventsWithContext, devBuf, hostBuf, cur, born>>
    BY <1>5 DEF ProcessOneEvent
  <2>4. \A id \in Nat : /\ InHeap(id)' <=> InHeap(id) /\ id # e.eid
                        /\ HasRun(id)' <=> HasRun(id) \/ id = e.eid
    BY <1>t, <2>1, <2>2 DEF InHeap, HasRun, UniqueIds
  <2>5. \A id \in Nat : /\ InQueue(id)' <=> InQueue(id)
                        /\ InHand(id)' <=> InHand(id)
                        /\ InRegion(id)' <=> InRegion(id)
                        /\ InSlot(id)' <=> InSlot(id)
    BY <2>3 DEF InQueue, InHand, InRegion, InSlot
  <2>6. Present(e.eid)' /\ Once(e.eid)'
    BY <2>2, <2>4, <2>5 DEF Present, Once
  <2>7. EachOnce'
    BY <1>t, <2>2, <2>3, <2>4, <2>5, <2>6, OneMoves
  <2>8. UniqueIds'
    BY <1>t, <2>1, <2>3 DEF UniqueIds
  <2> QED
    BY <2>7, <2>8
<1>6. ASSUME Schedule PROVE EachOnce' /\ UniqueIds'
  <2>0. PICK n \in Nat : n = born + 1 /\ ~Present(n) /\ n \in 1 .. n
    BY <1>t, NextIdIsNew
  <2>1. PICK e : /\ e.eid = n /\ m_events' = m_events \cup {e}
    BY <1>6, <2>0 DEF Schedule, NewEvent
  <2>2. /\ UNCHANGED <<m_eventsWithContext, devBuf, hostBuf, cur, executed>>
        /\ born' = n
    BY <1>6, <2>0 DEF Schedule
  <2>3. \A id \in Nat : /\ InHeap(id)' <=> InHeap(id) \/ id = n
                        /\ InQueue(id)' <=> InQueue(id)
                        /\ InHand(id)' <=> InHand(id)
                        /\ InRegion(id)' <=> InRegion(id)
                        /\ InSlot(id)' <=> InSlot(id)
                        /\ HasRun(id)' <=> HasRun(id)
    BY <2>1, <2>2 DEF InHeap, InQueue, InHand, InRegion, InSlot, HasRun
  <2>4. Present(n)' /\ Once(n)'
    BY <1>t, <2>2, <2>3, <2>0 DEF Present, Once
  <2>5. EachOnce'
    BY <1>t, <2>2, <2>3, <2>4, <2>0, OneMoves
  <2>6. \A f \in m_events : f.eid # n
    BY <1>t, <2>0 DEF Present, InHeap
  <2>7. UniqueIds'
    BY <1>t, <2>1, <2>2, <2>6 DEF UniqueIds
  <2> QED
    BY <2>5, <2>7
<1>7. ASSUME HandlerReturn PROVE EachOnce' /\ UniqueIds'
  <2> DEFINE Heaped(x) == [eid |-> x.eid, ts |-> m_currentTs + x.delay, type |-> Cpu,
                           la |-> Forever]
  <2>1. /\ m_events' = m_events \cup {Heaped(x) : x \in m_eventsWithContext}
        /\ m_eventsWithContext' = {}
        /\ UNCHANGED <<devBuf, hostBuf, cur, executed, born>>
    BY <1>7 DEF HandlerReturn, ProcessEventsWithContext
  <2>2. \A x \in m_eventsWithContext : Heaped(x).eid = x.eid
    OBVIOUS
  <2>3. \A id \in Nat : /\ InHeap(id)' <=> InHeap(id) \/ InQueue(id)
                        /\ ~InQueue(id)'
                        /\ InHand(id)' <=> InHand(id)
                        /\ InRegion(id)' <=> InRegion(id)
                        /\ InSlot(id)' <=> InSlot(id)
                        /\ HasRun(id)' <=> HasRun(id)
    <3> HIDE DEF Heaped
    <3> QED
      BY <2>1, <2>2 DEF InHeap, InQueue, InHand, InRegion, InSlot, HasRun
  <2>4. \A id \in Nat : (Present(id)' <=> Present(id)) /\ (Once(id) => Once(id)')
    BY <2>3 DEF Present, Once
  <2>5. EachOnce'
    BY <1>t, <2>1, <2>4 DEF EachOnce
  <2>6. \A f \in m_events, x \in m_eventsWithContext : f.eid # x.eid
    <3> SUFFICES ASSUME NEW f \in m_events, NEW x \in m_eventsWithContext, f.eid = x.eid
                 PROVE  FALSE
      OBVIOUS
    <3>1. f.eid \in Nat /\ InHeap(f.eid) /\ InQueue(f.eid)
      BY <1>t, PlacesOfEvents
    <3> QED
      BY <1>p, <3>1 DEF Present, Once
  <2>7. UniqueIds'
    <3>1. \A e, f \in m_events' : e.eid = f.eid => e = f
      <4> HIDE DEF Heaped
      <4> QED
        BY <1>t, <2>1, <2>2, <2>6 DEF UniqueIds
    <3> QED
      BY <1>t, <2>1, <3>1 DEF UniqueIds
  <2> QED
    BY <2>5, <2>7
<1>8. ASSUME ScheduleWithContext PROVE EachOnce' /\ UniqueIds'
  <2>0. PICK n \in Nat : n = born + 1 /\ ~Present(n) /\ n \in 1 .. n
    BY <1>t, NextIdIsNew
  <2>1. PICK x : x.eid = n /\ m_eventsWithContext' = m_eventsWithContext \cup {x}
    BY <1>8, <2>0 DEF ScheduleWithContext
  <2>2. UNCHANGED <<m_events, devBuf, hostBuf, cur, executed>> /\ born' = n
    BY <1>8, <2>0 DEF ScheduleWithContext
  <2>3. \A id \in Nat : /\ InHeap(id)' <=> InHeap(id)
                        /\ InQueue(id)' <=> InQueue(id) \/ id = n
                        /\ InHand(id)' <=> InHand(id)
                        /\ InRegion(id)' <=> InRegion(id)
                        /\ InSlot(id)' <=> InSlot(id)
                        /\ HasRun(id)' <=> HasRun(id)
    BY <2>1, <2>2 DEF InHeap, InQueue, InHand, InRegion, InSlot, HasRun
  <2>4. Present(n)' /\ Once(n)'
    BY <1>t, <2>2, <2>3, <2>0 DEF Present, Once
  <2>5. EachOnce'
    BY <1>t, <2>2, <2>3, <2>4, <2>0, OneMoves
  <2>6. \A y \in m_eventsWithContext : y.eid # n
    BY <1>t, <2>0 DEF Present, InQueue
  <2>7. UniqueIds'
    BY <1>t, <2>1, <2>2, <2>6 DEF UniqueIds
  <2> QED
    BY <2>5, <2>7
<1>9. ASSUME NEW i \in Slots, d_insert(i) PROVE EachOnce' /\ UniqueIds'
  <2> DEFINE r == d_curDevBuf
  <2>0. PICK n \in Nat : n = born + 1 /\ ~Present(n) /\ n \in 1 .. n
    BY <1>t, NextIdIsNew
  <2>1. PICK e : e.eid = n /\ devBuf' = [devBuf EXCEPT ![r] = @ \cup {e}]
    BY <1>9, <2>0 DEF d_insert, NewEvent
  <2>2. UNCHANGED <<m_events, m_eventsWithContext, hostBuf, cur, executed>>
        /\ born' = n
    BY <1>9, <2>0 DEF d_insert
  <2>3. /\ r \in Bufs /\ devBuf'[r] = devBuf[r] \cup {e}
        /\ \A b \in Bufs : b # r => devBuf'[b] = devBuf[b]
    BY <1>t, <2>1 DEF TypeOK
  <2>4. \A id \in Nat : /\ InRegion(id)' <=> InRegion(id) \/ id = n
                        /\ InHeap(id)' <=> InHeap(id)
                        /\ InQueue(id)' <=> InQueue(id)
                        /\ InHand(id)' <=> InHand(id)
                        /\ InSlot(id)' <=> InSlot(id)
                        /\ HasRun(id)' <=> HasRun(id)
    BY <2>1, <2>2, <2>3 DEF InHeap, InQueue, InHand, InRegion, InSlot, HasRun
  <2>5. Present(n)' /\ Once(n)'
    BY <1>t, <2>2, <2>4, <2>0 DEF Present, Once
  <2>6. EachOnce'
    BY <1>t, <2>2, <2>4, <2>5, <2>0, OneMoves
  <2>7. \A b \in Bufs : \A f \in devBuf[b] : f.eid # n
    BY <1>t, <2>0 DEF Present, InRegion
  <2>8. UniqueIds'
    BY <1>t, <2>1, <2>2, <2>3, <2>7 DEF UniqueIds
  <2> QED
    BY <2>6, <2>8
<1>10. ASSUME NEW i \in Slots, Retire(i) PROVE EachOnce' /\ UniqueIds'
  <2> DEFINE e == hostBuf[k_buf][i]
  <2>0. PICK n : n = e.eid
    OBVIOUS
  <2>1. /\ k_buf \in Bufs /\ e # None /\ hostBuf' = [hostBuf EXCEPT ![k_buf][i] = None]
        /\ executed' = executed \cup {e.eid}
        /\ UNCHANGED <<m_events, m_eventsWithContext, devBuf, cur, born>>
    BY <1>10, <1>t DEF Retire, Working, TypeOK
  <2>2. n \in Nat /\ InSlot(n) /\ Once(n) /\ n \in 1 .. born
    BY <1>t, <1>p, <2>0, <2>1, PlacesOfEvents DEF Present
  <2>3. /\ hostBuf'[k_buf][i] = None
        /\ \A b \in Bufs, j \in Slots : b # k_buf \/ j # i => hostBuf'[b][j] = hostBuf[b][j]
    BY <1>t, <2>1 DEF TypeOK
  <2>4. \A id \in Nat : InSlot(id)' <=> InSlot(id) /\ id # n
    <3> TAKE id \in Nat
    <3>1. InSlot(id)' => InSlot(id) /\ id # n
      BY <1>t, <2>0, <2>1, <2>3 DEF InSlot, UniqueIds
    <3>2. InSlot(id) /\ id # n => InSlot(id)'
      BY <2>0, <2>1, <2>3 DEF InSlot
    <3> QED
      BY <3>1, <3>2
  <2>5. \A id \in Nat : /\ HasRun(id)' <=> HasRun(id) \/ id = n
                        /\ InHeap(id)' <=> InHeap(id)
                        /\ InQueue(id)' <=> InQueue(id)
                        /\ InHand(id)' <=> InHand(id)
                        /\ InRegion(id)' <=> InRegion(id)
    BY <2>0, <2>1 DEF InHeap, InQueue, InHand, InRegion, HasRun
  <2>6. Present(n)' /\ Once(n)'
    BY <2>2, <2>4, <2>5 DEF Present, Once
  <2>7. EachOnce'
    BY <1>t, <2>1, <2>2, <2>4, <2>5, <2>6, OneMoves
  <2>8. UniqueIds'
    BY <1>t, <2>1, <2>3 DEF UniqueIds
  <2> QED
    BY <2>7, <2>8
<1>11. ASSUME \/ LoopHead \/ CollectStart \/ CollectNext \/ Refresh \/ Change \/ ClaimFull
              \/ Stop \/ Synchronize \/ Finished \/ UNCHANGED vars
       PROVE  EachOnce' /\ UniqueIds'
  <2>1. UNCHANGED placeVars
    BY <1>11 DEF LoopHead, CollectStart, CollectNext, Refresh, Change, ClaimFull,
       ChangeHostQueue, Stop, Synchronize, Finished, vars, placeVars
  <2> QED
    BY <1>1, <2>1
<1> QED
  BY <1>2, <1>3, <1>4, <1>5, <1>6, <1>7, <1>8, <1>9, <1>10, <1>11
     DEF Next, HostStep, KernelStep

\* With one element in one of the three sets, EachEventInOnePlace counts one.
LEMMA CountOne ==
  ASSUME NEW A, NEW B, NEW C, NEW x,
         \/ A = {x} /\ B = {} /\ C = {}
         \/ A = {} /\ B = {x} /\ C = {}
         \/ A = {} /\ B = {} /\ C = {x}
  PROVE  Cardinality(A) + Cardinality(B) + Cardinality(C) = 1
<1>1. Cardinality({x}) = 1 /\ Cardinality({}) = 0
  BY FS_EmptySet, FS_Singleton
<1>2. CASE A = {x} /\ B = {} /\ C = {}
  BY <1>1, <1>2
<1>3. CASE A = {} /\ B = {x} /\ C = {}
  BY <1>1, <1>3
<1>4. CASE A = {} /\ B = {} /\ C = {x}
  BY <1>1, <1>4
<1> QED
  BY <1>2, <1>3, <1>4

LEMMA OnePlaceEach == OnePlace => EachEventInOnePlace
<1> SUFFICES ASSUME OnePlace, NEW id \in 1 .. born
             PROVE
  LET slots == {x \in Bufs \X Slots :
                  hostBuf[x[1]][x[2]] # None /\ hostBuf[x[1]][x[2]].eid = id}
      regions == {b \in Bufs : \E e \in devBuf[b] : e.eid = id}
      others == {p \in {"heap", "queue", "cur", "executed"} :
        \/ p = "heap" /\ \E e \in m_events : e.eid = id
        \/ p = "queue" /\ \E x \in m_eventsWithContext : x.eid = id
        \/ p = "cur" /\ cur # None /\ cur.eid = id
        \/ p = "executed" /\ id \in executed}
  IN Cardinality(slots) + Cardinality(regions) + Cardinality(others) = 1
  BY DEF EachEventInOnePlace
<1> DEFINE
  slots == {x \in Bufs \X Slots : hostBuf[x[1]][x[2]] # None /\ hostBuf[x[1]][x[2]].eid = id}
  regions == {b \in Bufs : \E e \in devBuf[b] : e.eid = id}
  others == {p \in {"heap", "queue", "cur", "executed"} :
    \/ p = "heap" /\ \E e \in m_events : e.eid = id
    \/ p = "queue" /\ \E x \in m_eventsWithContext : x.eid = id
    \/ p = "cur" /\ cur # None /\ cur.eid = id
    \/ p = "executed" /\ id \in executed}
<1>1. Present(id) /\ Once(id) /\ UniqueIds
  BY DEF OnePlace, EachOnce
<1>2. others = {p \in {"heap", "queue", "cur", "executed"} :
    \/ p = "heap" /\ InHeap(id)
    \/ p = "queue" /\ InQueue(id)
    \/ p = "cur" /\ InHand(id)
    \/ p = "executed" /\ HasRun(id)}
  BY DEF InHeap, InQueue, InHand, HasRun
<1>3. ~InSlot(id) => slots = {}
  BY DEF InSlot
<1>4. ~InRegion(id) => regions = {}
  BY DEF InRegion
<1>5. ASSUME InSlot(id)
      PROVE  \E x : slots = {x} /\ regions = {} /\ others = {}
  <2>1. PICK b \in Bufs, i \in Slots : hostBuf[b][i] # None /\ hostBuf[b][i].eid = id
    BY <1>5 DEF InSlot
  <2>2. \A y \in slots : y = <<b, i>>
    BY <1>1, <2>1 DEF UniqueIds
  <2>3. <<b, i>> \in slots
    BY <2>1
  <2>4. slots = {<<b, i>>}
    BY <2>2, <2>3
  <2>5. regions = {} /\ others = {}
    BY <1>1, <1>2, <1>4, <1>5 DEF Once
  <2> QED
    BY <2>4, <2>5
<1>6. ASSUME InRegion(id)
      PROVE  \E x : slots = {} /\ regions = {x} /\ others = {}
  <2>1. PICK b \in Bufs : \E e \in devBuf[b] : e.eid = id
    BY <1>6 DEF InRegion
  <2>2. regions = {b}
    BY <1>1, <2>1 DEF UniqueIds
  <2>3. slots = {} /\ others = {}
    BY <1>1, <1>2, <1>3, <1>6 DEF Once
  <2> QED
    BY <2>2, <2>3
<1>7. ASSUME InHeap(id) \/ InQueue(id) \/ InHand(id) \/ HasRun(id)
      PROVE  \E x : slots = {} /\ regions = {} /\ others = {x}
  <2>1. slots = {} /\ regions = {}
    BY <1>1, <1>3, <1>4, <1>7 DEF Once
  <2>2. \E x : others = {x}
    <3>1. InHeap(id) => others = {"heap"}
      BY <1>1, <1>2 DEF Once
    <3>2. InQueue(id) => others = {"queue"}
      BY <1>1, <1>2 DEF Once
    <3>3. InHand(id) => others = {"cur"}
      BY <1>1, <1>2 DEF Once
    <3>4. HasRun(id) => others = {"executed"}
      BY <1>1, <1>2 DEF Once
    <3> QED
      BY <1>7, <3>1, <3>2, <3>3, <3>4
  <2> QED
    BY <2>1, <2>2
<1>8. \E x : \/ slots = {x} /\ regions = {} /\ others = {}
             \/ slots = {} /\ regions = {x} /\ others = {}
             \/ slots = {} /\ regions = {} /\ others = {x}
  <2> HIDE DEF slots, regions, others
  <2> QED
    BY <1>1, <1>5, <1>6, <1>7 DEF Present
<1>9. Cardinality(slots) + Cardinality(regions) + Cardinality(others) = 1
  <2> HIDE DEF slots, regions, others
  <2> QED
    BY <1>8, CountOne, ZenonT(60)
<1> QED
  BY <1>9

\* In any run, whatever the lookaheads, every event ever created is in one
\* place: none is lost, overwritten in its slot, or run twice.
THEOREM EachEventInOnePlaceHolds == Spec => []EachEventInOnePlace
<1>1. Init => OnePlace
  BY InitOnePlace
<1>2. OnePlace /\ [Next]_vars => OnePlace'
  BY OnePlaceStep
<1>3. OnePlace => EachEventInOnePlace
  BY OnePlaceEach
<1> QED
  BY <1>1, <1>2, <1>3, PTL DEF Spec

----------------------------------------------------------------------------
(* The counters of the loop.                                               *)

LEMMA InFlightAre ==
  \A e : e \in InFlight <=> e # None /\ (e = cur \/ \E b \in Bufs, i \in Slots : hostBuf[b][i] = e)
BY DEF InFlight

\* Numbers tell in-flight events from each other and from the heap.
LEMMA InFlightIds == ASSUME OnePlace
  PROVE  /\ \A e \in InFlight : /\ e \in DeviceEvent /\ e.eid \in Nat
                                /\ Once(e.eid) /\ (InHand(e.eid) \/ InSlot(e.eid))
         /\ \A e, f \in InFlight : e.eid = f.eid => e = f
<1>t. TypeOK /\ EachOnce /\ UniqueIds
  BY DEF OnePlace, Ownership
<1>1. ASSUME NEW e \in InFlight
      PROVE  /\ e \in DeviceEvent /\ e.eid \in Nat /\ (InHand(e.eid) \/ InSlot(e.eid))
             /\ Once(e.eid)
  <2>1. e \in DeviceEvent /\ e # None
    BY <1>1, <1>t, InFlightAre DEF TypeOK
  <2>2. e.eid \in Nat
    BY <2>1, DeviceEventFields
  <2>3. InHand(e.eid) \/ InSlot(e.eid)
    BY <1>1, InFlightAre DEF InHand, InSlot
  <2>4. Once(e.eid)
    BY <1>t, <2>2, <2>3, Zenon DEF EachOnce, Present
  <2> QED
    BY <2>1, <2>2, <2>3, <2>4
<1>2. ASSUME NEW e \in InFlight, NEW f \in InFlight, e.eid = f.eid
      PROVE  e = f
  <2>1. CASE e = cur /\ f = cur
    BY <2>1
  <2>2. CASE (e = cur /\ f # cur) \/ (e # cur /\ f = cur)
    <3>1. InHand(e.eid) /\ InSlot(e.eid)
      BY <1>2, <2>2, InFlightAre DEF InHand, InSlot
    <3> QED
      BY <1>1, <3>1 DEF Once
  <2>3. CASE e # cur /\ f # cur
    BY <1>2, <1>t, <2>3, InFlightAre DEF UniqueIds
  <2> QED
    BY <2>1, <2>2, <2>3
<1> QED
  BY <1>1, <1>2

\* Which events are in flight after each kind of step.
LEMMA DispatchInFlight == ASSUME OnePlace, ELP_ProcessOneEvent
  PROVE  /\ cur' \in m_events /\ cur' \in DeviceEvent /\ m_events' = m_events \ {cur'}
         /\ cur' \notin InFlight /\ InFlight' = InFlight \cup {cur'}
<1>t. TypeOK /\ EachOnce /\ UniqueIds
  BY DEF OnePlace, Ownership
<1>1. PICK e \in m_events : e \in DeviceEvent /\ cur' = e /\ m_events' = m_events \ {e}
  BY <1>t, Dispatched
<1>2. cur = None /\ hostBuf' = hostBuf /\ e # None
  BY <1>t, <1>1, DeviceEventFields DEF ELP_ProcessOneEvent, TypeOK, hostVars
<1>3. InFlight' = InFlight \cup {e}
  BY <1>1, <1>2 DEF InFlight
<1>4. e \notin InFlight
  BY <1>1, InFlightIds DEF Once, InHeap
<1> QED
  BY <1>1, <1>3, <1>4

LEMMA InsertInFlight == ASSUME OnePlace, h_insert_sort PROVE InFlight' = InFlight
<1>t. TypeOK /\ FreeSlots
  BY DEF OnePlace, Ownership
<1> DEFINE h == h_curHostBuf
           s == Slot(cur.type)
<1>1. /\ h \in Bufs /\ s \in Slots /\ hostBuf[h][s] = None /\ cur # None
      /\ hostBuf' = [hostBuf EXCEPT ![h][s] = cur] /\ cur' = None
  BY <1>t, FilledSlotIsFree, DeviceEventFields DEF h_insert_sort, TypeOK
<1>2. /\ hostBuf'[h][s] = cur
      /\ \A b \in Bufs, i \in Slots : b # h \/ i # s => hostBuf'[b][i] = hostBuf[b][i]
  BY <1>t, <1>1 DEF TypeOK
<1>3. \A e : e \in InFlight' <=> e # None /\ \E b \in Bufs, i \in Slots : hostBuf'[b][i] = e
  BY <1>1 DEF InFlight
<1>4. \A e : e \in InFlight' => e \in InFlight
  BY <1>1, <1>2, <1>3, InFlightAre
<1>5. \A e : e \in InFlight => e \in InFlight'
  BY <1>1, <1>2, <1>3, InFlightAre
<1> QED
  BY <1>4, <1>5

LEMMA RetireInFlight == ASSUME OnePlace, NEW i \in Slots, Retire(i)
  PROVE  /\ hostBuf[k_buf][i] \in InFlight
         /\ InFlight' = InFlight \ {hostBuf[k_buf][i]}
<1>t. TypeOK /\ UniqueIds
  BY DEF OnePlace, Ownership
<1> DEFINE e == hostBuf[k_buf][i]
<1>1. /\ k_buf \in Bufs /\ e # None /\ hostBuf' = [hostBuf EXCEPT ![k_buf][i] = None]
      /\ cur' = cur
  BY <1>t DEF Retire, Working, TypeOK
<1>2. /\ hostBuf'[k_buf][i] = None
      /\ \A b \in Bufs, j \in Slots : b # k_buf \/ j # i => hostBuf'[b][j] = hostBuf[b][j]
  BY <1>t, <1>1 DEF TypeOK
<1>3. \A b \in Bufs, j \in Slots : hostBuf[b][j] = e => b = k_buf /\ j = i
  BY <1>t, <1>1 DEF UniqueIds
<1>4. e \in InFlight /\ e # cur
  <2>1. e \in InFlight /\ InSlot(e.eid)
    BY <1>1, InFlightAre DEF InSlot
  <2> QED
    BY <1>1, <2>1, InFlightIds DEF Once, InHand
<1>5. \A f : f \in InFlight' <=> f # None /\ (f = cur \/ \E b \in Bufs, j \in Slots : hostBuf'[b][j] = f)
  BY <1>1 DEF InFlight
<1>6. \A f : f \in InFlight' => f \in InFlight /\ f # e
  BY <1>1, <1>2, <1>3, <1>4, <1>5, InFlightAre
<1>7. \A f : f \in InFlight /\ f # e => f \in InFlight'
  BY <1>1, <1>2, <1>5, InFlightAre
<1> QED
  BY <1>4, <1>6, <1>7

\* What HandlerReturn takes from the queue: one new event of the heap for
\* each entry.
Heaped == {[eid |-> x.eid, ts |-> m_currentTs + x.delay, type |-> Cpu, la |-> Forever] :
             x \in m_eventsWithContext}

LEMMA HeapedAreNew == ASSUME OnePlace
  PROVE  /\ IsFiniteSet(Heaped) /\ Cardinality(Heaped) = Cardinality(m_eventsWithContext)
         /\ \A e \in Heaped : /\ e.eid \in Nat /\ InQueue(e.eid) /\ Once(e.eid)
                              /\ e.ts \in Nat /\ e.ts >= m_currentTs
         /\ \A e, f \in Heaped : e.eid = f.eid => e = f
         /\ Heaped \cap m_events = {}
<1>t. TypeOK /\ EachOnce /\ UniqueIds /\ m_currentTs \in Nat
  BY DEF OnePlace, Ownership, TypeOK
<1> DEFINE Q == m_eventsWithContext
           f == [x \in Q |-> [eid |-> x.eid, ts |-> m_currentTs + x.delay, type |-> Cpu,
                              la |-> Forever]]
<1>1. \A x \in Q : f[x].eid = x.eid /\ f[x] \in Heaped
  BY DEF Heaped
<1>2. \A e \in Heaped : \E x \in Q : e = f[x]
  BY DEF Heaped
<1>3. f \in Injection(Q, Heaped) /\ f \in Surjection(Q, Heaped)
  <2>1. f \in [Q -> Heaped]
    BY <1>1
  <2>2. \A x, y \in Q : f[x] = f[y] => x = y
    BY <1>1, <1>t DEF UniqueIds
  <2> HIDE DEF f
  <2> QED
    BY <1>2, <2>1, <2>2 DEF Injection, IsInjective, Surjection
<1>4. IsFiniteSet(Heaped) /\ Cardinality(Heaped) = Cardinality(Q)
  <2> HIDE DEF f
  <2> QED
    BY <1>3, <1>t, FS_Surjection DEF TypeOK
<1>5. \A e \in Heaped : /\ e.eid \in Nat /\ InQueue(e.eid) /\ Once(e.eid)
                        /\ e.ts \in Nat /\ e.ts >= m_currentTs
  <2> SUFFICES ASSUME NEW x \in Q
               PROVE  /\ x.eid \in Nat /\ InQueue(x.eid) /\ Once(x.eid)
                      /\ m_currentTs + x.delay \in Nat
                      /\ m_currentTs + x.delay >= m_currentTs
    BY DEF Heaped
  <2>1. x.eid \in Nat /\ x.delay \in Nat /\ InQueue(x.eid)
    BY <1>t DEF TypeOK, InQueue
  <2>2. Once(x.eid)
    BY <1>t, <2>1, Zenon DEF EachOnce, Present
  <2> QED
    BY <1>t, <2>1, <2>2
<1>6. \A e, g \in Heaped : e.eid = g.eid => e = g
  <2> SUFFICES ASSUME NEW x \in Q, NEW y \in Q, f[x].eid = f[y].eid
               PROVE  f[x] = f[y]
    BY <1>2
  <2> HIDE DEF f
  <2> QED
    BY <1>t, <1>1 DEF UniqueIds
<1>7. \A e \in Heaped : e \notin m_events
  BY <1>5 DEF Once, InHeap
<1> QED
  BY <1>4, <1>5, <1>6, <1>7

CountInv == /\ IsFiniteSet(m_events) /\ IsFiniteSet(executed) /\ IsFiniteSet(InFlight)
            /\ CountersAgree

\* Every step keeps the counters right.
LEMMA CountStep == OnePlace /\ CountInv /\ [Next]_vars => CountInv'
<1> SUFFICES ASSUME OnePlace, CountInv, [Next]_vars PROVE CountInv'
  OBVIOUS
<1>t. TypeOK /\ EachOnce /\ UniqueIds
  BY DEF OnePlace, Ownership
<1>n. /\ Cardinality(m_events) \in Nat /\ Cardinality(executed) \in Nat
      /\ Cardinality(InFlight) \in Nat /\ Cardinality(m_eventsWithContext) \in Nat
      /\ IsFiniteSet(m_eventsWithContext)
  BY <1>t, FS_CardinalityType DEF CountInv, TypeOK
<1>p. \A id \in Nat : Present(id) => Once(id)
  <2> TAKE id \in Nat
  <2> QED
    BY <1>t, Zenon DEF EachOnce
<1> USE DEF heapVars, clockVars, safeVars, warpVars, hostVars, devVars
<1>1. ASSUME UNCHANGED <<m_events, executed, hostBuf, cur, m_unscheduledEvents, m_eventCount>>
      PROVE  CountInv'
  BY <1>1 DEF CountInv, CountersAgree, InFlight
<1>2. ASSUME NEW e, m_events' = m_events \cup {e}, e \notin m_events,
             m_unscheduledEvents' = m_unscheduledEvents + 1,
             UNCHANGED <<executed, hostBuf, cur, m_eventCount>>
      PROVE  CountInv'
  <2>1. IsFiniteSet(m_events') /\ Cardinality(m_events') = Cardinality(m_events) + 1
    BY <1>2, FS_AddElement DEF CountInv
  <2>2. InFlight' = InFlight
    BY <1>2 DEF InFlight
  <2> QED
    BY <1>2, <2>1, <2>2 DEF CountInv, CountersAgree
<1>3. ASSUME ELP_Schedule PROVE CountInv'
  <2>1. PICK e \in devBuf[h_curDevBuf] : m_events' = m_events \cup {e}
    BY <1>3 DEF ELP_Schedule
  <2>2. e.eid \in Nat /\ InRegion(e.eid)
    BY <1>t, PlacesOfEvents DEF TypeOK
  <2>3. e \notin m_events
    BY <1>p, <2>2 DEF Present, Once, InHeap
  <2> QED
    BY <1>2, <1>3, <2>1, <2>3 DEF ELP_Schedule
<1>4. ASSUME Schedule PROVE CountInv'
  <2>1. PICK e : e.eid = born + 1 /\ m_events' = m_events \cup {e}
    BY <1>4 DEF Schedule, NewEvent
  <2>2. e \notin m_events
    BY <1>t, <2>1, NextIdIsNew DEF Present, InHeap
  <2> QED
    BY <1>2, <1>4, <2>1, <2>2 DEF Schedule
<1>5. ASSUME ELP_ProcessOneEvent PROVE CountInv'
  <2>1. /\ IsFiniteSet(m_events') /\ Cardinality(m_events') = Cardinality(m_events) - 1
        /\ IsFiniteSet(InFlight') /\ Cardinality(InFlight') = Cardinality(InFlight) + 1
    BY <1>5, DispatchInFlight, FS_AddElement, FS_RemoveElement DEF CountInv
  <2>2. /\ UNCHANGED executed /\ m_unscheduledEvents' = m_unscheduledEvents - 1
        /\ m_eventCount' = m_eventCount + 1
    BY <1>5 DEF ELP_ProcessOneEvent
  <2> QED
    BY <1>n, <2>1, <2>2 DEF CountInv, CountersAgree
<1>6. ASSUME h_insert_sort PROVE CountInv'
  <2>1. InFlight' = InFlight
    BY <1>6, InsertInFlight
  <2> QED
    BY <1>6, <2>1 DEF h_insert_sort, CountInv, CountersAgree
<1>7. ASSUME ProcessOneEvent PROVE CountInv'
  <2>1. PICK e \in m_events : m_events' = m_events \ {e} /\ executed' = executed \cup {e.eid}
    BY <1>7 DEF ProcessOneEvent
  <2>2. e.eid \in Nat /\ InHeap(e.eid)
    BY <1>t, <2>1, PlacesOfEvents
  <2>3. e.eid \notin executed
    BY <1>p, <2>2 DEF Present, Once, HasRun
  <2>4. /\ IsFiniteSet(m_events') /\ Cardinality(m_events') = Cardinality(m_events) - 1
        /\ IsFiniteSet(executed') /\ Cardinality(executed') = Cardinality(executed) + 1
    BY <2>1, <2>3, FS_AddElement, FS_RemoveElement DEF CountInv
  <2>5. /\ UNCHANGED <<hostBuf, cur>> /\ m_unscheduledEvents' = m_unscheduledEvents - 1
        /\ m_eventCount' = m_eventCount + 1
    BY <1>7 DEF ProcessOneEvent
  <2>6. InFlight' = InFlight
    BY <2>5 DEF InFlight
  <2> QED
    BY <1>n, <2>4, <2>5, <2>6 DEF CountInv, CountersAgree
<1>8. ASSUME HandlerReturn PROVE CountInv'
  <2>1. /\ m_events' = m_events \cup Heaped /\ UNCHANGED <<executed, hostBuf, cur, m_eventCount>>
        /\ m_unscheduledEvents' = m_unscheduledEvents + Cardinality(m_eventsWithContext)
    BY <1>8 DEF HandlerReturn, ProcessEventsWithContext, Heaped
  <2>2. /\ IsFiniteSet(Heaped) /\ Cardinality(Heaped) = Cardinality(m_eventsWithContext)
        /\ m_events \cap Heaped = {}
    BY HeapedAreNew
  <2>3. /\ IsFiniteSet(m_events')
        /\ Cardinality(m_events') = Cardinality(m_events) + Cardinality(m_eventsWithContext)
    <3>1. Cardinality(m_events \cap Heaped) = 0
      BY <2>2, FS_EmptySet
    <3>2. /\ IsFiniteSet(m_events \cup Heaped)
          /\ Cardinality(m_events \cup Heaped) = Cardinality(m_events) + Cardinality(Heaped)
                                                 - Cardinality(m_events \cap Heaped)
      BY <2>2, FS_Union DEF CountInv
    <3> QED
      BY <1>n, <2>1, <2>2, <3>1, <3>2
  <2>4. InFlight' = InFlight
    BY <2>1 DEF InFlight
  <2> QED
    BY <1>n, <2>1, <2>3, <2>4 DEF CountInv, CountersAgree
<1>9. ASSUME NEW i \in Slots, Retire(i) PROVE CountInv'
  <2> DEFINE e == hostBuf[k_buf][i]
  <2>1. /\ e \in InFlight /\ InFlight' = InFlight \ {e} /\ executed' = executed \cup {e.eid}
        /\ UNCHANGED <<m_events, m_unscheduledEvents, m_eventCount>>
    BY <1>9, RetireInFlight DEF Retire
  <2>2. e.eid \notin executed
    BY <2>1, InFlightIds DEF Once, HasRun
  <2>3. /\ IsFiniteSet(InFlight') /\ Cardinality(InFlight') = Cardinality(InFlight) - 1
        /\ IsFiniteSet(executed') /\ Cardinality(executed') = Cardinality(executed) + 1
    BY <2>1, <2>2, FS_AddElement, FS_RemoveElement DEF CountInv
  <2> QED
    BY <1>n, <2>1, <2>3 DEF CountInv, CountersAgree
<1>10. ASSUME \/ LoopHead \/ CollectStart \/ CollectNext \/ Refresh \/ Change \/ ClaimFull
              \/ Stop \/ Synchronize \/ Finished \/ UNCHANGED vars \/ ScheduleWithContext
              \/ \E i \in Slots : d_insert(i)
       PROVE  CountInv'
  <2>1. UNCHANGED <<m_events, executed, hostBuf, cur, m_unscheduledEvents, m_eventCount>>
    BY <1>10 DEF LoopHead, CollectStart, CollectNext, Refresh, Change, ClaimFull,
       ChangeHostQueue, Stop, Synchronize, Finished, vars, ScheduleWithContext, d_insert
  <2> QED
    BY <1>1, <2>1
<1> QED
  BY <1>3, <1>4, <1>5, <1>6, <1>7, <1>8, <1>9, <1>10 DEF Next, HostStep, KernelStep

\* In any run m_unscheduledEvents is the size of the heap and m_eventCount
\* the number of events taken off it.
THEOREM CountersAgreeHolds == Spec => []CountersAgree
<1>1. Init => OnePlace /\ CountInv
  <2> SUFFICES ASSUME Init PROVE CountInv
    BY InitOnePlace
  <2>1. m_events = InitialEvents /\ executed = {} /\ InFlight = {}
    BY DEF Init, InFlight
  <2> QED
    BY <2>1, InitialAssumption, FS_EmptySet, FS_CardinalityType
       DEF Init, CountInv, CountersAgree
<1>2. OnePlace /\ CountInv /\ [Next]_vars => OnePlace' /\ CountInv'
  BY OnePlaceStep, CountStep
<1>3. CountInv => CountersAgree
  BY DEF CountInv
<1> QED
  BY <1>1, <1>2, <1>3, PTL DEF Spec

----------------------------------------------------------------------------
(* The loop implements ConservativeDes: each step is a step of it, or      *)
(* changes nothing that it speaks of.                                      *)

desState == <<m_events, InFlight, Fresh, executed, m_currentTs>>

LEMMA KnownArePresent == ASSUME OnePlace, NEW id \in Des!Known
  PROVE  InHeap(id) \/ InHand(id) \/ InRegion(id) \/ InSlot(id) \/ HasRun(id)
<1>1. CASE id \in executed
  BY <1>1 DEF HasRun
<1>2. CASE \E e \in m_events : e.eid = id
  BY <1>2 DEF InHeap
<1>3. CASE \E e \in InFlight : e.eid = id
  BY <1>3, InFlightIds
<1>4. CASE \E e \in Fresh : e.eid = id
  BY <1>4 DEF Fresh, InRegion
<1> QED
  BY <1>1, <1>2, <1>3, <1>4 DEF Des!Known

\* An event that is_safe lets pass is safe, in the sense of ConservativeDes.
LEMMA IsSafeIsSafe ==
  ASSUME HonestLookahead, IInv, NEW e \in m_events, IsNext(e), IsSafe(e), cur = None
  PROVE  Des!Safe(e) /\ e.ts >= m_currentTs
<1>t. /\ TypeOK /\ safe_ts \in Nat /\ d_safe_ts \in [Bufs -> Nat] /\ m_currentTs \in Nat
      /\ e.ts \in Nat /\ e.ts < safe_ts /\ Forever \in Nat
  BY Constants, EventFields DEF IInv, Ownership, TypeOK, IsSafe
<1>1. \A f \in m_events : e.ts <= f.ts
  BY <1>t, EventFields DEF IsNext, TypeOK
<1>2. ASSUME NEW f \in InFlight PROVE e.ts < Des!EarliestChild(f)
  <2>1. PICK b \in Bufs, i \in Slots : hostBuf[b][i] = f /\ f # None
    BY <1>2, InFlightAre
  <2>2. d_safe_ts[b] \in Nat /\ safe_ts <= d_safe_ts[b] /\ d_safe_ts[b] <= Forever
    BY <1>t DEF IInv, SafeBounds, BufferBounds
  <2>3. CASE f.la = Forever
    BY <1>t, <2>2, <2>3 DEF Des!EarliestChild
  <2>4. CASE f.la # Forever
    <3>1. d_safe_ts[b] <= EarliestChild(f)
      BY <2>1, <2>4 DEF IInv, BufferBounds
    <3>2. f.ts \in Nat /\ f.la \in Nat
      BY <1>t, <2>1, DeviceEventFields DEF TypeOK
    <3> QED
      BY <1>t, <2>2, <2>4, <3>1, <3>2 DEF EarliestChild, Des!EarliestChild
  <2> QED
    BY <2>3, <2>4
<1>3. \A f \in Fresh : e.ts <= f.ts
  BY <1>t, FreshAreLate
<1>4. e.ts >= m_currentTs
  BY <1>t DEF IInv, ClockBounds
<1> QED
  BY <1>1, <1>2, <1>3, <1>4 DEF Des!Safe

\* Every step of the loop is a step of ConservativeDes or a stutter.
LEMMA DesStep ==
  HonestLookahead /\ IInv /\ OnePlace /\ [Next]_vars => [Des!Next]_desState
<1> SUFFICES ASSUME HonestLookahead, IInv, OnePlace, [Next]_vars
             PROVE  Des!Next \/ UNCHANGED desState
  OBVIOUS
<1>t. TypeOK /\ EachOnce /\ UniqueIds
  BY DEF OnePlace, Ownership
<1>p. \A id \in Nat : Present(id) => Once(id)
  <2> TAKE id \in Nat
  <2> QED
    BY <1>t, Zenon DEF EachOnce
<1> USE DEF heapVars, clockVars, safeVars, warpVars, hostVars, devVars
<1>1. ASSUME ELP_Schedule PROVE Des!Collect
  <2> DEFINE r == h_curDevBuf
  <2>1. PICK e \in devBuf[r] : /\ devBuf' = [devBuf EXCEPT ![r] = @ \ {e}]
                               /\ m_events' = m_events \cup {e}
    BY <1>1 DEF ELP_Schedule
  <2>2. UNCHANGED <<hostBuf, cur, executed, m_currentTs>> /\ r \in Bufs
    BY <1>1, <1>t DEF ELP_Schedule, TypeOK
  <2>3. e \in Fresh /\ InFlight' = InFlight
    BY <2>2 DEF Fresh, InFlight
  <2>4. /\ devBuf'[r] = devBuf[r] \ {e} /\ e \notin devBuf[Other(r)]
        /\ devBuf'[Other(r)] = devBuf[Other(r)]
    BY <1>t, <2>1, <2>2 DEF TypeOK, UniqueIds
  <2>5. Fresh' = Fresh \ {e}
    BY <2>2, <2>4 DEF Fresh
  <2> QED
    BY <2>1, <2>2, <2>3, <2>5 DEF Des!Collect
<1>2. ASSUME ELP_ProcessOneEvent PROVE Des!Dispatch
  <2>1. PICK e \in m_events :
          /\ IsNext(e) /\ e.type # Cpu /\ IsSafe(e) /\ m_events' = m_events \ {e}
          /\ Advance(e.ts) /\ cur' = e
    BY <1>2 DEF ELP_ProcessOneEvent
  <2>2. cur = None /\ UNCHANGED <<devBuf, executed>>
    BY <1>2, <1>t DEF ELP_ProcessOneEvent, TypeOK
  <2>3. Des!Safe(e) /\ e.ts >= m_currentTs /\ e.ts \in Nat /\ m_currentTs \in Nat
    BY <1>t, <2>1, <2>2, IsSafeIsSafe, EventFields DEF TypeOK
  <2>4. m_currentTs' = e.ts
    BY <2>1, <2>3 DEF Advance
  <2>5. InFlight' = InFlight \cup {e} /\ Fresh' = Fresh
    BY <1>2, <2>1, <2>2, DispatchInFlight DEF Fresh
  <2> QED
    BY <2>1, <2>2, <2>3, <2>4, <2>5 DEF Des!Dispatch
<1>3. ASSUME ProcessOneEvent PROVE Des!RunOnHost
  <2>1. PICK e \in m_events :
          /\ IsNext(e) /\ e.type = Cpu /\ IsSafe(e) /\ m_events' = m_events \ {e}
          /\ m_currentTs' = e.ts /\ executed' = executed \cup {e.eid}
    BY <1>3 DEF ProcessOneEvent
  <2>2. cur = None /\ UNCHANGED <<devBuf, hostBuf, cur>>
    BY <1>3, <1>t DEF ProcessOneEvent, TypeOK
  <2>3. Des!Safe(e) /\ e.ts >= m_currentTs
    BY <2>1, <2>2, IsSafeIsSafe
  <2>4. InFlight' = InFlight /\ Fresh' = Fresh
    BY <2>2 DEF InFlight, Fresh
  <2> QED
    BY <2>1, <2>2, <2>3, <2>4 DEF Des!RunOnHost
<1>4. ASSUME Schedule PROVE Des!Schedule
  <2>1. PICK e : /\ e.eid = born + 1 /\ e.ts \in m_currentTs .. MaxTs
                 /\ m_events' = m_events \cup {e}
    BY <1>4 DEF Schedule, NewEvent
  <2>2. UNCHANGED <<hostBuf, cur, devBuf, executed, m_currentTs>>
    BY <1>4 DEF Schedule
  <2>3. InFlight' = InFlight /\ Fresh' = Fresh
    BY <2>2 DEF InFlight, Fresh
  <2>4. e \notin m_events /\ e.eid \notin Des!Known
    <3>1. ~Present(born + 1)
      BY <1>t, NextIdIsNew
    <3>2. e.eid \notin Des!Known
      BY <2>1, <3>1, KnownArePresent DEF Present
    <3> QED
      BY <2>1, <3>1, <3>2 DEF Present, InHeap
  <2>5. m_events' \ m_events = {e}
    BY <2>1, <2>4
  <2>6. e.ts >= m_currentTs
    BY <1>t, <2>1, Constants DEF TypeOK
  <2> QED
    BY <2>1, <2>2, <2>3, <2>4, <2>5, <2>6 DEF Des!Schedule
<1>5. ASSUME HandlerReturn PROVE Des!Schedule \/ UNCHANGED desState
  <2>1. /\ m_events' = m_events \cup Heaped
        /\ UNCHANGED <<hostBuf, cur, devBuf, executed, m_currentTs>>
    BY <1>5 DEF HandlerReturn, ProcessEventsWithContext, Heaped
  <2>2. InFlight' = InFlight /\ Fresh' = Fresh
    BY <2>1 DEF InFlight, Fresh
  <2>3. m_events' \ m_events = Heaped
    BY <2>1, HeapedAreNew
  <2>4. \A e \in Heaped : e.eid \notin Des!Known /\ e.ts >= m_currentTs
    <3> SUFFICES ASSUME NEW e \in Heaped, e.eid \in Des!Known PROVE FALSE
      BY HeapedAreNew
    <3>1. InQueue(e.eid) /\ Once(e.eid)
      BY HeapedAreNew
    <3>2. InHeap(e.eid) \/ InHand(e.eid) \/ InRegion(e.eid) \/ InSlot(e.eid) \/ HasRun(e.eid)
      BY KnownArePresent
    <3> QED
      BY <3>1, <3>2 DEF Once
  <2>5. \A e, f \in Heaped : e.eid = f.eid => e = f
    BY HeapedAreNew
  <2>6. CASE Heaped = {}
    BY <2>1, <2>2, <2>6 DEF desState
  <2>7. CASE Heaped # {}
    BY <2>1, <2>2, <2>3, <2>4, <2>5, <2>7 DEF Des!Schedule
  <2> QED
    BY <2>6, <2>7
<1>6. ASSUME NEW i \in Slots, d_insert(i) PROVE Des!Generate
  <2> DEFINE parent == hostBuf[k_buf][i]
  <2>1. parent \in DeviceEvent /\ parent # None /\ parent.la # Forever /\ k_buf \in Bufs
    BY <1>6, <1>t DEF d_insert, Working, TypeOK
  <2>2. parent \in InFlight
    BY <2>1, InFlightAre
  <2>3. PICK e :
          /\ e.eid = born + 1 /\ e.ts \in FirstChild(parent) .. MaxTs
          /\ devBuf' = [devBuf EXCEPT ![d_curDevBuf] = @ \cup {e}]
    BY <1>6 DEF d_insert, NewEvent
  <2>4. UNCHANGED <<m_events, hostBuf, cur, executed, m_currentTs>>
    BY <1>6 DEF d_insert
  <2>5. InFlight' = InFlight
    BY <2>4 DEF InFlight
  <2>6. Fresh' = Fresh \cup {e}
    <3>1. /\ d_curDevBuf \in Bufs /\ devBuf'[d_curDevBuf] = devBuf[d_curDevBuf] \cup {e}
          /\ devBuf'[Other(d_curDevBuf)] = devBuf[Other(d_curDevBuf)]
      BY <1>t, <2>3 DEF TypeOK
    <3> QED
      BY <3>1 DEF Fresh
  <2>7. e \notin Fresh /\ e.eid \notin Des!Known
    <3>1. ~Present(born + 1)
      BY <1>t, NextIdIsNew
    <3>2. e.eid \notin Des!Known
      BY <2>3, <3>1, KnownArePresent DEF Present
    <3> QED
      BY <2>3, <3>1, <3>2 DEF Present, InRegion, Fresh
  <2>8. e.ts >= Des!EarliestChild(parent)
    <3>1. parent.ts \in Nat /\ parent.la \in Nat
      BY <2>1, DeviceEventFields
    <3> QED
      BY <2>1, <2>3, <3>1, Constants DEF FirstChild, EarliestChild, Des!EarliestChild
  <2>9. e \in Fresh' \ Fresh
    BY <2>6, <2>7
  <2> QED
    BY <2>1, <2>2, <2>4, <2>5, <2>6, <2>7, <2>8, <2>9 DEF Des!Generate
<1>7. ASSUME NEW i \in Slots, Retire(i) PROVE Des!Retire
  <2>1. /\ hostBuf[k_buf][i] \in InFlight /\ InFlight' = InFlight \ {hostBuf[k_buf][i]}
        /\ executed' = executed \cup {hostBuf[k_buf][i].eid}
    BY <1>7, RetireInFlight DEF Retire
  <2>2. UNCHANGED <<m_events, Fresh, m_currentTs>>
    BY <1>7 DEF Retire, Fresh
  <2> QED
    BY <2>1, <2>2 DEF Des!Retire
<1>8. ASSUME h_insert_sort PROVE UNCHANGED desState
  <2>1. InFlight' = InFlight
    BY <1>8, InsertInFlight
  <2> QED
    BY <1>8, <2>1 DEF h_insert_sort, desState, Fresh
<1>9. ASSUME \/ LoopHead \/ CollectStart \/ CollectNext \/ Refresh \/ Change \/ ClaimFull
             \/ Stop \/ Synchronize \/ Finished \/ UNCHANGED vars \/ ScheduleWithContext
      PROVE  UNCHANGED desState
  <2>1. UNCHANGED <<m_events, executed, hostBuf, cur, devBuf, m_currentTs>>
    BY <1>9 DEF LoopHead, CollectStart, CollectNext, Refresh, Change, ClaimFull,
       ChangeHostQueue, Stop, Synchronize, Finished, vars, ScheduleWithContext
  <2> QED
    BY <2>1 DEF desState, InFlight, Fresh
<1> QED
  BY <1>1, <1>2, <1>3, <1>4, <1>5, <1>6, <1>7, <1>8, <1>9
     DEF Next, HostStep, KernelStep, Des!Next

\* While lookaheads are honest, ELP_RunSK is a conservative parallel
\* simulator: it dispatches only what nothing still to come can affect.
THEOREM ImplementsDesHolds ==
  ASSUME HonestLookahead PROVE Spec => ImplementsDes
<1>1. Init => IInv /\ OnePlace
  BY InitIInv, InitOnePlace
<1>2. IInv /\ OnePlace /\ [Next]_vars => IInv' /\ OnePlace'
  BY IInvStep, OnePlaceStep
<1>3. Init => Des!Init
  BY InitialAssumption DEF Init, Des!Init, InFlight, Fresh
<1>4. IInv /\ OnePlace /\ [Next]_vars => [Des!Next]_(Des!desVars)
  BY DesStep DEF desState, Des!desVars
<1> QED
  BY <1>1, <1>2, <1>3, <1>4, PTL DEF Spec, ImplementsDes, Des!Spec
==============================================================================
