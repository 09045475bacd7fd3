---------------------------- MODULE ElpSimulator -----------------------------
(***************************************************************************)
(* CudaELPSimulator::ELP_RunSK: the CPU thread that owns the event heap    *)
(* (m_events) and the GPU kernel SingleBufKernel that runs one buffer of   *)
(* safe events, one thread per stride of slots.  The CPU fills one host    *)
(* buffer while the kernel empties the other, and collects one device      *)
(* buffer of new events while the kernel fills the other.  An event is     *)
(* safe when its timestamp is below safe_ts, the earliest time at which a  *)
(* dispatched event may still generate another one.                        *)
(*                                                                         *)
(* Abstractions.  Payload and object pointers are left out.  eid is the    *)
(* birth number of an event, history only.  A type other than Cpu stands   *)
(* for a uid of at least DEVICE_EV_ID_OFFSET; the order of equal           *)
(* timestamps inside the two classes is left open, as m_uid wraps.  A      *)
(* device buffer is a set: the per-thread regions of d_insert, which never *)
(* fill here, are the subject of DeviceInsert.  A handler is a finite run  *)
(* of insertions of its event's children.                                  *)
(***************************************************************************)
EXTENDS Integers, FiniteSets

CONSTANTS
  Types,              \* 0 .. EVENT_KINDS-1
  Cpu,                \* the type of an event that runs on the CPU
  Lookaheads,         \* lookaheads carried by device events
  Forever,            \* UINT64_MAX
  WarpSize,           \* WARP_SIZE
  QueueLength,        \* DEVICE_QUEUE_LENGTH, slots of a host buffer
  Threads,            \* threads of the kernel, 0 .. totalThreads-1
  None,               \* a slot whose valid flag is false
  HonestLookahead,    \* TRUE: a child is never earlier than ts + lookahead
  InitialEvents,      \* scheduled before ELP_RunSK, eids 1 .. n
  MaxTs,              \* bound: timestamps of new events
  MaxEvents           \* bound: events ever created

ElpAssumption ==
  /\ WarpSize \in Nat \ {0} /\ QueueLength \in Nat \ {0}
  /\ IsFiniteSet(Types) /\ Types # {} /\ Types = 0 .. Cardinality(Types) - 1
  /\ \A k \in Types : (k + 1) * WarpSize <= QueueLength
  /\ Lookaheads \subseteq Nat /\ Forever \in Nat \ Lookaheads
  /\ MaxTs \in Nat /\ MaxEvents \in Nat
  /\ \A n \in Lookaheads : MaxTs + n < Forever
  /\ Threads # {} /\ Threads \subseteq Nat
  /\ HonestLookahead \in BOOLEAN

ASSUME ElpAssumption

Bufs == {1, 2}
Other(b) == 3 - b
Slots == 0 .. QueueLength - 1

DeviceEvent == [eid : Nat, ts : Nat, type : Types, la : Lookaheads \cup {Forever}]
CpuEvent == [eid : Nat, ts : Nat, type : {Cpu}, la : {Forever}]
Event == DeviceEvent \cup CpuEvent

ASSUME InitialAssumption ==
  /\ InitialEvents \subseteq Event /\ IsFiniteSet(InitialEvents)
  /\ None \notin Event /\ Cpu \notin Types
  /\ \A e, f \in InitialEvents : e.eid = f.eid => e = f
  /\ {e.eid : e \in InitialEvents} = 1 .. Cardinality(InitialEvents)
  /\ \A e \in InitialEvents : e.ts <= MaxTs

VARIABLES
  m_events,             \* the heap, a set
  m_eventsWithContext,  \* scheduled by other threads: [eid, delay]
  m_unscheduledEvents, m_eventCount, m_currentTs, m_stop,
  safe_ts,              \* *safe_ts
  d_safe_ts,            \* *d_safe_ts1, *d_safe_ts2
  old,                  \* safe_ts at the head of the loop
  hostBuf,              \* h_safeEventQueue1, 2
  h_curHostBuf, h_bufrdy,
  warp_index, warp_thread_index, next_avail_warp,
  devBuf,               \* d_nextEventQueue1, 2
  d_curDevBuf, d_bufrdy, h_curDevBuf,
  k_buf,                \* buffer of the last launched kernel, 0 before
  pc,                   \* where the CPU thread is
  cur,                  \* event taken from the heap, on its way to a buffer
  born, executed        \* history: eids given out, eids that have run

heapVars == <<m_events, m_eventsWithContext, m_unscheduledEvents, m_eventCount>>
clockVars == <<m_currentTs, m_stop>>
safeVars == <<safe_ts, d_safe_ts>>
warpVars == <<warp_index, warp_thread_index, next_avail_warp>>
hostVars == <<hostBuf, h_curHostBuf, h_bufrdy>>
devVars == <<devBuf, d_curDevBuf, d_bufrdy>>
vars == <<heapVars, clockVars, safeVars, old, hostVars, warpVars, devVars,
          h_curDevBuf, k_buf, pc, cur, born, executed>>

----------------------------------------------------------------------------
(* The kernel runs as long as its buffer holds a valid event.              *)
KernelIdle_NoWait == TRUE
KernelIdle == k_buf # 0 => \A i \in Slots : hostBuf[k_buf][i] = None

\* Slot i is the one that its kernel thread is working on: threads stride
\* over the buffer and every slot before i in the stride is done.
Working(i) ==
  /\ k_buf # 0 /\ hostBuf[k_buf][i] # None
  /\ \E t \in Threads : i % Cardinality(Threads) = t
  /\ \A j \in Slots : j < i /\ j % Cardinality(Threads) = i % Cardinality(Threads)
                      => hostBuf[k_buf][j] = None

\* Earliest timestamp of a child of e.
EarliestChild(e) == IF e.la = Forever THEN Forever ELSE e.ts + e.la
FirstChild(e) == IF HonestLookahead THEN EarliestChild(e) ELSE e.ts

\* is_safe: strictly before anything that can still be generated.
IsSafe_Lax(e) == e.ts <= safe_ts
IsSafe(e) == e.ts < safe_ts

Min2(a, b) == IF a < b THEN a ELSE b
Lower(ts, e) == IF e.la = Forever THEN ts ELSE Min2(e.ts + e.la, ts)

\* What safe_ts is raised to: the smaller bound of the two host buffers.
BufferBound_OneBuffer == d_safe_ts[h_curHostBuf]
BufferBound == Min2(d_safe_ts[1], d_safe_ts[2])

\* PeekNext: smallest timestamp, CPU events first (their uids are smaller).
IsNext(e) ==
  /\ e \in m_events
  /\ \A f \in m_events : e.ts < f.ts \/ (e.ts = f.ts /\ (e.type = Cpu \/ f.type # Cpu))

Init ==
  /\ m_events = InitialEvents /\ m_eventsWithContext = {}
  /\ m_unscheduledEvents = Cardinality(InitialEvents) /\ m_eventCount = 0
  /\ m_currentTs = 0 /\ m_stop = FALSE
  /\ safe_ts = Forever /\ d_safe_ts = [b \in Bufs |-> Forever] /\ old = Forever
  /\ hostBuf = [b \in Bufs |-> [i \in Slots |-> None]]
  /\ h_curHostBuf = 1 /\ h_bufrdy = [b \in Bufs |-> 0]
  /\ warp_index = [k \in Types |-> k]
  /\ warp_thread_index = [k \in Types |-> 0]
  /\ next_avail_warp = Cardinality(Types)
  /\ devBuf = [b \in Bufs |-> {}] /\ d_curDevBuf = 1 /\ h_curDevBuf = 1
  /\ d_bufrdy = [b \in Bufs |-> 0]
  /\ k_buf = 0 /\ pc = "loop" /\ cur = None
  /\ born = Cardinality(InitialEvents) /\ executed = {}

----------------------------------------------------------------------------
(* ELP_RunSK, head of the loop.                                            *)
LoopHead ==
  /\ pc = "loop"
  /\ IF m_events = {} \/ m_stop
     THEN pc' = "sync" /\ old' = old
     ELSE pc' = "collect" /\ old' = safe_ts
  /\ UNCHANGED <<heapVars, clockVars, safeVars, hostVars, warpVars, devVars,
                 h_curDevBuf, k_buf, cur, born, executed>>

(* ELP_ScheduleDevEvent: nothing ready, or start with buffer 1 if ready.   *)
CollectStart ==
  /\ pc = "collect"
  /\ IF \A b \in Bufs : d_bufrdy[b] = 0
     THEN pc' = "peek" /\ h_curDevBuf' = h_curDevBuf
     ELSE /\ pc' = "collect1"
          /\ h_curDevBuf' = IF d_bufrdy[1] = 1 THEN 1 ELSE 2
  /\ UNCHANGED <<heapVars, clockVars, safeVars, old, hostVars, warpVars, devVars,
                 k_buf, cur, born, executed>>

(* ELP_Schedule of one valid event of the buffer being collected.          *)
ELP_Schedule ==
  /\ pc \in {"collect1", "collect2"}
  /\ \E e \in devBuf[h_curDevBuf] :
       /\ devBuf' = [devBuf EXCEPT ![h_curDevBuf] = @ \ {e}]
       /\ m_events' = m_events \cup {e}
  /\ m_unscheduledEvents' = m_unscheduledEvents + 1
  /\ UNCHANGED <<m_eventsWithContext, m_eventCount, clockVars, safeVars, old,
                 hostVars, warpVars, d_curDevBuf, d_bufrdy, h_curDevBuf, k_buf,
                 pc, cur, born, executed>>

(* The whole buffer has been scanned: clear its flag, look at the other.   *)
CollectNext ==
  /\ pc \in {"collect1", "collect2"} /\ devBuf[h_curDevBuf] = {}
  /\ d_bufrdy' = [d_bufrdy EXCEPT ![h_curDevBuf] = 0]
  /\ IF pc = "collect1"
     THEN /\ h_curDevBuf' = Other(h_curDevBuf)
          /\ pc' = IF d_bufrdy[Other(h_curDevBuf)] = 1 THEN "collect2" ELSE "peek"
     ELSE h_curDevBuf' = h_curDevBuf /\ pc' = "peek"
  /\ UNCHANGED <<heapVars, clockVars, safeVars, old, hostVars, warpVars, devBuf,
                 d_curDevBuf, k_buf, cur, born, executed>>

----------------------------------------------------------------------------
(* is_safe fails: take the smaller of the two buffer bounds; if that is    *)
(* what safe_ts was, nothing moves until the buffers are changed.          *)
Refresh ==
  /\ pc = "peek"
  /\ \E e \in m_events : IsNext(e) /\ ~IsSafe(e)
  /\ safe_ts' = BufferBound
  /\ pc' = IF old = safe_ts' THEN "change" ELSE "loop"
  /\ UNCHANGED <<heapVars, clockVars, d_safe_ts, old, hostVars, warpVars, devVars,
                 h_curDevBuf, k_buf, cur, born, executed>>

\* The kernel's output is ready for the CPU, the next kernel fills the other.
ChangeDevQueue_NoToggle ==
  /\ d_bufrdy' = [d_bufrdy EXCEPT ![d_curDevBuf] = 1]
  /\ UNCHANGED d_curDevBuf
ChangeDevQueue ==
  /\ d_bufrdy' = [d_bufrdy EXCEPT ![d_curDevBuf] = 1]
  /\ d_curDevBuf' = Other(d_curDevBuf)

\* All events of the buffer about to be filled have run: no bound any more.
ReleaseBound_Forgotten == UNCHANGED d_safe_ts
ReleaseBound == d_safe_ts' = [d_safe_ts EXCEPT ![Other(h_curHostBuf)] = Forever]

(* ChangeHostQueue: wait for the last kernel, hand its output to the CPU   *)
(* (ChangeDevQueue), free its input, launch the kernel on the buffer just  *)
(* filled and start filling the other one.                                 *)
ChangeHostQueue ==
  /\ KernelIdle
  /\ ChangeDevQueue
  /\ h_bufrdy' = [h_bufrdy EXCEPT ![h_curHostBuf] = 1, ![Other(h_curHostBuf)] = 0]
  /\ ReleaseBound
  /\ k_buf' = h_curHostBuf
  /\ h_curHostBuf' = Other(h_curHostBuf)
  /\ warp_index' = [k \in Types |-> k]
  /\ warp_thread_index' = [k \in Types |-> 0]
  /\ next_avail_warp' = Cardinality(Types)
  /\ UNCHANGED <<hostBuf, devBuf>>

Change ==
  /\ pc = "change"
  /\ ChangeHostQueue
  /\ pc' = "loop"
  /\ UNCHANGED <<heapVars, clockVars, safe_ts, old, h_curDevBuf, cur, born, executed>>

Advance_BackToo(ts) == m_currentTs' = ts
Advance(ts) == m_currentTs' = IF ts > m_currentTs THEN ts ELSE m_currentTs

(* is_safe holds for a device event: ELP_ProcessOneEvent takes it off the  *)
(* heap (the clock never goes back) and computes its slot.                 *)
ELP_ProcessOneEvent ==
  /\ pc = "peek"
  /\ \E e \in m_events :
       /\ IsNext(e) /\ e.type # Cpu /\ IsSafe(e)
       /\ safe_ts' = Lower(safe_ts, e)
       /\ m_events' = m_events \ {e}
       /\ Advance(e.ts)
       /\ cur' = e
  /\ m_unscheduledEvents' = m_unscheduledEvents - 1
  /\ m_eventCount' = m_eventCount + 1
  /\ pc' = "claim"
  /\ UNCHANGED <<m_eventsWithContext, m_stop, d_safe_ts, old, hostVars, warpVars,
                 devVars, h_curDevBuf, k_buf, born, executed>>

Slot(k) == warp_index[k] * WarpSize + warp_thread_index[k]

(* No slot left for this type: change buffers, the next slot is in range.  *)
ClaimFull ==
  /\ pc = "claim" /\ Slot(cur.type) >= QueueLength
  /\ ChangeHostQueue
  /\ pc' = "insert"
  /\ UNCHANGED <<heapVars, clockVars, safe_ts, old, h_curDevBuf, cur, born, executed>>

WarpFull_Late(k) == warp_thread_index[k] = WarpSize
WarpFull(k) == warp_thread_index[k] + 1 = WarpSize

(* h_insert_sort: wait for the buffer, fill the slot, take a new warp when *)
(* this one is full, and lower both bounds.                                *)
h_insert_sort ==
  /\ pc = "insert" \/ (pc = "claim" /\ Slot(cur.type) < QueueLength)
  /\ h_bufrdy[h_curHostBuf] = 0
  /\ hostBuf' = [hostBuf EXCEPT ![h_curHostBuf][Slot(cur.type)] = cur]
  /\ IF WarpFull(cur.type)
     THEN /\ warp_thread_index' = [warp_thread_index EXCEPT ![cur.type] = 0]
          /\ warp_index' = [warp_index EXCEPT ![cur.type] = next_avail_warp]
          /\ next_avail_warp' = next_avail_warp + 1
     ELSE /\ warp_thread_index' = [warp_thread_index EXCEPT ![cur.type] = @ + 1]
          /\ UNCHANGED <<warp_index, next_avail_warp>>
  /\ safe_ts' = Lower(safe_ts, cur)
  /\ d_safe_ts' = [d_safe_ts EXCEPT ![h_curHostBuf] = Lower(@, cur)]
  /\ cur' = None /\ pc' = "loop"
  /\ UNCHANGED <<heapVars, clockVars, old, h_curHostBuf, h_bufrdy, devVars,
                 h_curDevBuf, k_buf, born, executed>>

----------------------------------------------------------------------------
(* is_safe holds for a CPU event: ProcessOneEvent runs it here and now.    *)
(* Its handler schedules events (Schedule; ELP_Schedule from               *)
(* StartApplication) and may call Stop.                                    *)
ProcessOneEvent ==
  /\ pc = "peek"
  /\ \E e \in m_events :
       /\ IsNext(e) /\ e.type = Cpu /\ IsSafe(e)
       /\ m_events' = m_events \ {e}
       /\ m_currentTs' = e.ts
       /\ executed' = executed \cup {e.eid}
  /\ m_unscheduledEvents' = m_unscheduledEvents - 1
  /\ m_eventCount' = m_eventCount + 1
  /\ pc' = "handler"
  /\ UNCHANGED <<m_eventsWithContext, m_stop, safeVars, old, hostVars, warpVars,
                 devVars, h_curDevBuf, k_buf, cur, born>>

NewEvent(ts, k, la) == [eid |-> born + 1, ts |-> ts, type |-> k, la |-> la]

Schedule ==
  /\ pc = "handler" /\ born < MaxEvents
  /\ \E ts \in m_currentTs .. MaxTs :
       \/ m_events' = m_events \cup {NewEvent(ts, Cpu, Forever)}
       \/ \E k \in Types, la \in Lookaheads \cup {Forever} :
            m_events' = m_events \cup {NewEvent(ts, k, la)}
  /\ born' = born + 1
  /\ m_unscheduledEvents' = m_unscheduledEvents + 1
  /\ UNCHANGED <<m_eventsWithContext, m_eventCount, clockVars, safeVars, old,
                 hostVars, warpVars, devVars, h_curDevBuf, k_buf, pc, cur, executed>>

Stop ==
  /\ pc = "handler" /\ ~m_stop
  /\ m_stop' = TRUE
  /\ UNCHANGED <<heapVars, m_currentTs, safeVars, old, hostVars, warpVars, devVars,
                 h_curDevBuf, k_buf, pc, cur, born, executed>>

\* What the other threads have queued goes to the heap, relative to the
\* clock of now.
ProcessEventsWithContext_Uncounted ==
  /\ m_events' = m_events \cup
       {[eid |-> x.eid, ts |-> m_currentTs + x.delay, type |-> Cpu, la |-> Forever] :
          x \in m_eventsWithContext}
  /\ m_eventsWithContext' = {} /\ UNCHANGED m_unscheduledEvents
ProcessEventsWithContext ==
  /\ m_events' = m_events \cup
       {[eid |-> x.eid, ts |-> m_currentTs + x.delay, type |-> Cpu, la |-> Forever] :
          x \in m_eventsWithContext}
  /\ m_unscheduledEvents' = m_unscheduledEvents + Cardinality(m_eventsWithContext)
  /\ m_eventsWithContext' = {}

(* The handler returns.                                                    *)
HandlerReturn ==
  /\ pc = "handler" /\ pc' = "loop"
  /\ ProcessEventsWithContext
  /\ UNCHANGED <<m_eventCount, clockVars, safeVars, old, hostVars, warpVars, devVars,
                 h_curDevBuf, k_buf, cur, born, executed>>

(* ScheduleWithContext called by another thread, under the mutex.          *)
ScheduleWithContext ==
  /\ pc # "done" /\ born < MaxEvents
  /\ \E delay \in 0 .. MaxTs :
       m_eventsWithContext' = m_eventsWithContext \cup
                                {[eid |-> born + 1, delay |-> delay]}
  /\ born' = born + 1
  /\ UNCHANGED <<m_events, m_unscheduledEvents, m_eventCount, clockVars, safeVars,
                 old, hostVars, warpVars, devVars, h_curDevBuf, k_buf, pc, cur, executed>>

(* The loop is over: cudaStreamSynchronize waits for the last kernel.      *)
Synchronize ==
  /\ pc = "sync" /\ KernelIdle /\ pc' = "done"
  /\ UNCHANGED <<heapVars, clockVars, safeVars, old, hostVars, warpVars, devVars,
                 h_curDevBuf, k_buf, cur, born, executed>>

----------------------------------------------------------------------------
(* A handler on the device inserts a new event (d_insert).                 *)
d_insert(i) ==
  /\ Working(i) /\ born < MaxEvents
  /\ LET e == hostBuf[k_buf][i] IN
     /\ e.la # Forever
     /\ \E ts \in FirstChild(e) .. MaxTs, k \in Types, la \in Lookaheads \cup {Forever} :
          devBuf' = [devBuf EXCEPT ![d_curDevBuf] = @ \cup {NewEvent(ts, k, la)}]
  /\ born' = born + 1
  /\ UNCHANGED <<heapVars, clockVars, safeVars, old, hostVars, warpVars, d_curDevBuf,
                 d_bufrdy, h_curDevBuf, k_buf, pc, cur, executed>>

(* cuda_ProcessOneEvent is done with the event: ev->valid = false.         *)
Retire(i) ==
  /\ Working(i)
  /\ executed' = executed \cup {hostBuf[k_buf][i].eid}
  /\ hostBuf' = [hostBuf EXCEPT ![k_buf][i] = None]
  /\ UNCHANGED <<heapVars, clockVars, safeVars, old, h_curHostBuf, h_bufrdy, warpVars,
                 devVars, h_curDevBuf, k_buf, pc, cur, born>>

HostStep ==
  \/ LoopHead \/ CollectStart \/ ELP_Schedule \/ CollectNext \/ Refresh \/ Change
  \/ ELP_ProcessOneEvent \/ ClaimFull \/ h_insert_sort
  \/ ProcessOneEvent \/ Schedule \/ Stop \/ HandlerReturn \/ Synchronize

KernelStep == \E i \in Slots : d_insert(i) \/ Retire(i)

Finished == pc = "done" /\ UNCHANGED vars

Next == HostStep \/ KernelStep \/ ScheduleWithContext \/ Finished

Spec == Init /\ [][Next]_vars

\* The CPU thread runs when it can, and so does every kernel thread; a
\* handler inserts finitely many events (MaxEvents) and returns.
Fairness == WF_vars(HostStep) /\ WF_vars(KernelStep)
FairSpec == Spec /\ Fairness

----------------------------------------------------------------------------
(* Properties.                                                             *)

\* Types of the state; the CPU thread holds an event exactly between taking
\* it off the heap and putting it in a buffer (ELP_ProcessOneEvent).
TypeOK ==
  /\ m_events \subseteq Event
  /\ m_eventsWithContext \subseteq [eid : Nat, delay : Nat]
  /\ IsFiniteSet(m_eventsWithContext)
  /\ m_unscheduledEvents \in Int /\ m_eventCount \in Nat
  /\ m_currentTs \in Nat /\ m_stop \in BOOLEAN
  /\ safe_ts \in Nat /\ d_safe_ts \in [Bufs -> Nat] /\ old \in Nat
  /\ hostBuf \in [Bufs -> [Slots -> DeviceEvent \cup {None}]]
  /\ h_curHostBuf \in Bufs /\ h_bufrdy \in [Bufs -> {0, 1}]
  /\ warp_index \in [Types -> Nat] /\ warp_thread_index \in [Types -> 0 .. WarpSize - 1]
  /\ next_avail_warp \in Nat
  /\ devBuf \in [Bufs -> SUBSET DeviceEvent]
  /\ d_curDevBuf \in Bufs /\ d_bufrdy \in [Bufs -> {0, 1}] /\ h_curDevBuf \in Bufs
  /\ k_buf \in Bufs \cup {0}
  /\ pc \in {"loop", "collect", "collect1", "collect2", "peek", "change", "claim",
             "insert", "handler", "sync", "done"}
  /\ cur \in DeviceEvent \cup {None} /\ (pc \in {"claim", "insert"} <=> cur # None)
  /\ born \in Nat /\ executed \subseteq Nat

Fresh == devBuf[1] \cup devBuf[2]
InFlight == ({hostBuf[b][i] : b \in Bufs, i \in Slots} \cup {cur}) \ {None}

\* Every event ever created is in exactly one place, once: no slot of a host
\* buffer is overwritten while valid, no device buffer is cleared unread, no
\* event runs twice.  (h_insert_sort, ChangeHostQueue, ELP_ScheduleDevEvent.)
EachEventInOnePlace == \A id \in 1 .. born :
  LET slots == {x \in Bufs \X Slots :
                  hostBuf[x[1]][x[2]] # None /\ hostBuf[x[1]][x[2]].eid = id}
      regions == {b \in Bufs : \E e \in devBuf[b] : e.eid = id}
      others == {p \in {"heap", "queue", "cur", "executed"} :
        \/ p = "heap" /\ \E e \in m_events : e.eid = id
        \/ p = "queue" /\ \E x \in m_eventsWithContext : x.eid = id
        \/ p = "cur" /\ cur # None /\ cur.eid = id
        \/ p = "executed" /\ id \in executed}
  IN Cardinality(slots) + Cardinality(regions) + Cardinality(others) = 1

\* No straggler: while lookaheads are honest, neither an event of the heap
\* nor one the device has generated is older than the clock, so no event
\* runs after a later one that it could have affected (safe_ts, is_safe).
NoStraggler == \A e \in m_events \cup Fresh : e.ts >= m_currentTs

\* Whatever the lookaheads, the clock never goes back: what the NS_ASSERT
\* of ProcessOneEvent (ts >= m_currentTs) says of the CPU events.
ClockNeverGoesBack == [][m_currentTs' >= m_currentTs]_vars

\* While the kernel runs, the CPU neither fills the buffer it reads nor
\* collects the buffer it writes, and the flags say so.
KernelOwnsItsBuffers == ~KernelIdle =>
  /\ h_curHostBuf # k_buf /\ h_bufrdy[k_buf] = 1 /\ h_bufrdy[h_curHostBuf] = 0
  /\ d_bufrdy[d_curDevBuf] = 0
  /\ pc \in {"collect1", "collect2"} /\ devBuf[h_curDevBuf] # {}
       => h_curDevBuf # d_curDevBuf

\* m_unscheduledEvents counts the heap and m_eventCount what has left it, at
\* every step: what the consistency test after the loop relies on.
CountersAgree ==
  /\ m_unscheduledEvents = Cardinality(m_events)
  /\ m_eventCount = Cardinality(executed) + Cardinality(InFlight)

\* The consistency test after the loop: a run that stops for lack of events
\* has run every event.
NothingLostAtExit == pc = "done" /\ ~m_stop => InFlight = {} /\ Fresh = {}

\* The loop of ELP_RunSK ends once the handlers schedule no more: the bounds
\* always rise in the end, no wait of the CPU for the kernel is for ever.
Termination == <>(pc = "done")

Des == INSTANCE ConservativeDes WITH
  pending <- m_events, inflight <- InFlight, fresh <- Fresh, done <- executed,
  clock <- m_currentTs

\* ELP_RunSK is a conservative parallel simulator.
ImplementsDes == Des!Spec
==============================================================================
