---------------------------- MODULE HostScheduler ----------------------------
(***************************************************************************)
(* The part of CudaELPSimulator that runs events of the CPU one by one:    *)
(* Run, Schedule, ScheduleWithContext, ScheduleDestroy, Remove, Cancel,    *)
(* IsExpired, Stop, Destroy and DoDispose.  The order of the heap is       *)
(* (timestamp, uid); uids are given out in turn and start again at         *)
(* EventId::UID::VALID when they reach DEVICE_EV_ID_OFFSET.                *)
(*                                                                         *)
(* Abstractions.  Events are numbered in the order in which they are       *)
(* created.  What other threads have queued is a sequence of events and    *)
(* delays; the test of m_eventsWithContextEmpty and the swap under the     *)
(* mutex are one step, since an event queued in between is taken as well.  *)
(***************************************************************************)
EXTENDS Integers, Sequences, FiniteSets

CONSTANTS
  UidValid,           \* EventId::UID::VALID
  UidOffset,          \* DEVICE_EV_ID_OFFSET
  MaxDelay,           \* bound: delays
  MaxCreated          \* bound: events created

SchedulerAssumption ==
  /\ UidValid \in Nat \ {0} /\ UidOffset \in Nat /\ UidOffset > UidValid + 1
  /\ MaxDelay \in Nat /\ MaxCreated \in Nat

ASSUME SchedulerAssumption

VARIABLES
  heap,               \* m_events: set of [id, ts, uid]
  key,                \* key[id]: what the EventId holds, ts and uid
  nextUid,            \* m_uid
  clock, currentUid,  \* m_currentTs, m_currentUid
  unscheduled,        \* m_unscheduledEvents
  queued,             \* m_eventsWithContext
  destroyList,        \* m_destroyEvents
  cancelFlag,         \* events whose IsCancelled is true
  at,                 \* where the main thread is
  stopAsked,          \* m_stop
  uidsTaken,          \* history: values of m_uid given away
  ranOrder,           \* history: events taken off the heap and invoked
  gone                \* history: events that ran, or were removed

keyVars == <<heap, key, nextUid, unscheduled, uidsTaken>>
timeVars == <<clock, currentUid>>
schedVars == <<keyVars, timeVars, queued, destroyList, cancelFlag, at, stopAsked, ranOrder, gone>>

Created == DOMAIN key
Id == Len(key) + 1

SchedInit ==
  /\ heap = {} /\ key = <<>> /\ nextUid = UidValid /\ unscheduled = 0
  /\ uidsTaken = 0 /\ clock = 0 /\ currentUid = 0
  /\ queued = <<>> /\ destroyList = <<>> /\ cancelFlag = {}
  /\ at = "setup" /\ stopAsked = FALSE /\ ranOrder = <<>> /\ gone = {}

\* The next value of m_uid.
NextUid_NoReset == nextUid + 1
NextUid == IF nextUid + 1 >= UidOffset THEN UidValid ELSE nextUid + 1

TakeUid == nextUid' = NextUid /\ uidsTaken' = uidsTaken + 1

\* Main thread: before the run, or inside the handler of an event.
OnMainThread == at \in {"setup", "handler", "destroying"}

(* Schedule, or ScheduleWithContext called by the main thread.             *)
HostSchedule(delay) ==
  /\ OnMainThread /\ Len(key) < MaxCreated
  /\ key' = Append(key, [ts |-> clock + delay, uid |-> nextUid])
  /\ heap' = heap \cup {[id |-> Id, ts |-> clock + delay, uid |-> nextUid]}
  /\ TakeUid /\ unscheduled' = unscheduled + 1
  /\ UNCHANGED <<timeVars, queued, destroyList, cancelFlag, at, stopAsked, ranOrder, gone>>

(* ScheduleWithContext called by another thread.                           *)
QueueEvent(delay) ==
  /\ at # "disposed" /\ Len(key) < MaxCreated
  /\ key' = Append(key, [ts |-> -1, uid |-> 0])
  /\ queued' = Append(queued, [id |-> Id, delay |-> delay])
  /\ UNCHANGED <<heap, nextUid, unscheduled, uidsTaken, timeVars, destroyList, cancelFlag,
                 at, stopAsked, ranOrder, gone>>

\* Destroy events all have the uid DESTROY; m_uid moves on all the same.
ScheduleDestroy ==
  /\ OnMainThread /\ Len(key) < MaxCreated
  /\ key' = Append(key, [ts |-> clock, uid |-> 0])
  /\ destroyList' = Append(destroyList, Id)
  /\ TakeUid
  /\ UNCHANGED <<heap, unscheduled, timeVars, queued, cancelFlag, at, stopAsked, ranOrder, gone>>

IsDestroy(id) == key[id].uid = 0
IsExpired_Strict(id) ==
  IF IsDestroy(id)
  THEN id \in cancelFlag \/ id \notin {destroyList[i] : i \in DOMAIN destroyList}
  ELSE \/ key[id].ts < clock
       \/ key[id].ts = clock /\ key[id].uid < currentUid
       \/ id \in cancelFlag
IsExpired(id) ==
  IF IsDestroy(id)
  THEN id \in cancelFlag \/ id \notin {destroyList[i] : i \in DOMAIN destroyList}
  ELSE \/ key[id].ts < clock
       \/ key[id].ts = clock /\ key[id].uid <= currentUid
       \/ id \in cancelFlag

\* An EventId exists for what Schedule and ScheduleDestroy returned.
HasEventId(id) == key[id].ts >= 0

(* Cancel: mark the event, which stays where it is.                        *)
Cancel(id) ==
  /\ OnMainThread /\ HasEventId(id) /\ ~IsExpired(id)
  /\ cancelFlag' = cancelFlag \cup {id}
  /\ UNCHANGED <<keyVars, timeVars, queued, destroyList, at, stopAsked, ranOrder, gone>>

EraseAt(s, i) == SubSeq(s, 1, i - 1) \o SubSeq(s, i + 1, Len(s))

(* Remove: out of the list of destroy events (whether cancelled or not),   *)
(* or out of the heap and cancelled.                                       *)
RemoveEvent(id) ==
  /\ OnMainThread /\ HasEventId(id)
  /\ IF IsDestroy(id)
     THEN /\ \/ \E i \in DOMAIN destroyList :
                  /\ destroyList[i] = id
                  /\ destroyList' = EraseAt(destroyList, i)
             \/ (\A i \in DOMAIN destroyList : destroyList[i] # id) /\ UNCHANGED destroyList
          /\ UNCHANGED <<heap, unscheduled, cancelFlag>>
     ELSE /\ ~IsExpired(id)
          /\ heap' = {e \in heap : e.id # id}
          /\ cancelFlag' = cancelFlag \cup {id}
          /\ unscheduled' = unscheduled - 1
          /\ UNCHANGED destroyList
  /\ gone' = gone \cup {id}
  /\ UNCHANGED <<key, nextUid, uidsTaken, timeVars, queued, at, stopAsked, ranOrder>>

HostStop ==
  /\ OnMainThread /\ ~stopAsked /\ stopAsked' = TRUE
  /\ UNCHANGED <<keyVars, timeVars, queued, destroyList, cancelFlag, at, ranOrder, gone>>

----------------------------------------------------------------------------
\* Uids taken one after the other from u on, n of them.
UidAfter(n) == UidValid + ((nextUid - UidValid + n) % (UidOffset - UidValid))

TakeQueued_Uncounted ==
  /\ heap' = heap \cup {[id |-> queued[i].id, ts |-> clock + queued[i].delay,
                         uid |-> UidAfter(i - 1)] : i \in DOMAIN queued}
  /\ nextUid' = UidAfter(Len(queued)) /\ queued' = <<>>
  /\ UNCHANGED <<uidsTaken, unscheduled>>
(* ProcessEventsWithContext: in the order of the queue, relative to the    *)
(* clock.  m_eventsWithContextEmpty is read before the mutex is taken: what *)
(* is queued between a read that finds it set and the next one stays in    *)
(* queued, as what is queued after this step does; a read that finds it    *)
(* clear is followed by the take, which is this step.                      *)
TakeQueued ==
  /\ heap' = heap \cup {[id |-> queued[i].id, ts |-> clock + queued[i].delay,
                         uid |-> UidAfter(i - 1)] : i \in DOMAIN queued}
  /\ nextUid' = UidAfter(Len(queued))
  /\ uidsTaken' = uidsTaken + Len(queued)
  /\ unscheduled' = unscheduled + Len(queued)
  /\ queued' = <<>>

(* Run begins: m_stop is cleared, whoever has set it.                      *)
RunStart ==
  /\ at = "setup" /\ at' = "loop" /\ stopAsked' = FALSE
  /\ TakeQueued
  /\ UNCHANGED <<key, timeVars, destroyList, cancelFlag, ranOrder, gone>>

Before_TimeOnly(e, f) == e.ts < f.ts
Before(e, f) == e.ts < f.ts \/ (e.ts = f.ts /\ e.uid < f.uid)

(* ProcessOneEvent up to the handler; a cancelled event does nothing.      *)
HostProcessOneEvent ==
  /\ at = "loop" /\ heap # {} /\ ~stopAsked
  /\ \E e \in heap :
       /\ \A f \in heap \ {e} : ~Before(f, e)
       /\ heap' = heap \ {e}
       /\ clock' = e.ts /\ currentUid' = e.uid
       /\ ranOrder' = IF e.id \in cancelFlag THEN ranOrder ELSE Append(ranOrder, e.id)
       /\ gone' = gone \cup {e.id}
       /\ at' = IF e.id \in cancelFlag THEN "returned" ELSE "handler"
  /\ unscheduled' = unscheduled - 1
  /\ UNCHANGED <<key, nextUid, uidsTaken, queued, destroyList, cancelFlag, stopAsked>>

HostReturn ==
  /\ at \in {"handler", "returned"} /\ at' = "loop"
  /\ TakeQueued
  /\ UNCHANGED <<key, timeVars, destroyList, cancelFlag, stopAsked, ranOrder, gone>>

RunEnd ==
  /\ at = "loop" /\ (heap = {} \/ stopAsked) /\ at' = "ended"
  /\ UNCHANGED <<keyVars, timeVars, queued, destroyList, cancelFlag, stopAsked, ranOrder, gone>>

(* Destroy: the destroy events one by one, unless cancelled; the handler of *)
(* one may schedule, cancel or remove others.                              *)
Destroy_All ==
  /\ at = "ended" /\ destroyList # <<>> /\ at' = "destroying"
  /\ ranOrder' = Append(ranOrder, Head(destroyList))
  /\ gone' = gone \cup {Head(destroyList)} /\ destroyList' = Tail(destroyList)
  /\ UNCHANGED <<keyVars, timeVars, queued, cancelFlag, stopAsked>>
Destroy ==
  /\ at = "ended" /\ destroyList # <<>>
  /\ IF Head(destroyList) \in cancelFlag
     THEN UNCHANGED <<ranOrder, at>>
     ELSE ranOrder' = Append(ranOrder, Head(destroyList)) /\ at' = "destroying"
  /\ gone' = gone \cup {Head(destroyList)} /\ destroyList' = Tail(destroyList)
  /\ UNCHANGED <<keyVars, timeVars, queued, cancelFlag, stopAsked>>

DestroyReturn ==
  /\ at = "destroying" /\ at' = "ended"
  /\ UNCHANGED <<keyVars, timeVars, queued, destroyList, cancelFlag, stopAsked, ranOrder, gone>>

(* DoDispose: what was queued and what is left in the heap is thrown away. *)
DoDispose ==
  /\ at = "ended" /\ destroyList = <<>> /\ at' = "disposed"
  /\ nextUid' = UidAfter(Len(queued)) /\ uidsTaken' = uidsTaken + Len(queued)
  /\ unscheduled' = unscheduled + Len(queued) /\ queued' = <<>> /\ heap' = {}
  /\ UNCHANGED <<key, timeVars, destroyList, cancelFlag, stopAsked, ranOrder, gone>>

SchedNext ==
  \/ \E delay \in 0 .. MaxDelay : HostSchedule(delay) \/ QueueEvent(delay)
  \/ ScheduleDestroy \/ (\E id \in Created : Cancel(id) \/ RemoveEvent(id)) \/ HostStop
  \/ RunStart \/ HostProcessOneEvent \/ HostReturn \/ RunEnd
  \/ Destroy \/ DestroyReturn \/ DoDispose

SchedSpec == SchedInit /\ [][SchedNext]_schedVars

----------------------------------------------------------------------------
(* Properties.                                                             *)

SchedTypeOK ==
  /\ heap \subseteq [id : Nat, ts : Nat, uid : UidValid .. UidOffset - 1]
  /\ key \in Seq([ts : Nat \cup {-1}, uid : Nat]) /\ nextUid \in UidValid .. UidOffset - 1
  /\ clock \in Nat /\ currentUid \in Nat /\ unscheduled \in Int
  /\ queued \in Seq([id : Nat, delay : Nat]) /\ destroyList \in Seq(Nat)
  /\ cancelFlag \subseteq Created /\ gone \subseteq Created /\ ranOrder \in Seq(Nat)
  /\ at \in {"setup", "loop", "handler", "returned", "ended", "destroying", "disposed"}
  /\ stopAsked \in BOOLEAN /\ uidsTaken \in Nat

\* No value of m_uid was given away twice.
UidsDistinct == uidsTaken <= UidOffset - UidValid

\* While no uid is used twice, IsExpired, which compares an EventId with the
\* clock and the uid of the event that runs, says exactly whether the event
\* has run, was cancelled or was removed.
ExpiredMeansGone == UidsDistinct /\ at # "disposed" => \A id \in Created :
  HasEventId(id) => (IsExpired(id) <=> id \in gone \cup cancelFlag)

\* While no uid is used twice, events of the same time run in the order in
\* which they were scheduled.
SameTimeInOrder == UidsDistinct => \A i, j \in DOMAIN ranOrder :
  LET a == ranOrder[i]  b == ranOrder[j] IN
  /\ i # j => a # b
  /\ i < j /\ HasEventId(a) /\ HasEventId(b) /\ ~IsDestroy(a) /\ ~IsDestroy(b)
     => key[a].ts < key[b].ts \/ (key[a].ts = key[b].ts /\ a < b)

\* "make a consistency test to check that we didn't lose any events": the
\* counter it relies on counts the heap, through removals and the queue, while
\* no uid is used twice.  (After that IsExpired may take an event that ran for
\* one that waits, and Remove counts it down.)
UnscheduledCountsHeap == UidsDistinct /\ at # "disposed" => unscheduled = Cardinality(heap)

\* An event that is cancelled before its time never runs, even when
\* uids are used again.
CancelledNeverRuns == [][\A id \in cancelFlag : \A i \in DOMAIN ranOrder' :
  ranOrder'[i] = id => i \in DOMAIN ranOrder]_schedVars

\* What IsExpired, the heap's order and m_unscheduledEvents promise.
SchedulerConsistent == ExpiredMeansGone /\ SameTimeInOrder /\ UnscheduledCountsHeap
==============================================================================
