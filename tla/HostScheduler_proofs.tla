------------------------ MODULE HostScheduler_proofs ------------------------
(***************************************************************************)
(* Theorems about HostScheduler, for any number of events and delays and   *)
(* any range of uids.                                                      *)
(***************************************************************************)
EXTENDS HostScheduler, FiniteSetTheorems, SequenceTheorems, TLAPS

Uids == UidOffset - UidValid

\* The events with an EventId of the heap, and those of the destroy list.
Timed(id) == HasEventId(id) /\ ~IsDestroy(id)
AtEnd(id) == HasEventId(id) /\ IsDestroy(id)
InHeap(id) == \E e \in heap : e.id = id
InQueue(id) == \E i \in DOMAIN queued : queued[i].id = id
OnDestroyList(id) == \E i \in DOMAIN destroyList : destroyList[i] = id

\* What the heap, the queue and the list hold has not run and was not removed;
\* nothing is in two of them, or twice in one.
HeapInv ==
  /\ IsFiniteSet(heap)
  /\ \A e, f \in heap : e.id = f.id => e = f
  /\ \A e \in heap : e.id \in Created /\ e.id \notin gone /\ e.ts >= clock
  /\ \A e \in heap : HasEventId(e.id) => key[e.id].ts = e.ts /\ key[e.id].uid = e.uid
QueueInv ==
  /\ \A i \in DOMAIN queued : queued[i].id \in Created
  /\ \A id \in Created : InQueue(id) => ~HasEventId(id) /\ ~InHeap(id) /\ id \notin gone
  /\ \A i, j \in DOMAIN queued : queued[i].id = queued[j].id => i = j
DestroyInv ==
  /\ \A i \in DOMAIN destroyList : destroyList[i] \in Created
  /\ \A id \in Created : OnDestroyList(id) => AtEnd(id) /\ id \notin gone
  /\ \A i, j \in DOMAIN destroyList : destroyList[i] = destroyList[j] => i = j
\* Whatever has an EventId waits or is gone.
NoneMissing == \A id \in Created :
  /\ Timed(id) /\ at # "disposed" => InHeap(id) \/ id \in gone
  /\ AtEnd(id) => OnDestroyList(id) \/ id \in gone
RanAreGone ==
  /\ \A i \in DOMAIN ranOrder : ranOrder[i] \in gone
  /\ \A i, j \in DOMAIN ranOrder : ranOrder[i] = ranOrder[j] => i = j

PlacesInv == HeapInv /\ QueueInv /\ DestroyInv /\ NoneMissing /\ RanAreGone

\* (ts, uid) is not after the event that runs.
Past(ts, uid) == ts < clock \/ (ts = clock /\ uid <= currentUid)

\* The uids are given out in turn, below this one.
NewUid == UidValid + uidsTaken
UidsInTurn ==
  /\ nextUid = IF uidsTaken = Uids THEN UidValid ELSE NewUid
  /\ currentUid < NewUid
  /\ \A e \in heap : e.uid < NewUid
  /\ \A e, f \in heap : e.uid = f.uid => e = f
  /\ \A id \in Created : Timed(id) => key[id].uid < NewUid
  /\ \A a, b \in Created : Timed(a) /\ Timed(b) /\ a < b => key[a].uid < key[b].uid
\* The event that runs parts what ran from what waits.
Parted ==
  /\ \A e \in heap : ~Past(e.ts, e.uid)
  /\ \A id \in gone : Timed(id) => id \in cancelFlag \/ Past(key[id].ts, key[id].uid)
  /\ \A i \in DOMAIN ranOrder : Timed(ranOrder[i]) => Past(key[ranOrder[i]].ts, key[ranOrder[i]].uid)
Counted == at # "disposed" => unscheduled = Cardinality(heap)
InOrder == \A i, j \in DOMAIN ranOrder :
  i < j /\ Timed(ranOrder[i]) /\ Timed(ranOrder[j]) =>
    LET a == key[ranOrder[i]]  b == key[ranOrder[j]] IN
    a.ts < b.ts \/ (a.ts = b.ts /\ a.uid < b.uid)

OrderInv == UidsDistinct => UidsInTurn /\ Parted /\ InOrder /\ Counted

SchedInv == SchedTypeOK /\ PlacesInv /\ OrderInv

----------------------------------------------------------------------------
(* Types.                                                                  *)

Keys == [ts : Nat \cup {-1}, uid : Nat]

LEMMA Constants == /\ UidValid \in Nat /\ UidValid > 0 /\ UidOffset \in Nat
                   /\ Uids \in Nat /\ Uids > 1 /\ UidOffset = UidValid + Uids
                   /\ MaxDelay \in Nat /\ MaxCreated \in Nat
BY SchedulerAssumption DEF SchedulerAssumption, Uids

\* Uids are counted modulo Uids.
LEMMA Modulo == ASSUME NEW n \in Nat
  PROVE  /\ n % Uids \in 0 .. Uids - 1 /\ (n < Uids => n % Uids = n)
         /\ (n = Uids => n % Uids = 0)
<1> DEFINE q == n \div Uids
           r == n % Uids
<1>1. /\ q \in Int /\ r \in 0 .. Uids - 1 /\ n = Uids * q + r
      /\ Uids \in Nat /\ Uids > 1
  BY Constants
<1> HIDE DEF q, r
<1>2. CASE n < Uids
  <2>1. q = 0
    BY <1>1, <1>2
  <2>2. Uids * q = 0
    BY <1>1, <2>1
  <2> QED
    BY <1>1, <1>2, <2>2 DEF r
<1>3. CASE n = Uids
  <2>1. q = 1
    BY <1>1, <1>3
  <2>2. Uids * q = Uids
    BY <1>1, <2>1
  <2> QED
    BY <1>1, <1>3, <2>2 DEF r
<1> QED
  BY <1>1, <1>2, <1>3 DEF r

\* An event that is created gets the next number; the others keep their keys.
LEMMA NewKey == ASSUME SchedTypeOK, NEW k \in Keys, key' = Append(key, k)
  PROVE  /\ Created' = Created \cup {Id} /\ Id \notin Created /\ Id \in Nat
         /\ key' \in Seq(Keys) /\ key'[Id] = k
         /\ \A id \in Created : id \in Nat /\ id < Id /\ key'[id] = key[id]
         /\ \A id \in Created : (Timed(id)' <=> Timed(id)) /\ (AtEnd(id)' <=> AtEnd(id))
                                /\ (HasEventId(id)' <=> HasEventId(id))
<1>1. key \in Seq(Keys) /\ Len(key) \in Nat /\ DOMAIN key = 1 .. Len(key)
  BY DEF SchedTypeOK, Keys
<1>2. /\ key' \in Seq(Keys) /\ DOMAIN key' = 1 .. Len(key) + 1
      /\ \A i \in 1 .. Len(key) : key'[i] = key[i]
      /\ key'[Len(key) + 1] = k
  BY <1>1
<1> QED
  BY <1>1, <1>2 DEF Created, Id, Timed, AtEnd, HasEventId, IsDestroy

LEMMA KeysAre == ASSUME SchedTypeOK
  PROVE  \A id \in Created : /\ id \in Nat /\ key[id].ts \in Int /\ key[id].uid \in Nat
                             /\ id < Id
<1>1. key \in Seq(Keys) /\ Len(key) \in Nat /\ DOMAIN key = 1 .. Len(key)
  BY LenProperties DEF SchedTypeOK, Keys
<1>2. \A id \in 1 .. Len(key) : key[id] \in Keys
  BY <1>1, ElementOfSeq
<1> QED
  BY <1>1, <1>2 DEF Created, Keys, Id

LEMMA UidAfterType == ASSUME SchedTypeOK, NEW n \in Nat
  PROVE UidAfter(n) \in UidValid .. UidOffset - 1
<1>1. nextUid - UidValid + n \in Nat
  BY Constants DEF SchedTypeOK
<1>2. (nextUid - UidValid + n) % Uids \in 0 .. Uids - 1
  BY <1>1, Modulo
<1>3. UidAfter(n) = UidValid + ((nextUid - UidValid + n) % Uids)
  BY DEF UidAfter, Uids
<1> QED
  BY <1>2, <1>3, Constants

\* What taking queued events does to the types.
LEMMA TakeTypes == ASSUME SchedTypeOK, TakeQueued
  PROVE  /\ heap' \subseteq [id : Nat, ts : Nat, uid : UidValid .. UidOffset - 1]
         /\ nextUid' \in UidValid .. UidOffset - 1 /\ uidsTaken' \in Nat
         /\ unscheduled' \in Int /\ queued' \in Seq([id : Nat, delay : Nat])
<1>1. \A n \in Nat : UidAfter(n) \in UidValid .. UidOffset - 1
  BY UidAfterType
<1>2. Len(queued) \in Nat /\ \A i \in DOMAIN queued :
        i \in Nat /\ i - 1 \in Nat /\ queued[i].id \in Nat /\ queued[i].delay \in Nat
  <2>1. queued \in Seq([id : Nat, delay : Nat])
    BY DEF SchedTypeOK
  <2>2. Len(queued) \in Nat /\ DOMAIN queued = 1 .. Len(queued)
        /\ \A i \in 1 .. Len(queued) : queued[i] \in [id : Nat, delay : Nat]
    BY <2>1, LenProperties, ElementOfSeq
  <2> QED
    BY <2>2
<1>3. \A i \in DOMAIN queued : clock + queued[i].delay \in Nat
  BY <1>2, SMTT(60) DEF SchedTypeOK
<1>4. heap' \subseteq [id : Nat, ts : Nat, uid : UidValid .. UidOffset - 1]
  <2>1. \A i \in DOMAIN queued :
          [id |-> queued[i].id, ts |-> clock + queued[i].delay, uid |-> UidAfter(i - 1)]
            \in [id : Nat, ts : Nat, uid : UidValid .. UidOffset - 1]
    BY <1>1, <1>2, <1>3
  <2> QED
    BY <2>1 DEF SchedTypeOK, TakeQueued
<1>5. queued' \in Seq([id : Nat, delay : Nat])
  BY DEF TakeQueued
<1> QED
  BY <1>1, <1>2, <1>4, <1>5, SMTT(60) DEF SchedTypeOK, TakeQueued

\* Erasing the i-th element of a sequence.
LEMMA Erased ==
  ASSUME NEW s \in Seq(Nat), NEW i \in DOMAIN s, NEW r,
         r = EraseAt(s, i)
  PROVE  /\ r \in Seq(Nat) /\ DOMAIN r = 1 .. Len(s) - 1
         /\ \A j \in 1 .. Len(s) - 1 : r[j] = IF j < i THEN s[j] ELSE s[j + 1]
<1> DEFINE a == SubSeq(s, 1, i - 1)
           b == SubSeq(s, i + 1, Len(s))
<1>1. Len(s) \in Nat /\ i \in 1 .. Len(s) /\ \A j \in 1 .. Len(s) : s[j] \in Nat
  OBVIOUS
<1>2. /\ a \in Seq(Nat) /\ Len(a) = IF 1 <= i - 1 THEN i - 1 - 1 + 1 ELSE 0
      /\ \A j \in 1 .. i - 1 - 1 + 1 : a[j] = s[1 + j - 1]
  <2>1. 1 \in Int /\ i - 1 \in Int /\ \A j \in 1 .. i - 1 : s[j] \in Nat
    BY <1>1
  <2> QED
    BY <2>1, SubSeqProperties, SMTT(60)
<1>3. /\ b \in Seq(Nat)
      /\ Len(b) = IF i + 1 <= Len(s) THEN Len(s) - (i + 1) + 1 ELSE 0
      /\ \A j \in 1 .. Len(s) - (i + 1) + 1 : b[j] = s[i + 1 + j - 1]
  <2>1. i + 1 \in Int /\ Len(s) \in Int /\ \A j \in i + 1 .. Len(s) : s[j] \in Nat
    BY <1>1
  <2> QED
    BY <2>1, SubSeqProperties, SMTT(60)
<1> HIDE DEF a, b
<1>4. /\ Len(a) = i - 1 /\ \A j \in 1 .. i - 1 : a[j] = s[j]
      /\ Len(b) = Len(s) - i /\ \A j \in 1 .. Len(s) - i : b[j] = s[i + j]
  <2>1. Len(a) = i - 1
    BY <1>1, <1>2
  <2>2. Len(b) = Len(s) - i
    BY <1>1, <1>3, SMTT(60)
  <2>3. \A j \in 1 .. i - 1 : j \in 1 .. i - 1 - 1 + 1 /\ 1 + j - 1 = j
    BY <1>1
  <2>4. \A j \in 1 .. Len(s) - i : j \in 1 .. Len(s) - (i + 1) + 1 /\ i + 1 + j - 1 = i + j
    BY <1>1
  <2> QED
    BY <1>2, <1>3, <2>1, <2>2, <2>3, <2>4
<1>5. /\ r \in Seq(Nat) /\ Len(r) = Len(a) + Len(b)
      /\ \A j \in 1 .. Len(a) + Len(b) : r[j] = IF j <= Len(a) THEN a[j] ELSE b[j - Len(a)]
  <2>1. /\ a \o b \in Seq(Nat) /\ Len(a \o b) = Len(a) + Len(b)
        /\ \A j \in 1 .. Len(a) + Len(b) :
             (a \o b)[j] = IF j <= Len(a) THEN a[j] ELSE b[j - Len(a)]
    BY <1>2, <1>3, ConcatProperties
  <2>2. r = a \o b
    BY DEF a, b, EraseAt
  <2> QED
    BY <2>1, <2>2
<1>6. Len(r) = Len(s) - 1 /\ DOMAIN r = 1 .. Len(s) - 1
  <2>1. DOMAIN r = 1 .. Len(r)
    BY <1>5, LenProperties
  <2>2. Len(r) = Len(s) - 1
    BY <1>1, <1>4, <1>5
  <2> QED
    BY <2>1, <2>2
<1>7. ASSUME NEW j \in 1 .. Len(s) - 1 PROVE r[j] = IF j < i THEN s[j] ELSE s[j + 1]
  <2>0. r[j] = IF j <= i - 1 THEN a[j] ELSE b[j - (i - 1)]
    <3>1. Len(a) = i - 1 /\ Len(a) + Len(b) = Len(s) - 1
      BY <1>1, <1>4
    <3>2. r[j] = IF j <= Len(a) THEN a[j] ELSE b[j - Len(a)]
      BY <1>5, <3>1, Zenon
    <3> QED
      BY <3>1, <3>2, Zenon
  <2>1. CASE j < i
    <3>1. j \in 1 .. i - 1
      BY <1>1, <2>1
    <3>2. a[j] = s[j]
      BY <1>4, <3>1
    <3> QED
      BY <1>1, <2>0, <2>1, <3>2
  <2>2. CASE j >= i
    <3>1. j - (i - 1) \in 1 .. Len(s) - i /\ i + (j - (i - 1)) = j + 1
      BY SMTT(40), <1>1, <2>2
    <3>2. b[j - (i - 1)] = s[j + 1]
      BY <1>4, <3>1
    <3> QED
      BY <1>1, <2>0, <2>2, <3>2
  <2> QED
    BY <1>1, <2>1, <2>2
<1> QED
  BY <1>5, <1>6, <1>7

LEMMA TypeStep == ASSUME SchedTypeOK, PlacesInv, [SchedNext]_schedVars PROVE SchedTypeOK'
<1> USE DEF keyVars, timeVars
<1>t. /\ heap \subseteq [id : Nat, ts : Nat, uid : UidValid .. UidOffset - 1]
      /\ key \in Seq(Keys) /\ nextUid \in UidValid .. UidOffset - 1
      /\ clock \in Nat /\ currentUid \in Nat /\ unscheduled \in Int
      /\ queued \in Seq([id : Nat, delay : Nat]) /\ destroyList \in Seq(Nat)
      /\ cancelFlag \subseteq Created /\ gone \subseteq Created /\ ranOrder \in Seq(Nat)
      /\ at \in {"setup", "loop", "handler", "returned", "ended", "destroying", "disposed"}
      /\ stopAsked \in BOOLEAN /\ uidsTaken \in Nat
  BY DEF SchedTypeOK, Keys
<1>k. Len(key) \in Nat /\ Id \in Nat
  BY <1>t, LenProperties DEF Id
<1>1. ASSUME NEW delay \in 0 .. MaxDelay, HostSchedule(delay) PROVE SchedTypeOK'
  <2>1. delay \in Nat /\ clock + delay \in Nat /\ NextUid \in UidValid .. UidOffset - 1
    BY <1>t, Constants DEF NextUid
  <2>2. [ts |-> clock + delay, uid |-> nextUid] \in Keys
        /\ [id |-> Id, ts |-> clock + delay, uid |-> nextUid]
             \in [id : Nat, ts : Nat, uid : UidValid .. UidOffset - 1]
    BY <1>t, <1>k, <2>1, Constants DEF Keys
  <2>3. key' \in Seq(Keys) /\ Created \subseteq Created'
    BY <1>1, <2>2, NewKey DEF HostSchedule
  <2>4. heap' \subseteq [id : Nat, ts : Nat, uid : UidValid .. UidOffset - 1]
    BY <1>1, <1>t, <2>2 DEF HostSchedule
  <2>5. nextUid' \in UidValid .. UidOffset - 1 /\ uidsTaken' \in Nat /\ unscheduled' \in Int
    BY <1>1, <1>t, <2>1 DEF HostSchedule, TakeUid
  <2>6. UNCHANGED <<timeVars, queued, destroyList, cancelFlag, at, stopAsked, ranOrder, gone>>
    BY <1>1 DEF HostSchedule
  <2> QED
    BY <1>t, <2>3, <2>4, <2>5, <2>6 DEF SchedTypeOK, Keys
<1>2. ASSUME NEW delay \in 0 .. MaxDelay, QueueEvent(delay) PROVE SchedTypeOK'
  <2>1. delay \in Nat /\ [ts |-> -1, uid |-> 0] \in Keys
        /\ [id |-> Id, delay |-> delay] \in [id : Nat, delay : Nat]
    BY <1>k, Constants DEF Keys
  <2>2. key' \in Seq(Keys) /\ Created \subseteq Created'
    BY <1>2, <2>1, NewKey DEF QueueEvent
  <2>3. queued' \in Seq([id : Nat, delay : Nat])
    BY <1>2, <1>t, <2>1, AppendProperties DEF QueueEvent
  <2>4. UNCHANGED <<heap, nextUid, unscheduled, uidsTaken, timeVars, destroyList, cancelFlag,
                    at, stopAsked, ranOrder, gone>>
    BY <1>2 DEF QueueEvent
  <2> QED
    BY <1>t, <2>2, <2>3, <2>4 DEF SchedTypeOK, Keys
<1>3. ASSUME ScheduleDestroy PROVE SchedTypeOK'
  <2>1. NextUid \in UidValid .. UidOffset - 1 /\ [ts |-> clock, uid |-> 0] \in Keys
    BY <1>t, Constants DEF NextUid, Keys
  <2>2. key' \in Seq(Keys) /\ Created \subseteq Created'
    BY <1>3, <2>1, NewKey DEF ScheduleDestroy
  <2>3. destroyList' \in Seq(Nat)
    BY <1>3, <1>t, <1>k, AppendProperties DEF ScheduleDestroy
  <2>4. nextUid' \in UidValid .. UidOffset - 1 /\ uidsTaken' \in Nat
    BY <1>3, <1>t, <2>1 DEF ScheduleDestroy, TakeUid
  <2>5. UNCHANGED <<heap, unscheduled, timeVars, queued, cancelFlag, at, stopAsked, ranOrder, gone>>
    BY <1>3 DEF ScheduleDestroy
  <2> QED
    BY <1>t, <2>2, <2>3, <2>4, <2>5 DEF SchedTypeOK, Keys
<1>4. ASSUME NEW id \in Created, Cancel(id) PROVE SchedTypeOK'
  BY <1>4, <1>t DEF Cancel, SchedTypeOK, Keys, Created
<1>5. ASSUME NEW id \in Created, RemoveEvent(id) PROVE SchedTypeOK'
  <2>1. destroyList' \in Seq(Nat)
    BY <1>5, <1>t, Erased DEF RemoveEvent
  <2>2. /\ heap' \subseteq heap /\ cancelFlag' \subseteq Created /\ gone' \subseteq Created
        /\ unscheduled' \in Int
        /\ UNCHANGED <<key, nextUid, uidsTaken, timeVars, queued, at, stopAsked, ranOrder>>
    BY <1>5, <1>t DEF RemoveEvent
  <2> QED
    BY <1>t, <2>1, <2>2 DEF SchedTypeOK, Keys, Created
<1>6. ASSUME HostStop PROVE SchedTypeOK'
  BY <1>6, <1>t DEF HostStop, SchedTypeOK, Keys, Created
<1>7. ASSUME RunStart PROVE SchedTypeOK'
  BY <1>7, <1>t, TakeTypes DEF RunStart, SchedTypeOK, Keys, Created
<1>8. ASSUME HostProcessOneEvent PROVE SchedTypeOK'
  <2>1. PICK e \in heap :
          /\ heap' = heap \ {e} /\ clock' = e.ts /\ currentUid' = e.uid
          /\ ranOrder' = IF e.id \in cancelFlag THEN ranOrder ELSE Append(ranOrder, e.id)
          /\ gone' = gone \cup {e.id}
          /\ at' = IF e.id \in cancelFlag THEN "returned" ELSE "handler"
    BY <1>8 DEF HostProcessOneEvent
  <2>2. e.ts \in Nat /\ e.uid \in Nat /\ e.id \in Nat /\ e.id \in Created
    BY <1>t, Constants DEF PlacesInv, HeapInv
  <2>3. ranOrder' \in Seq(Nat)
    BY <1>t, <2>1, <2>2, AppendProperties
  <2>4. UNCHANGED <<key, nextUid, uidsTaken, queued, destroyList, cancelFlag, stopAsked>>
        /\ unscheduled' \in Int
    BY <1>8, <1>t DEF HostProcessOneEvent
  <2> QED
    BY <1>t, <2>1, <2>2, <2>3, <2>4 DEF SchedTypeOK, Keys, Created
<1>9. ASSUME HostReturn PROVE SchedTypeOK'
  BY <1>9, <1>t, TakeTypes DEF HostReturn, SchedTypeOK, Keys, Created
<1>10. ASSUME RunEnd PROVE SchedTypeOK'
  BY <1>10, <1>t DEF RunEnd, SchedTypeOK, Keys, Created
<1>11. ASSUME Destroy PROVE SchedTypeOK'
  <2>1. destroyList # <<>> /\ Head(destroyList) \in Nat /\ Tail(destroyList) \in Seq(Nat)
    BY <1>11, <1>t, HeadTailProperties DEF Destroy
  <2>2. Head(destroyList) \in Created
    <3>1. 1 \in DOMAIN destroyList /\ Head(destroyList) = destroyList[1]
      BY <1>t, <2>1
    <3> QED
      BY <3>1 DEF PlacesInv, DestroyInv
  <2>3. Append(ranOrder, Head(destroyList)) \in Seq(Nat)
    BY <1>t, <2>1, AppendProperties
  <2> QED
    BY <1>11, <1>t, <2>1, <2>2, <2>3 DEF Destroy, SchedTypeOK, Keys, Created
<1>12. ASSUME DestroyReturn PROVE SchedTypeOK'
  BY <1>12, <1>t DEF DestroyReturn, SchedTypeOK, Keys, Created
<1>13. ASSUME DoDispose PROVE SchedTypeOK'
  <2>1. Len(queued) \in Nat
    BY <1>t, LenProperties
  <2>2. UidAfter(Len(queued)) \in UidValid .. UidOffset - 1
    BY <2>1, UidAfterType
  <2>3. queued' \in Seq([id : Nat, delay : Nat])
    BY <1>13 DEF DoDispose
  <2> QED
    BY <1>13, <1>t, <2>1, <2>2, <2>3 DEF DoDispose, SchedTypeOK, Keys, Created
<1>14. ASSUME UNCHANGED schedVars PROVE SchedTypeOK'
  BY <1>14, <1>t DEF schedVars, SchedTypeOK, Keys, Created
<1> QED
  BY <1>1, <1>2, <1>3, <1>4, <1>5, <1>6, <1>7, <1>8, <1>9, <1>10, <1>11, <1>12, <1>13,
     <1>14 DEF SchedNext

----------------------------------------------------------------------------
(* Places.                                                                 *)

\* The entries that the queued events get in the heap.
Entry(i) == [id |-> queued[i].id, ts |-> clock + queued[i].delay, uid |-> UidAfter(i - 1)]
Entries == {Entry(i) : i \in DOMAIN queued}

LEMMA EntriesAre == ASSUME SchedTypeOK
  PROVE  /\ Len(queued) \in Nat /\ DOMAIN queued = 1 .. Len(queued)
         /\ \A i \in DOMAIN queued : queued[i].id \in Nat /\ queued[i].delay \in Nat
         /\ \A i \in DOMAIN queued : Entry(i).ts \in Nat /\ Entry(i).ts >= clock
         /\ TakeQueued => heap' = heap \cup Entries
<1>1. queued \in Seq([id : Nat, delay : Nat]) /\ clock \in Nat
  BY DEF SchedTypeOK
<1>2. /\ Len(queued) \in Nat /\ DOMAIN queued = 1 .. Len(queued)
      /\ \A i \in 1 .. Len(queued) : queued[i] \in [id : Nat, delay : Nat]
  BY <1>1, LenProperties, ElementOfSeq
<1>3. \A i \in DOMAIN queued : queued[i].id \in Nat /\ queued[i].delay \in Nat
  BY <1>2
<1>4. \A i \in DOMAIN queued : Entry(i).ts \in Nat /\ Entry(i).ts >= clock
  BY <1>1, <1>3 DEF Entry
<1>5. TakeQueued => heap' = heap \cup Entries
  BY DEF TakeQueued, Entries, Entry
<1> QED
  BY <1>2, <1>3, <1>4, <1>5

\* A set that n indices number without repetition has n elements.
LEMMA Numbered ==
  ASSUME NEW n \in Nat, NEW S, NEW f \in [1 .. n -> S],
         \A e \in S : \E i \in 1 .. n : f[i] = e,
         \A i, j \in 1 .. n : f[i] = f[j] => i = j
  PROVE  IsFiniteSet(S) /\ Cardinality(S) = n
<1>1. IsFiniteSet(1 .. n) /\ Cardinality(1 .. n) = n
  <2>1. IsFiniteSet(1 .. n) /\ Cardinality(1 .. n) = IF 1 > n THEN 0 ELSE n - 1 + 1
    BY FS_Interval
  <2> QED
    BY <2>1
<1>2. f \in Surjection(1 .. n, S)
  BY DEF Surjection
<1>3. f \in Injection(1 .. n, S)
  BY DEF Injection, IsInjective
<1> QED
  BY <1>1, <1>2, <1>3, FS_Surjection

LEMMA EntriesCount == ASSUME SchedTypeOK, HeapInv, QueueInv
  PROVE  /\ IsFiniteSet(Entries) /\ Cardinality(Entries) = Len(queued)
         /\ IsFiniteSet(heap \cup Entries)
         /\ Cardinality(heap \cup Entries) = Cardinality(heap) + Len(queued)
<1> DEFINE n == Len(queued)
           f == [i \in 1 .. n |-> Entry(i)]
<1>1. n \in Nat /\ DOMAIN queued = 1 .. n
  BY EntriesAre
<1>2. \A i, j \in 1 .. n : Entry(i) = Entry(j) => i = j
  BY <1>1 DEF Entry, QueueInv
<1>3. f \in [1 .. n -> Entries] /\ \A i \in 1 .. n : f[i] = Entry(i)
  BY <1>1 DEF Entries
<1>4. \A e \in Entries : \E i \in 1 .. n : f[i] = e
  BY <1>1, <1>3 DEF Entries
<1> HIDE DEF n, f
<1>5. \A i, j \in 1 .. n : f[i] = f[j] => i = j
  BY <1>2, <1>3
<1>6. IsFiniteSet(Entries) /\ Cardinality(Entries) = n
  BY <1>1, <1>3, <1>4, <1>5, Numbered
<1>7. heap \cap Entries = {}
  BY DEF Entries, Entry, QueueInv, InHeap, InQueue
<1>8. IsFiniteSet(heap)
  BY DEF HeapInv
<1>9. IsFiniteSet(heap \cup Entries) /\ Cardinality(heap \cup Entries) =
        Cardinality(heap) + Cardinality(Entries) - Cardinality(heap \cap Entries)
  BY <1>6, <1>8, FS_Union
<1>10. Cardinality(heap \cap Entries) = 0 /\ Cardinality(heap) \in Nat
  BY <1>7, <1>8, FS_EmptySet, FS_CardinalityType
<1> QED
  BY <1>1, <1>6, <1>9, <1>10 DEF n

\* What was in a sequence stays where it is when an element is appended.
LEMMA Appended ==
  ASSUME NEW s \in Seq(Nat), NEW x \in Nat, NEW r, r = Append(s, x)
  PROVE  /\ Len(s) \in Nat /\ DOMAIN s = 1 .. Len(s) /\ DOMAIN r = 1 .. Len(s) + 1
         /\ \A i \in DOMAIN s : i \in DOMAIN r /\ r[i] = s[i]
         /\ \A i \in DOMAIN r : i \in DOMAIN s \/ i = Len(s) + 1
         /\ r[Len(s) + 1] = x
BY LenProperties, AppendProperties

\* Nothing changes place.
LEMMA QuietPlaces ==
  ASSUME PlacesInv, UNCHANGED <<heap, key, queued, destroyList, gone, ranOrder, clock>>,
         at' # "disposed" => at # "disposed"
  PROVE  PlacesInv'
BY DEF PlacesInv, HeapInv, QueueInv, DestroyInv, NoneMissing, RanAreGone, Created, Timed, AtEnd,
   InHeap, InQueue, OnDestroyList, HasEventId, IsDestroy

\* Queued events come into the heap.
LEMMA TakePlaces ==
  ASSUME SchedTypeOK, PlacesInv, TakeQueued, at # "disposed",
         UNCHANGED <<key, destroyList, gone, ranOrder, clock>>
  PROVE  PlacesInv'
<1>1. /\ heap' = heap \cup Entries /\ queued' = <<>> /\ DOMAIN queued' = {}
  BY EntriesAre, EmptySeq DEF TakeQueued
<1>2. IsFiniteSet(heap')
  BY <1>1, EntriesCount DEF PlacesInv
<1>3. \A e \in Entries : \E i \in DOMAIN queued : e = Entry(i) /\ e.id = queued[i].id
  BY DEF Entries, Entry
<1>4. \A e \in Entries : /\ e.id \in Created /\ e.id \notin gone /\ e.ts >= clock
                         /\ ~HasEventId(e.id) /\ ~InHeap(e.id)
  BY <1>3, EntriesAre DEF PlacesInv, QueueInv, InQueue
<1>5. \A e, f \in Entries : e.id = f.id => e = f
  BY <1>3 DEF PlacesInv, QueueInv
<1>6. \A e, f \in heap' : e.id = f.id => e = f
  BY <1>1, <1>4, <1>5 DEF PlacesInv, HeapInv, InHeap
<1>7. HeapInv'
  BY <1>1, <1>2, <1>4, <1>6 DEF PlacesInv, HeapInv, Created, HasEventId
<1>8. QueueInv' /\ DestroyInv' /\ RanAreGone'
  BY <1>1 DEF PlacesInv, QueueInv, DestroyInv, RanAreGone, Created, AtEnd, InQueue, OnDestroyList,
     HasEventId, IsDestroy
<1>9. NoneMissing'
  BY <1>1 DEF PlacesInv, NoneMissing, Created, Timed, AtEnd, InHeap, OnDestroyList, HasEventId,
     IsDestroy
<1> QED
  BY <1>7, <1>8, <1>9 DEF PlacesInv

LEMMA PlacesStep == ASSUME SchedTypeOK, PlacesInv, [SchedNext]_schedVars PROVE PlacesInv'
<1> USE DEF keyVars, timeVars
<1>t. /\ \A e \in heap : e.id \in Nat /\ e.ts \in Nat /\ e.uid \in Nat /\ e.uid > 0
      /\ clock \in Nat /\ cancelFlag \subseteq Created /\ gone \subseteq Created
      /\ destroyList \in Seq(Nat) /\ ranOrder \in Seq(Nat) /\ nextUid \in Nat /\ nextUid > 0
      /\ queued \in Seq([id : Nat, delay : Nat])
  BY Constants DEF SchedTypeOK
<1>p. HeapInv /\ QueueInv /\ DestroyInv /\ NoneMissing /\ RanAreGone
  BY DEF PlacesInv
<1>k. Len(key) \in Nat /\ Id \in Nat /\ Created = 1 .. Len(key) /\ Id \notin Created
  BY LenProperties DEF SchedTypeOK, Id, Created
<1>1. ASSUME NEW delay \in 0 .. MaxDelay, HostSchedule(delay) PROVE PlacesInv'
  <2> DEFINE e0 == [id |-> Id, ts |-> clock + delay, uid |-> nextUid]
             k0 == [ts |-> clock + delay, uid |-> nextUid]
  <2>1. /\ k0 \in Keys /\ key' = Append(key, k0) /\ heap' = heap \cup {e0} /\ at # "disposed"
        /\ UNCHANGED <<timeVars, queued, destroyList, cancelFlag, ranOrder, gone>>
    BY <1>1, <1>t, Constants DEF HostSchedule, OnMainThread, Keys
  <2>2. e0.id = Id /\ e0.ts >= clock /\ e0.ts = k0.ts /\ e0.uid = k0.uid /\ k0.ts >= 0 /\ k0.uid # 0
    BY <1>t, Constants
  <2> HIDE DEF e0, k0
  <2>n. PICK n \in Nat : n = Id
    BY <1>k
  <2>3. /\ Created' = Created \cup {n} /\ n \notin Created /\ key'[n] = k0
        /\ \A id \in Created : key'[id] = key[id]
    BY <2>1, <2>n, NewKey
  <2>4. /\ Timed(n)' /\ ~AtEnd(n)' /\ HasEventId(n)'
        /\ \A id \in Created : (Timed(id)' <=> Timed(id)) /\ (AtEnd(id)' <=> AtEnd(id))
                               /\ (HasEventId(id)' <=> HasEventId(id))
    BY <2>2, <2>3 DEF Timed, AtEnd, HasEventId, IsDestroy
  <2>5. IsFiniteSet(heap')
    BY <1>p, <2>1, FS_AddElement DEF HeapInv
  <2>6. HeapInv'
    <3>1. \A e \in heap' : e.id \in Created' /\ e.id \notin gone' /\ e.ts >= clock'
      BY <1>p, <1>t, <2>1, <2>2, <2>n, <2>3 DEF HeapInv
    <3>2. \A e, f \in heap' : e.id = f.id => e = f
      BY <1>p, <2>1, <2>2, <2>n, <2>3 DEF HeapInv
    <3>3. \A e \in heap' : key'[e.id].ts >= 0 => key'[e.id].ts = e.ts /\ key'[e.id].uid = e.uid
      <4>1. \A e \in heap : key'[e.id].ts >= 0 => key'[e.id].ts = e.ts /\ key'[e.id].uid = e.uid
        BY <1>p, <2>3 DEF HeapInv, HasEventId
      <4>2. key'[e0.id].ts = e0.ts /\ key'[e0.id].uid = e0.uid
        BY <2>2, <2>n, <2>3
      <4> QED
        BY <2>1, <4>1, <4>2
    <3> QED
      BY <2>5, <3>1, <3>2, <3>3 DEF HeapInv, HasEventId
  <2>7. \A id : InHeap(id)' <=> InHeap(id) \/ id = n
    BY <2>1, <2>2, <2>n DEF InHeap
  <2>8. \A id : (InQueue(id)' <=> InQueue(id)) /\ (OnDestroyList(id)' <=> OnDestroyList(id))
    BY <2>1 DEF InQueue, OnDestroyList
  <2>9. ~InQueue(n) /\ ~OnDestroyList(n)
    BY <1>p, <2>3 DEF InQueue, OnDestroyList, QueueInv, DestroyInv
  <2>10. QueueInv'
    <3>1. \A id \in Created' : InQueue(id)' => ~HasEventId(id)' /\ ~InHeap(id)' /\ id \notin gone'
      BY <1>p, <2>1, <2>3, <2>4, <2>7, <2>8, <2>9 DEF QueueInv
    <3> QED
      BY <1>p, <2>1, <2>3, <3>1 DEF QueueInv
  <2>11. DestroyInv'
    <3>1. \A id \in Created' : OnDestroyList(id)' => AtEnd(id)' /\ id \notin gone'
      BY <1>p, <2>1, <2>3, <2>4, <2>8, <2>9 DEF DestroyInv
    <3> QED
      BY <1>p, <2>1, <2>3, <3>1 DEF DestroyInv
  <2>12. RanAreGone'
    BY <1>p, <2>1 DEF RanAreGone
  <2>13. NoneMissing'
    BY <1>p, <2>1, <2>3, <2>4, <2>7, <2>8 DEF NoneMissing
  <2> QED
    BY <2>6, <2>10, <2>11, <2>12, <2>13 DEF PlacesInv
<1>2. ASSUME NEW delay \in 0 .. MaxDelay, QueueEvent(delay) PROVE PlacesInv'
  <2> DEFINE k0 == [ts |-> -1, uid |-> 0]
             q0 == [id |-> Id, delay |-> delay]
  <2>1. /\ k0 \in Keys /\ key' = Append(key, k0) /\ queued' = Append(queued, q0)
        /\ UNCHANGED <<heap, timeVars, destroyList, cancelFlag, at, ranOrder, gone>>
    BY <1>2 DEF QueueEvent, Keys
  <2>2. k0.ts = -1 /\ q0.id = Id /\ q0 \in [id : Nat, delay : Nat]
    BY <1>k, Constants
  <2> HIDE DEF k0, q0
  <2>n. PICK n \in Nat : n = Id
    BY <1>k
  <2>3. /\ Created' = Created \cup {n} /\ n \notin Created /\ key'[n] = k0
        /\ \A id \in Created : key'[id] = key[id]
    BY <2>1, <2>n, NewKey
  <2>4. /\ ~HasEventId(n)' /\ ~Timed(n)' /\ ~AtEnd(n)'
        /\ \A id \in Created : (Timed(id)' <=> Timed(id)) /\ (AtEnd(id)' <=> AtEnd(id))
                               /\ (HasEventId(id)' <=> HasEventId(id))
    BY <2>2, <2>3 DEF Timed, AtEnd, HasEventId, IsDestroy
  <2>5. /\ Len(queued) \in Nat /\ DOMAIN queued = 1 .. Len(queued)
        /\ DOMAIN queued' = 1 .. Len(queued) + 1
        /\ \A i \in 1 .. Len(queued) : queued'[i] = queued[i]
        /\ queued'[Len(queued) + 1] = q0
    BY <1>t, <2>1, <2>2, LenProperties, AppendProperties
  <2>6. HeapInv'
    BY ZenonT(40), <1>p, <2>1, <2>3 DEF HeapInv, HasEventId
  <2>7. /\ \A id : (InHeap(id)' <=> InHeap(id)) /\ (OnDestroyList(id)' <=> OnDestroyList(id))
        /\ ~InHeap(n) /\ ~OnDestroyList(n) /\ ~InQueue(n)
    BY <1>p, <2>1, <2>3 DEF InHeap, OnDestroyList, InQueue, HeapInv, DestroyInv, QueueInv
  <2>8. \A i \in DOMAIN queued' : i = Len(queued) + 1 \/ i \in DOMAIN queued
    BY <2>5
  <2>9. /\ DOMAIN queued \subseteq DOMAIN queued' /\ Len(queued) + 1 \in DOMAIN queued'
        /\ \A i \in DOMAIN queued : queued'[i].id = queued[i].id
        /\ queued'[Len(queued) + 1].id = n
    BY <2>2, <2>5, <2>n
  <2>10. \A id : InQueue(id)' <=> InQueue(id) \/ id = n
    BY <2>8, <2>9 DEF InQueue
  <2>11. QueueInv'
    <3>1. \A i \in DOMAIN queued : queued[i].id \in Created /\ queued[i].id # n
      BY <1>p, <2>3 DEF QueueInv
    <3>2. \A i, j \in DOMAIN queued' : queued'[i].id = queued'[j].id => i = j
      BY <1>p, <2>8, <2>9, <3>1, Zenon DEF QueueInv
    <3>3. \A id \in Created' : InQueue(id)' => ~HasEventId(id)' /\ ~InHeap(id)' /\ id \notin gone'
      BY <1>p, <1>t, <2>1, <2>3, <2>4, <2>7, <2>10 DEF QueueInv
    <3>4. \A i \in DOMAIN queued' : queued'[i].id \in Created'
      BY <2>3, <2>8, <2>9, <3>1
    <3> QED
      BY <3>2, <3>3, <3>4 DEF QueueInv
  <2>12. DestroyInv'
    <3>1. \A id \in Created' : OnDestroyList(id)' => AtEnd(id)' /\ id \notin gone'
      BY <1>p, <2>1, <2>3, <2>4, <2>7 DEF DestroyInv
    <3> QED
      BY <1>p, <2>1, <2>3, <3>1 DEF DestroyInv
  <2>13. RanAreGone' /\ NoneMissing'
    BY <1>p, <2>1, <2>3, <2>4, <2>7 DEF RanAreGone, NoneMissing
  <2> QED
    BY <2>6, <2>11, <2>12, <2>13 DEF PlacesInv
<1>3. ASSUME ScheduleDestroy PROVE PlacesInv'
  <2> DEFINE k0 == [ts |-> clock, uid |-> 0]
  <2>1. /\ k0 \in Keys /\ key' = Append(key, k0) /\ destroyList' = Append(destroyList, Id)
        /\ UNCHANGED <<heap, timeVars, queued, cancelFlag, at, ranOrder, gone>>
    BY <1>3, <1>t DEF ScheduleDestroy, Keys
  <2>2. k0.ts >= 0 /\ k0.uid = 0
    BY <1>t
  <2> HIDE DEF k0
  <2>n. PICK n \in Nat : n = Id
    BY <1>k
  <2>3. /\ Created' = Created \cup {n} /\ n \notin Created /\ key'[n] = k0
        /\ \A id \in Created : key'[id] = key[id]
    BY <2>1, <2>n, NewKey
  <2>4. /\ HasEventId(n)' /\ ~Timed(n)' /\ AtEnd(n)'
        /\ \A id \in Created : (Timed(id)' <=> Timed(id)) /\ (AtEnd(id)' <=> AtEnd(id))
                               /\ (HasEventId(id)' <=> HasEventId(id))
    BY <2>2, <2>3 DEF Timed, AtEnd, HasEventId, IsDestroy
  <2>5. /\ Len(destroyList) \in Nat /\ DOMAIN destroyList = 1 .. Len(destroyList)
        /\ DOMAIN destroyList' = 1 .. Len(destroyList) + 1
        /\ \A i \in 1 .. Len(destroyList) : destroyList'[i] = destroyList[i]
        /\ destroyList'[Len(destroyList) + 1] = n
    BY <1>t, <2>1, <2>n, LenProperties, AppendProperties
  <2>6. HeapInv'
    BY <1>p, <2>1, <2>3 DEF HeapInv, HasEventId
  <2>7. /\ \A id : (InHeap(id)' <=> InHeap(id)) /\ (InQueue(id)' <=> InQueue(id))
        /\ ~InHeap(n) /\ ~OnDestroyList(n) /\ ~InQueue(n)
    BY <1>p, <2>1, <2>3 DEF InHeap, OnDestroyList, InQueue, HeapInv, DestroyInv, QueueInv
  <2>8. \A i \in DOMAIN destroyList' : i = Len(destroyList) + 1 \/ i \in DOMAIN destroyList
    BY <2>5
  <2>9. /\ DOMAIN destroyList \subseteq DOMAIN destroyList'
        /\ Len(destroyList) + 1 \in DOMAIN destroyList'
        /\ \A i \in DOMAIN destroyList : destroyList'[i] = destroyList[i]
        /\ destroyList'[Len(destroyList) + 1] = n
    BY <2>5
  <2>10. \A id : OnDestroyList(id)' <=> OnDestroyList(id) \/ id = n
    BY <2>8, <2>9 DEF OnDestroyList
  <2>11. DestroyInv'
    <3>1. \A i \in DOMAIN destroyList : destroyList[i] \in Created /\ destroyList[i] # n
      BY <1>p, <2>3 DEF DestroyInv
    <3>2. \A i, j \in DOMAIN destroyList' : destroyList'[i] = destroyList'[j] => i = j
      BY <1>p, <2>8, <2>9, <3>1, Zenon DEF DestroyInv
    <3>3. \A id \in Created' : OnDestroyList(id)' => AtEnd(id)' /\ id \notin gone'
      BY <1>p, <1>t, <2>1, <2>3, <2>4, <2>10 DEF DestroyInv
    <3>4. \A i \in DOMAIN destroyList' : destroyList'[i] \in Created'
      BY <2>3, <2>8, <2>9, <3>1
    <3> QED
      BY <3>2, <3>3, <3>4 DEF DestroyInv
  <2>12. QueueInv'
    <3>1. \A id \in Created' : InQueue(id)' => ~HasEventId(id)' /\ ~InHeap(id)' /\ id \notin gone'
      BY <1>p, <2>1, <2>3, <2>4, <2>7 DEF QueueInv
    <3> QED
      BY <1>p, <2>1, <2>3, <3>1 DEF QueueInv
  <2>13. RanAreGone' /\ NoneMissing'
    BY <1>p, <2>1, <2>3, <2>4, <2>7, <2>10 DEF RanAreGone, NoneMissing
  <2> QED
    BY <2>6, <2>11, <2>12, <2>13 DEF PlacesInv
<1>4. ASSUME NEW id \in Created, Cancel(id) PROVE PlacesInv'
  BY <1>4, QuietPlaces DEF Cancel
<1>5. ASSUME NEW id \in Created, RemoveEvent(id) PROVE PlacesInv'
  <2>1. /\ gone' = gone \cup {id} /\ HasEventId(id)
        /\ UNCHANGED <<key, clock, queued, at, ranOrder>>
    BY <1>5 DEF RemoveEvent
  <2>2. /\ Created' = Created /\ \A a : InQueue(a)' <=> InQueue(a)
        /\ \A a : (Timed(a)' <=> Timed(a)) /\ (AtEnd(a)' <=> AtEnd(a))
                /\ (HasEventId(a)' <=> HasEventId(a))
    BY <2>1 DEF Created, InQueue, Timed, AtEnd, HasEventId, IsDestroy
  <2>3. /\ heap' \subseteq heap /\ ~InHeap(id)' /\ ~OnDestroyList(id)'
        /\ \A a : a # id => (InHeap(a)' <=> InHeap(a)) /\ (OnDestroyList(a)' <=> OnDestroyList(a))
        /\ \A i \in DOMAIN destroyList' : OnDestroyList(destroyList'[i])
        /\ \A i, j \in DOMAIN destroyList' : destroyList'[i] = destroyList'[j] => i = j
    <3>1. CASE IsDestroy(id)
      <4>0. \A e \in heap : e.id = id => key[id].uid = e.uid
        BY <1>p, <2>1 DEF HeapInv
      <4>1. heap' = heap /\ ~InHeap(id)
        <5>1. ASSUME NEW e \in heap, e.id = id PROVE key[id].uid > 0
          <6>1. key[id].uid = e.uid
            BY <4>0, <5>1, Zenon
          <6>2. e.uid > 0
            BY <1>t
          <6> QED
            BY <6>1, <6>2
        <5> QED
          BY <1>5, <3>1, <5>1 DEF RemoveEvent, InHeap, IsDestroy
      <4>2. CASE UNCHANGED destroyList /\ ~OnDestroyList(id)
        BY <1>p, <4>1, <4>2 DEF InHeap, OnDestroyList, DestroyInv
      <4>3. ASSUME NEW i \in DOMAIN destroyList, destroyList[i] = id,
                   destroyList' = EraseAt(destroyList, i)
            PROVE  /\ ~OnDestroyList(id)'
                   /\ \A a : a # id => (OnDestroyList(a)' <=> OnDestroyList(a))
                   /\ \A k \in DOMAIN destroyList' : OnDestroyList(destroyList'[k])
                   /\ \A k, j \in DOMAIN destroyList' : destroyList'[k] = destroyList'[j] => k = j
        <5> DEFINE from(k) == IF k < i THEN k ELSE k + 1
                   n == Len(destroyList)
        <5>1. n \in Nat /\ DOMAIN destroyList = 1 .. n /\ i \in 1 .. n
          BY <1>t, <4>3, LenProperties
        <5>2. DOMAIN destroyList' = 1 .. n - 1 /\ \A k \in 1 .. n - 1 :
                destroyList'[k] = IF k < i THEN destroyList[k] ELSE destroyList[k + 1]
          <6>1. ASSUME NEW r, r = EraseAt(destroyList, i)
                PROVE  DOMAIN r = 1 .. n - 1 /\ \A k \in 1 .. n - 1 :
                         r[k] = IF k < i THEN destroyList[k] ELSE destroyList[k + 1]
            <7>1. destroyList \in Seq(Nat)
              BY <1>t
            <7> QED
              BY <6>1, <7>1, Erased, Zenon
          <6> HIDE DEF n
          <6> QED
            BY <4>3, <6>1
        <5>3. /\ \A k \in 1 .. n - 1 : from(k) \in 1 .. n /\ from(k) # i
              /\ \A k, j \in 1 .. n - 1 : from(k) = from(j) => k = j
              /\ \A m \in 1 .. n : m # i => \E k \in 1 .. n - 1 : from(k) = m
          <6>1. /\ \A k \in 1 .. n - 1 : from(k) \in 1 .. n /\ from(k) # i
                /\ \A k, j \in 1 .. n - 1 : from(k) = from(j) => k = j
            BY <5>1
          <6>2. ASSUME NEW m \in 1 .. n, m # i PROVE \E k \in 1 .. n - 1 : from(k) = m
            <7>1. CASE m < i
              <8>1. m \in 1 .. n - 1 /\ from(m) = m
                BY <5>1, <7>1
              <8> QED
                BY <8>1
            <7>2. CASE m > i
              <8>1. m - 1 \in 1 .. n - 1 /\ from(m - 1) = m
                BY <5>1, <7>2
              <8> QED
                BY <8>1
            <7> QED
              BY <5>1, <6>2, <7>1, <7>2
          <6> QED
            BY <6>1, <6>2
        <5>4. \A k \in 1 .. n - 1 : destroyList'[k] = destroyList[from(k)]
          BY <5>2
        <5> HIDE DEF from, n
        <5>5. \A k, j \in 1 .. n : destroyList[k] = destroyList[j] => k = j
          BY <1>p, <5>1 DEF DestroyInv
        <5>6. \A k \in DOMAIN destroyList' : destroyList'[k] # id
          BY <4>3, <5>1, <5>2, <5>3, <5>4, <5>5
        <5>7. \A k, j \in DOMAIN destroyList' : destroyList'[k] = destroyList'[j] => k = j
          BY <5>2, <5>3, <5>4, <5>5
        <5>8. \A k \in DOMAIN destroyList' : OnDestroyList(destroyList'[k])
          BY <5>1, <5>2, <5>3, <5>4 DEF OnDestroyList
        <5>9. \A a : a # id => (OnDestroyList(a)' <=> OnDestroyList(a))
          <6>1. ASSUME NEW a, a # id, NEW m \in DOMAIN destroyList, destroyList[m] = a
                PROVE  \E k \in DOMAIN destroyList' : destroyList'[k] = a
            <7>1. PICK k \in 1 .. n - 1 : from(k) = m
              BY <4>3, <5>1, <5>3, <6>1
            <7> QED
              BY <5>2, <5>4, <6>1, <7>1
          <6> QED
            BY <5>8, <6>1 DEF OnDestroyList
        <5> QED
          BY <5>6, <5>7, <5>8, <5>9 DEF OnDestroyList
      <4>4. \/ UNCHANGED destroyList /\ ~OnDestroyList(id)
            \/ \E i \in DOMAIN destroyList :
                 destroyList[i] = id /\ destroyList' = EraseAt(destroyList, i)
        BY <1>5, <3>1 DEF RemoveEvent, OnDestroyList
      <4>5. \A a : InHeap(a)' <=> InHeap(a)
        BY <4>1 DEF InHeap
      <4> QED
        BY <4>1, <4>2, <4>3, <4>4, <4>5
    <3>2. CASE ~IsDestroy(id)
      <4>1. heap' = {e \in heap : e.id # id} /\ destroyList' = destroyList
        BY <1>5, <3>2 DEF RemoveEvent
      <4>2. ~OnDestroyList(id)
        BY <1>p, <3>2 DEF DestroyInv, AtEnd
      <4> QED
        BY <1>p, <4>1, <4>2 DEF InHeap, OnDestroyList, DestroyInv
    <3> QED
      BY <3>1, <3>2
  <2>4. IsFiniteSet(heap')
    BY <1>p, <2>3, FS_Subset DEF HeapInv
  <2>5. HeapInv'
    <3>1. \A e \in heap' : e.id # id
      BY <2>3 DEF InHeap
    <3> QED
      BY <1>p, <2>1, <2>2, <2>3, <2>4, <3>1 DEF HeapInv
  <2>6. QueueInv'
    <3>1. \A a \in Created' : InQueue(a)' => ~HasEventId(a)' /\ ~InHeap(a)' /\ a \notin gone'
      BY <1>p, <2>1, <2>2, <2>3 DEF QueueInv
    <3> QED
      BY <1>p, <2>1, <2>2, <3>1 DEF QueueInv
  <2>7. DestroyInv'
    <3>1. \A a \in Created' : OnDestroyList(a)' => AtEnd(a)' /\ a \notin gone'
      BY <1>p, <2>1, <2>2, <2>3 DEF DestroyInv
    <3>2. \A i \in DOMAIN destroyList' : destroyList'[i] \in Created'
      BY <1>p, <2>2, <2>3 DEF DestroyInv, OnDestroyList
    <3> QED
      BY <2>3, <3>1, <3>2 DEF DestroyInv
  <2>8. NoneMissing' /\ RanAreGone'
    BY <1>p, <2>1, <2>2, <2>3 DEF NoneMissing, RanAreGone
  <2> QED
    BY <2>5, <2>6, <2>7, <2>8 DEF PlacesInv
<1>6. ASSUME HostStop PROVE PlacesInv'
  BY <1>6, QuietPlaces DEF HostStop
<1>7. ASSUME RunStart PROVE PlacesInv'
  BY <1>7, TakePlaces DEF RunStart
<1>8. ASSUME HostProcessOneEvent PROVE PlacesInv'
  <2>1. PICK e \in heap :
          /\ \A f \in heap \ {e} : ~Before(f, e)
          /\ heap' = heap \ {e} /\ clock' = e.ts
          /\ ranOrder' = IF e.id \in cancelFlag THEN ranOrder ELSE Append(ranOrder, e.id)
          /\ gone' = gone \cup {e.id}
          /\ at' = IF e.id \in cancelFlag THEN "returned" ELSE "handler"
    BY <1>8 DEF HostProcessOneEvent
  <2>2. UNCHANGED <<key, queued, destroyList>> /\ at # "disposed"
    BY <1>8 DEF HostProcessOneEvent
  <2>n. PICK n \in Nat : n = e.id
    BY <1>t
  <2>3. /\ Created' = Created /\ n \in Created /\ n \notin gone /\ gone' = gone \cup {n}
        /\ \A f \in heap' : f \in heap /\ f.id # n /\ f.ts >= clock'
    <3>1. \A f \in heap' : f \in heap /\ f # e
      BY <2>1
    <3>2. \A f \in heap' : f.id # e.id
      BY <1>p, <2>1, <3>1 DEF HeapInv
    <3>3. \A f \in heap' : f.ts >= clock'
      BY <1>t, <2>1, <3>1 DEF Before
    <3> QED
      BY <1>p, <2>1, <2>2, <2>n, <3>1, <3>2, <3>3 DEF HeapInv, Created
  <2>4. /\ \A a : (InQueue(a)' <=> InQueue(a)) /\ (OnDestroyList(a)' <=> OnDestroyList(a))
        /\ \A a : (Timed(a)' <=> Timed(a)) /\ (AtEnd(a)' <=> AtEnd(a))
                /\ (HasEventId(a)' <=> HasEventId(a))
    BY <2>2 DEF Created, InQueue, OnDestroyList, Timed, AtEnd, HasEventId, IsDestroy
  <2>5. /\ \A a : InHeap(a)' => InHeap(a) /\ a # n
        /\ \A a : InHeap(a) => InHeap(a)' \/ a = n
    BY <2>1, <2>3, <2>n DEF InHeap
  <2>6. ~InQueue(n) /\ ~OnDestroyList(n)
    <3>1. InHeap(n)
      BY <2>n DEF InHeap
    <3>2. ~AtEnd(n)
      <4>1. HasEventId(n) => key[n].uid = e.uid
        BY <1>p, <2>n DEF HeapInv
      <4> QED
        BY <1>t, <4>1 DEF AtEnd, IsDestroy
    <3> QED
      BY <1>p, <2>3, <3>1, <3>2 DEF QueueInv, DestroyInv
  <2>7. HeapInv'
    <3>1. IsFiniteSet(heap')
      BY <1>p, <2>1, FS_Subset DEF HeapInv
    <3> QED
      BY <1>p, <2>2, <2>3, <2>4, <3>1 DEF HeapInv
  <2>8. QueueInv'
    <3>1. \A a \in Created' : InQueue(a)' => ~HasEventId(a)' /\ ~InHeap(a)' /\ a \notin gone'
      BY <1>p, <2>3, <2>4, <2>5, <2>6 DEF QueueInv
    <3> QED
      BY <1>p, <2>2, <2>3, <3>1 DEF QueueInv
  <2>9. DestroyInv'
    <3>1. \A a \in Created' : OnDestroyList(a)' => AtEnd(a)' /\ a \notin gone'
      BY <1>p, <2>3, <2>4, <2>6 DEF DestroyInv
    <3> QED
      BY <1>p, <2>2, <2>3, <3>1 DEF DestroyInv
  <2>10. NoneMissing'
    BY <1>p, <2>2, <2>3, <2>4, <2>5 DEF NoneMissing
  <2>11. RanAreGone'
    BY <1>p, <1>t, <2>1, <2>n, <2>3, Appended, SMTT(60) DEF RanAreGone
  <2> QED
    BY <2>7, <2>8, <2>9, <2>10, <2>11 DEF PlacesInv
<1>9. ASSUME HostReturn PROVE PlacesInv'
  BY <1>9, TakePlaces DEF HostReturn
<1>10. ASSUME RunEnd PROVE PlacesInv'
  BY <1>10, QuietPlaces DEF RunEnd
<1>11. ASSUME Destroy PROVE PlacesInv'
  <2>1. /\ destroyList # <<>> /\ destroyList' = Tail(destroyList)
        /\ UNCHANGED <<heap, key, queued, clock>> /\ at' # "disposed" /\ at # "disposed"
    BY <1>11 DEF Destroy
  <2>n. PICK n : n = Head(destroyList)
    OBVIOUS
  <2>2. /\ gone' = gone \cup {n}
        /\ ranOrder' = IF n \in cancelFlag THEN ranOrder ELSE Append(ranOrder, n)
    BY <1>11, <2>n DEF Destroy
  <2>3. /\ Len(destroyList) \in Nat \ {0} /\ DOMAIN destroyList = 1 .. Len(destroyList)
        /\ DOMAIN destroyList' = 1 .. Len(destroyList) - 1
        /\ \A i \in 1 .. Len(destroyList) - 1 : destroyList'[i] = destroyList[i + 1]
        /\ n = destroyList[1] /\ n \in Nat
    <3>1. destroyList \in Seq(Nat) /\ destroyList # <<>>
      BY <1>t, <2>1
    <3>2. /\ Len(destroyList) \in Nat /\ Len(destroyList) # 0
          /\ DOMAIN destroyList = 1 .. Len(destroyList)
      BY <3>1, LenProperties, EmptySeq
    <3>3. /\ Head(destroyList) = destroyList[1] /\ Head(destroyList) \in Nat
          /\ Tail(destroyList) \in Seq(Nat) /\ Len(Tail(destroyList)) = Len(destroyList) - 1
          /\ \A i \in 1 .. Len(Tail(destroyList)) : Tail(destroyList)[i] = destroyList[i + 1]
      BY <3>1, HeadTailProperties
    <3>4. DOMAIN Tail(destroyList) = 1 .. Len(destroyList) - 1
      BY <3>3, LenProperties
    <3> QED
      BY <2>1, <2>n, <3>2, <3>3, <3>4
  <2>4. n \in Created /\ AtEnd(n) /\ n \notin gone /\ OnDestroyList(n)
    BY <1>p, <2>3 DEF DestroyInv, OnDestroyList
  <2>5. /\ Created' = Created
        /\ \A a : (InQueue(a)' <=> InQueue(a)) /\ (InHeap(a)' <=> InHeap(a))
        /\ \A a : (Timed(a)' <=> Timed(a)) /\ (AtEnd(a)' <=> AtEnd(a))
                /\ (HasEventId(a)' <=> HasEventId(a))
    BY <2>1 DEF Created, InQueue, InHeap, Timed, AtEnd, HasEventId, IsDestroy
  <2>6. /\ \A i \in DOMAIN destroyList' : i + 1 \in DOMAIN destroyList /\ i + 1 # 1
        /\ \A i \in DOMAIN destroyList : i = 1 \/ (i - 1 \in DOMAIN destroyList' /\ i - 1 + 1 = i)
        /\ \A i, j \in DOMAIN destroyList' : i + 1 = j + 1 => i = j
        /\ \A i \in DOMAIN destroyList' : destroyList'[i] = destroyList[i + 1]
    BY <2>3
  <2>7. \A i \in DOMAIN destroyList' : OnDestroyList(destroyList'[i]) /\ destroyList'[i] # n
    BY <1>p, <2>3, <2>6, SMTT(60) DEF DestroyInv, OnDestroyList
  <2>8. \A i, j \in DOMAIN destroyList' : destroyList'[i] = destroyList'[j] => i = j
    BY <1>p, <2>6 DEF DestroyInv
  <2>9. /\ \A a : OnDestroyList(a)' => OnDestroyList(a) /\ a # n
        /\ \A a : OnDestroyList(a) => OnDestroyList(a)' \/ a = n
    BY <2>3, <2>6, <2>7 DEF OnDestroyList
  <2>10. ~InHeap(n) /\ ~InQueue(n)
    <3>1. ASSUME NEW e \in heap, e.id = n PROVE FALSE
      <4>1. key[n].uid = e.uid
        BY <1>p, <2>4, <3>1 DEF HeapInv, AtEnd
      <4>2. e.uid > 0
        BY <1>t
      <4> QED
        BY <2>4, <4>1, <4>2 DEF AtEnd, IsDestroy
    <3> QED
      BY <1>p, <2>4, <3>1 DEF QueueInv, AtEnd, InHeap
  <2>11. HeapInv'
    BY <1>p, <2>1, <2>2, <2>5, <2>10 DEF HeapInv, InHeap
  <2>12. QueueInv'
    <3>1. \A a \in Created' : InQueue(a)' => ~HasEventId(a)' /\ ~InHeap(a)' /\ a \notin gone'
      BY <1>p, <2>2, <2>5, <2>10 DEF QueueInv
    <3> QED
      BY <1>p, <2>1, <2>5, <3>1 DEF QueueInv
  <2>13. DestroyInv'
    <3>1. \A a \in Created' : OnDestroyList(a)' => AtEnd(a)' /\ a \notin gone'
      BY <1>p, <2>2, <2>5, <2>9 DEF DestroyInv
    <3>2. \A i \in DOMAIN destroyList' : destroyList'[i] \in Created'
      BY <1>p, <2>5, <2>7 DEF DestroyInv, OnDestroyList
    <3> QED
      BY <2>8, <3>1, <3>2 DEF DestroyInv
  <2>14. NoneMissing'
    BY <1>p, <2>1, <2>2, <2>5, <2>9 DEF NoneMissing
  <2>15. RanAreGone'
    BY <1>p, <1>t, <2>2, <2>3, <2>4, Appended, SMTT(60) DEF RanAreGone
  <2> QED
    BY <2>11, <2>12, <2>13, <2>14, <2>15 DEF PlacesInv
<1>12. ASSUME DestroyReturn PROVE PlacesInv'
  BY <1>12, QuietPlaces DEF DestroyReturn
<1>13. ASSUME DoDispose PROVE PlacesInv'
  <2>1. /\ heap' = {} /\ queued' = <<>> /\ DOMAIN queued' = {} /\ at' = "disposed"
        /\ UNCHANGED <<key, clock, destroyList, ranOrder, gone>>
    BY <1>13, EmptySeq DEF DoDispose
  <2>2. IsFiniteSet(heap')
    BY <2>1, FS_EmptySet
  <2>3. HeapInv' /\ QueueInv' /\ DestroyInv' /\ RanAreGone'
    BY <1>p, <2>1, <2>2 DEF HeapInv, QueueInv, DestroyInv, RanAreGone, Created, AtEnd, InQueue,
       OnDestroyList, HasEventId, IsDestroy
  <2>4. NoneMissing'
    BY <1>p, <2>1 DEF NoneMissing, Created, Timed, AtEnd, OnDestroyList, HasEventId, IsDestroy
  <2> QED
    BY <2>3, <2>4 DEF PlacesInv
<1>14. ASSUME UNCHANGED schedVars PROVE PlacesInv'
  BY <1>14, QuietPlaces DEF schedVars
<1> QED
  BY <1>1, <1>2, <1>3, <1>4, <1>5, <1>6, <1>7, <1>8, <1>9, <1>10, <1>11, <1>12, <1>13, <1>14
  DEF SchedNext

----------------------------------------------------------------------------
(* Order.                                                                  *)

\* n more uids, while there are that many.
LEMMA UidAfterIs ==
  ASSUME SchedTypeOK, nextUid = IF uidsTaken = Uids THEN UidValid ELSE NewUid,
         NEW n \in Nat, uidsTaken + n <= Uids
  PROVE  UidAfter(n) = IF uidsTaken + n = Uids THEN UidValid ELSE NewUid + n
<1>1. uidsTaken \in Nat /\ Uids \in Nat /\ Uids > 1 /\ UidValid \in Nat
  BY Constants DEF SchedTypeOK
<1>2. UidAfter(n) = UidValid + ((nextUid - UidValid + n) % Uids)
  BY DEF UidAfter, Uids
<1>3. CASE uidsTaken = Uids
  <2>1. n = 0 /\ nextUid - UidValid + n = 0 /\ 0 < Uids
    BY <1>1, <1>3
  <2>2. 0 % Uids = 0
    BY <2>1, Modulo
  <2>3. UidAfter(n) = UidValid + (0 % Uids)
    BY <1>2, <2>1
  <2> QED
    BY <1>1, <1>3, <2>1, <2>2, <2>3
<1>4. CASE uidsTaken # Uids
  <2> DEFINE m == uidsTaken + n
  <2>1. nextUid - UidValid + n = m /\ m \in Nat /\ m <= Uids /\ NewUid + n = UidValid + m
    BY <1>1, <1>4 DEF NewUid
  <2>2. UidAfter(n) = UidValid + (m % Uids)
    BY <1>2, <2>1
  <2> HIDE DEF m
  <2>3. m % Uids = IF m = Uids THEN 0 ELSE m
    BY <1>1, <2>1, Modulo
  <2> DEFINE r == m % Uids
  <2>4. UidAfter(n) = UidValid + r /\ r = IF m = Uids THEN 0 ELSE m
    BY <2>2, <2>3
  <2> HIDE DEF r
  <2>5. UidAfter(n) = IF m = Uids THEN UidValid ELSE NewUid + n
    BY <1>1, <2>1, <2>4
  <2> QED
    BY <2>5 DEF m
<1> QED
  BY <1>3, <1>4

\* One more uid.
LEMMA NextUidIs ==
  ASSUME SchedTypeOK, nextUid = IF uidsTaken = Uids THEN UidValid ELSE NewUid,
         TakeUid, uidsTaken' <= Uids
  PROVE  /\ nextUid = NewUid /\ uidsTaken' = uidsTaken + 1 /\ NewUid' = NewUid + 1
         /\ nextUid' = IF uidsTaken' = Uids THEN UidValid ELSE NewUid'
<1>1. uidsTaken \in Nat /\ uidsTaken' = uidsTaken + 1 /\ nextUid' = NextUid
  BY DEF SchedTypeOK, TakeUid
<1>2. nextUid = NewUid
  BY <1>1, Constants
<1> QED
  BY <1>1, <1>2, Constants DEF NewUid, NextUid

\* Neither the heap nor the clock moves.
LEMMA QuietOrder ==
  ASSUME OrderInv, cancelFlag \subseteq cancelFlag', at' # "disposed" => at # "disposed",
         UNCHANGED <<heap, key, nextUid, uidsTaken, clock, currentUid, unscheduled, ranOrder, gone>>
  PROVE  OrderInv'
<1>1. UidsDistinct' => UidsInTurn /\ Parted /\ InOrder /\ Counted
  BY DEF OrderInv, UidsDistinct
<1>2. UidsInTurn => UidsInTurn'
  BY DEF UidsInTurn, NewUid, Created, Timed, HasEventId, IsDestroy
<1>3. Parted => Parted'
  BY DEF Parted, Past, Timed, HasEventId, IsDestroy
<1>4. InOrder /\ Counted => InOrder' /\ Counted'
  BY DEF InOrder, Counted, Timed, HasEventId, IsDestroy
<1> QED
  BY <1>1, <1>2, <1>3, <1>4 DEF OrderInv

\* Queued events come into the heap, with the uids that follow.
LEMMA TakeOrder ==
  ASSUME SchedTypeOK, PlacesInv, OrderInv, TakeQueued, at # "disposed",
         UNCHANGED <<key, clock, currentUid, cancelFlag, ranOrder, gone>>
  PROVE  OrderInv'
<1> SUFFICES ASSUME UidsDistinct' PROVE UidsInTurn' /\ Parted' /\ InOrder' /\ Counted'
  BY DEF OrderInv
<1> DEFINE n == Len(queued)
<1>1. /\ n \in Nat /\ DOMAIN queued = 1 .. n /\ heap' = heap \cup Entries
      /\ \A i \in 1 .. n : Entry(i).ts \in Nat /\ Entry(i).ts >= clock
  BY EntriesAre
<1>2. /\ uidsTaken' = uidsTaken + n /\ unscheduled' = unscheduled + n
      /\ nextUid' = UidAfter(n) /\ uidsTaken \in Nat /\ uidsTaken + n <= Uids
      /\ unscheduled \in Int /\ clock \in Nat /\ currentUid \in Nat
      /\ \A e \in heap : e.ts \in Nat /\ e.uid \in Nat
  BY SMTT(40), Constants DEF SchedTypeOK, TakeQueued, UidsDistinct, Uids
<1>3. UidsInTurn /\ Parted /\ InOrder /\ Counted
  BY <1>1, <1>2, Constants DEF OrderInv, UidsDistinct, Uids
<1>4. NewUid \in Nat /\ NewUid' = NewUid + n
  BY <1>1, <1>2, Constants DEF NewUid
<1> HIDE DEF n
<1>5. nextUid' = IF uidsTaken' = Uids THEN UidValid ELSE NewUid'
  BY <1>1, <1>2, <1>3, <1>4, UidAfterIs DEF UidsInTurn
<1>6. ASSUME NEW i \in 1 .. n PROVE Entry(i).uid = NewUid + (i - 1)
  <2>1. i - 1 \in Nat /\ uidsTaken + (i - 1) < Uids
    BY <1>1, <1>2, Constants
  <2>2. UidAfter(i - 1) = NewUid + (i - 1)
    BY <1>2, <1>3, <2>1, UidAfterIs, Constants DEF UidsInTurn
  <2> QED
    BY <2>2 DEF Entry
<1>7. \A e \in Entries : \E i \in 1 .. n : e = Entry(i)
  BY <1>1 DEF Entries
<1>8. ASSUME NEW e \in Entries
      PROVE  e.ts \in Nat /\ e.ts >= clock /\ e.uid \in Nat /\ e.uid >= NewUid /\ e.uid < NewUid'
  <2>1. PICK i \in 1 .. n : e = Entry(i)
    BY <1>7
  <2>2. e.uid = NewUid + (i - 1) /\ e.ts \in Nat /\ e.ts >= clock
    BY <1>1, <1>6, <2>1
  <2> QED
    BY <1>1, <1>4, <2>2
<1>9. \A e, f \in Entries : e.uid = f.uid => e = f
  <2>1. SUFFICES ASSUME NEW e \in Entries, NEW f \in Entries, e.uid = f.uid PROVE e = f
    OBVIOUS
  <2>2. PICK i \in 1 .. n : e = Entry(i)
    BY <1>7
  <2>3. PICK j \in 1 .. n : f = Entry(j)
    BY <1>7
  <2>4. NewUid + (i - 1) = NewUid + (j - 1)
    BY <1>6, <2>1, <2>2, <2>3
  <2>5. i = j
    BY <1>1, <1>4, <2>4
  <2> QED
    BY <2>2, <2>3, <2>5
<1>10. UidsInTurn'
  <2>1. \A e \in heap : e.uid < NewUid
    BY <1>3 DEF UidsInTurn
  <2>2. currentUid < NewUid' /\ \A e \in heap' : e.uid < NewUid'
    BY <1>1, <1>2, <1>3, <1>4, <1>8, <2>1 DEF UidsInTurn
  <2>3. \A e, f \in heap' : e.uid = f.uid => e = f
    <3>1. \A e \in heap, f \in Entries : e.uid # f.uid
      BY <1>2, <1>4, <1>8, <2>1
    <3> QED
      BY <1>1, <1>3, <1>9, <3>1 DEF UidsInTurn
  <2>4. /\ \A id \in Created' : Timed(id)' => key'[id].uid < NewUid'
        /\ \A a, b \in Created' : Timed(a)' /\ Timed(b)' /\ a < b => key'[a].uid < key'[b].uid
    <3>1. Created' = Created /\ \A id : (Timed(id)' <=> Timed(id)) /\ key'[id] = key[id]
      BY DEF Created, Timed, HasEventId, IsDestroy
    <3>2. \A id \in Created : key[id].uid \in Nat
      BY KeysAre
    <3>3. \A id \in Created : Timed(id) => key[id].uid < NewUid'
      BY <1>1, <1>3, <1>4, <3>2 DEF UidsInTurn
    <3> QED
      BY <1>3, <3>1, <3>3 DEF UidsInTurn
  <2> QED
    BY <1>5, <2>2, <2>3, <2>4 DEF UidsInTurn
<1>11. Parted'
  <2>1. \A e \in heap' : ~Past(e.ts, e.uid)
    BY <1>1, <1>2, <1>3, <1>4, <1>8 DEF Parted, Past, UidsInTurn
  <2> QED
    BY <1>3, <2>1 DEF Parted, Past, Timed, HasEventId, IsDestroy
<1>12. InOrder'
  BY <1>3 DEF InOrder, Timed, HasEventId, IsDestroy
<1>13. Counted'
  BY <1>1, <1>2, <1>3, EntriesCount DEF n, PlacesInv, Counted
<1> QED
  BY <1>10, <1>11, <1>12, <1>13

\* The order of what ran depends on the keys of what ran.
LEMMA OrderKept ==
  ASSUME InOrder, ranOrder' = ranOrder,
         \A i \in DOMAIN ranOrder : ranOrder[i] \in Created,
         \A id \in Created : key'[id] = key[id]
  PROVE  InOrder'
<1> SUFFICES ASSUME NEW i \in DOMAIN ranOrder, NEW j \in DOMAIN ranOrder, i < j,
                    NEW a, a = ranOrder[i], NEW b, b = ranOrder[j], Timed(a)', Timed(b)'
             PROVE  key'[a].ts < key'[b].ts \/ (key'[a].ts = key'[b].ts /\ key'[a].uid < key'[b].uid)
  BY DEF InOrder, Timed, HasEventId, IsDestroy
<1>1. key'[a] = key[a] /\ key'[b] = key[b]
  OBVIOUS
<1>2. Timed(a) /\ Timed(b)
  BY <1>1 DEF Timed, HasEventId, IsDestroy
<1>3. key[a].ts < key[b].ts \/ (key[a].ts = key[b].ts /\ key[a].uid < key[b].uid)
  BY <1>2 DEF InOrder
<1> QED
  BY <1>1, <1>3

\* An event is created that does not go into the heap.
LEMMA UntimedOrder ==
  ASSUME SchedTypeOK, PlacesInv, OrderInv, NEW k \in Keys, k.ts < 0 \/ k.uid = 0,
         key' = Append(key, k), TakeUid \/ UNCHANGED <<nextUid, uidsTaken>>,
         UNCHANGED <<heap, unscheduled, clock, currentUid, cancelFlag, at, ranOrder, gone>>
  PROVE  OrderInv'
<1> SUFFICES ASSUME UidsDistinct' PROVE UidsInTurn' /\ Parted' /\ InOrder' /\ Counted'
  BY DEF OrderInv
<1>1. /\ uidsTaken \in Nat /\ NewUid \in Nat /\ Id \in Nat /\ gone \subseteq Created
      /\ currentUid \in Nat /\ \A e \in heap : e.uid \in Nat
  BY Constants, LenProperties DEF SchedTypeOK, Id, NewUid
<1>2. \A i \in DOMAIN ranOrder : ranOrder[i] \in Created
  BY <1>1 DEF PlacesInv, RanAreGone
<1>3. UidsInTurn /\ Parted /\ InOrder /\ Counted /\ uidsTaken' <= Uids
  BY <1>1, Constants DEF OrderInv, UidsDistinct, TakeUid, Uids
<1>n. PICK n \in Nat : n = Id
  BY <1>1
<1>4. /\ Created' = Created \cup {n} /\ n \notin Created /\ key'[n] = k
      /\ \A id \in Created : key'[id] = key[id]
      /\ \A id \in Created : Timed(id)' <=> Timed(id)
  BY <1>n, NewKey
<1>5. ~Timed(n)'
  BY <1>4 DEF Timed, HasEventId, IsDestroy, Keys
<1>6. /\ NewUid' \in Nat /\ NewUid <= NewUid'
      /\ nextUid' = IF uidsTaken' = Uids THEN UidValid ELSE NewUid'
  <2>1. CASE TakeUid
    BY <1>1, <1>3, <2>1, NextUidIs DEF UidsInTurn
  <2>2. CASE UNCHANGED <<nextUid, uidsTaken>>
    BY <1>1, <1>3, <2>2 DEF UidsInTurn, NewUid
  <2> QED
    BY <2>1, <2>2
<1>7. UidsInTurn'
  <2>1. \A id \in Created : key[id].uid \in Nat
    BY KeysAre
  <2>2. /\ currentUid' < NewUid' /\ \A e \in heap' : e.uid < NewUid'
        /\ \A e, f \in heap' : e.uid = f.uid => e = f
    BY <1>1, <1>3, <1>6 DEF UidsInTurn
  <2>3. \A id \in Created' : Timed(id)' => key'[id].uid < NewUid'
    <3> SUFFICES ASSUME NEW id \in Created, Timed(id) PROVE key[id].uid < NewUid'
      BY <1>4, <1>5
    <3>1. key[id].uid < NewUid
      BY <1>3 DEF UidsInTurn
    <3> QED
      BY <1>1, <1>6, <2>1, <3>1
  <2>4. \A a, b \in Created' : Timed(a)' /\ Timed(b)' /\ a < b => key'[a].uid < key'[b].uid
    BY ZenonT(40), <1>3, <1>4, <1>5 DEF UidsInTurn
  <2> QED
    BY <1>6, <2>2, <2>3, <2>4 DEF UidsInTurn
<1>8. Parted'
  <2>1. \A id \in gone' : Timed(id)' => id \in cancelFlag' \/ Past(key'[id].ts, key'[id].uid)
    BY <1>1, <1>3, <1>4 DEF Parted
  <2>2. \A i \in DOMAIN ranOrder : LET a == ranOrder[i] IN
          /\ Timed(a) => Past(key[a].ts, key[a].uid)
          /\ a \in Created /\ key'[a] = key[a]
    BY <1>2, <1>3, <1>4 DEF Parted
  <2> QED
    BY ZenonT(40), <1>3, <2>1, <2>2 DEF Parted, Past, Timed, HasEventId, IsDestroy
<1>9. InOrder'
  BY <1>2, <1>3, <1>4, OrderKept
<1>10. Counted'
  BY <1>3 DEF Counted
<1> QED
  BY <1>7, <1>8, <1>9, <1>10

LEMMA OrderStep == ASSUME SchedTypeOK, PlacesInv, OrderInv, [SchedNext]_schedVars PROVE OrderInv'
<1> USE DEF keyVars, timeVars
<1>t. /\ \A e \in heap : e.id \in Nat /\ e.ts \in Nat /\ e.uid \in Nat /\ e.uid > 0
      /\ clock \in Nat /\ currentUid \in Nat /\ unscheduled \in Int /\ uidsTaken \in Nat
      /\ nextUid \in Nat /\ nextUid > 0 /\ gone \subseteq Created /\ cancelFlag \subseteq Created
      /\ destroyList \in Seq(Nat) /\ ranOrder \in Seq(Nat) /\ Id \in Nat /\ NewUid \in Nat
  BY Constants, LenProperties DEF SchedTypeOK, Id, NewUid
<1>p. HeapInv /\ QueueInv /\ DestroyInv /\ NoneMissing /\ RanAreGone
  BY DEF PlacesInv
<1>c. \A id \in Created : id \in Nat /\ key[id].ts \in Int /\ key[id].uid \in Nat /\ id < Id
  BY KeysAre
<1>o. UidsDistinct => UidsInTurn /\ Parted /\ InOrder /\ Counted
  BY DEF OrderInv
<1>r. \A i \in DOMAIN ranOrder : ranOrder[i] \in Created
  BY <1>p, <1>t DEF RanAreGone
<1>1. ASSUME NEW delay \in 0 .. MaxDelay, HostSchedule(delay) PROVE OrderInv'
  <2> DEFINE e0 == [id |-> Id, ts |-> clock + delay, uid |-> nextUid]
             k0 == [ts |-> clock + delay, uid |-> nextUid]
  <2> SUFFICES ASSUME UidsDistinct' PROVE UidsInTurn' /\ Parted' /\ InOrder' /\ Counted'
    BY DEF OrderInv
  <2>1. /\ k0 \in Keys /\ key' = Append(key, k0) /\ heap' = heap \cup {e0}
        /\ TakeUid /\ unscheduled' = unscheduled + 1 /\ at # "disposed"
        /\ UNCHANGED <<timeVars, ranOrder, gone, cancelFlag>>
    BY <1>1, <1>t, Constants DEF HostSchedule, OnMainThread, Keys
  <2>2. /\ e0.id = Id /\ e0.ts \in Nat /\ e0.ts >= clock /\ e0.uid = nextUid
        /\ k0.ts >= 0 /\ k0.uid = nextUid
    BY <1>t, Constants
  <2> HIDE DEF e0, k0
  <2>n. PICK n \in Nat : n = Id
    BY <1>t
  <2>3. /\ Created' = Created \cup {n} /\ n \notin Created /\ key'[n] = k0
        /\ \A id \in Created : key'[id] = key[id]
        /\ \A id \in Created : Timed(id)' <=> Timed(id)
    BY <2>1, <2>n, NewKey
  <2>4. UidsDistinct /\ uidsTaken' <= Uids
    BY <1>t, <2>1, Constants DEF UidsDistinct, TakeUid, Uids
  <2>5. UidsInTurn /\ Parted /\ InOrder /\ Counted
    BY <1>o, <2>4
  <2>6. /\ nextUid = NewUid /\ NewUid' = NewUid + 1
        /\ nextUid' = IF uidsTaken' = Uids THEN UidValid ELSE NewUid'
    BY <2>1, <2>4, <2>5, NextUidIs DEF UidsInTurn
  <2>7. UidsInTurn'
    <3>1. currentUid' < NewUid' /\ \A e \in heap' : e.uid < NewUid'
      BY <1>t, <2>1, <2>2, <2>5, <2>6 DEF UidsInTurn
    <3>2. \A e, f \in heap' : e.uid = f.uid => e = f
      <4>1. \A e \in heap : e.uid # e0.uid
        BY <1>t, <2>2, <2>5, <2>6 DEF UidsInTurn
      <4> QED
        BY <2>1, <2>5, <4>1 DEF UidsInTurn
    <3>3. \A id \in Created' : Timed(id)' => key'[id].uid < NewUid'
      <4>1. ASSUME NEW id \in Created, Timed(id) PROVE key[id].uid < NewUid'
        <5>1. key[id].uid < NewUid
          BY <2>5, <4>1 DEF UidsInTurn
        <5> QED
          BY <1>t, <1>c, <2>6, <5>1
      <4>2. key'[n].uid < NewUid'
        BY <1>t, <2>2, <2>3, <2>6
      <4> QED
        BY <2>3, <4>1, <4>2
    <3>4. \A a, b \in Created' : Timed(a)' /\ Timed(b)' /\ a < b => key'[a].uid < key'[b].uid
      <4> SUFFICES ASSUME NEW a \in Created', NEW b \in Created', Timed(a)', Timed(b)', a < b
                   PROVE  key'[a].uid < key'[b].uid
        OBVIOUS
      <4>1. a \in Created
        BY <1>c, <2>n, <2>3
      <4>2. CASE b \in Created
        BY <2>3, <2>5, <4>1, <4>2 DEF UidsInTurn
      <4>3. CASE b = n
        BY <2>2, <2>3, <2>5, <2>6, <4>1, <4>3 DEF UidsInTurn
      <4> QED
        BY <2>3, <4>2, <4>3
    <3> QED
      BY <2>6, <3>1, <3>2, <3>3, <3>4 DEF UidsInTurn
  <2>8. Parted'
    <3>1. \A e \in heap' : ~Past(e.ts, e.uid)'
      BY <1>t, <2>1, <2>2, <2>5, <2>6 DEF Parted, Past, UidsInTurn
    <3>2. \A id \in gone' : Timed(id)' => id \in cancelFlag' \/ Past(key'[id].ts, key'[id].uid)
      BY <1>t, <2>1, <2>3, <2>5 DEF Parted
    <3>3. \A i \in DOMAIN ranOrder : LET a == ranOrder[i] IN
            /\ Timed(a) => Past(key[a].ts, key[a].uid)
            /\ a \in Created /\ key'[a] = key[a]
      BY <1>r, <2>3, <2>5 DEF Parted
    <3> QED
      BY <2>1, <3>1, <3>2, <3>3 DEF Parted, Past, Timed, HasEventId, IsDestroy
  <2>9. InOrder'
    BY <1>r, <2>1, <2>3, <2>5, OrderKept
  <2>10. Counted'
    <3>1. e0 \notin heap /\ IsFiniteSet(heap) /\ Cardinality(heap) \in Nat
      BY <1>p, <1>c, <2>n, <2>2, <2>3, FS_CardinalityType DEF HeapInv
    <3>2. Cardinality(heap') = Cardinality(heap) + 1
      BY <2>1, <3>1, FS_AddElement
    <3> QED
      BY <1>t, <2>1, <2>5, <3>2 DEF Counted
  <2> QED
    BY <2>7, <2>8, <2>9, <2>10
<1>2. ASSUME NEW delay \in 0 .. MaxDelay, QueueEvent(delay) PROVE OrderInv'
  <2>1. /\ [ts |-> -1, uid |-> 0] \in Keys /\ key' = Append(key, [ts |-> -1, uid |-> 0])
        /\ [ts |-> -1, uid |-> 0].ts < 0
        /\ UNCHANGED <<heap, nextUid, unscheduled, uidsTaken, timeVars, cancelFlag, at, ranOrder, gone>>
    BY <1>2 DEF QueueEvent, Keys
  <2> QED
    BY <2>1, UntimedOrder
<1>3. ASSUME ScheduleDestroy PROVE OrderInv'
  <2> DEFINE k0 == [ts |-> clock, uid |-> 0]
  <2>1. k0 \in Keys /\ k0.uid = 0
    BY <1>t DEF Keys
  <2>2. /\ key' = Append(key, k0) /\ TakeUid
        /\ UNCHANGED <<heap, unscheduled, timeVars, cancelFlag, at, ranOrder, gone>>
    BY <1>3 DEF ScheduleDestroy
  <2> HIDE DEF k0
  <2> QED
    BY <2>1, <2>2, UntimedOrder
<1>4. ASSUME NEW id \in Created, Cancel(id) PROVE OrderInv'
  BY <1>4, QuietOrder DEF Cancel
<1>5. ASSUME NEW id \in Created, RemoveEvent(id) PROVE OrderInv'
  <2>1. /\ gone' = gone \cup {id} /\ HasEventId(id) /\ at # "disposed"
        /\ UNCHANGED <<key, nextUid, uidsTaken, timeVars, at, ranOrder>>
    BY <1>5 DEF RemoveEvent, OnMainThread
  <2>2. UidsDistinct' => UidsInTurn /\ Parted /\ InOrder /\ Counted
    BY <1>o, <2>1 DEF UidsDistinct
  <2>3. CASE IsDestroy(id)
    <3>1. UNCHANGED <<heap, unscheduled, cancelFlag>>
      BY <1>5, <2>3 DEF RemoveEvent
    <3>2. ~Timed(id)
      BY <2>3 DEF Timed
    <3>3. UidsInTurn => UidsInTurn'
      BY <2>1, <3>1 DEF UidsInTurn, NewUid, Created, Timed, HasEventId, IsDestroy
    <3>4. Parted => Parted'
      BY <2>1, <3>1, <3>2 DEF Parted, Past, Timed, HasEventId, IsDestroy
    <3>5. InOrder /\ Counted => InOrder' /\ Counted'
      BY <2>1, <3>1 DEF InOrder, Counted, Timed, HasEventId, IsDestroy
    <3> QED
      BY <2>2, <3>3, <3>4, <3>5 DEF OrderInv
  <2>4. CASE ~IsDestroy(id)
    <3>1. /\ ~IsExpired(id) /\ heap' = {e \in heap : e.id # id}
          /\ cancelFlag' = cancelFlag \cup {id} /\ unscheduled' = unscheduled - 1
      BY <1>5, <2>4 DEF RemoveEvent
    <3>2. UidsInTurn => UidsInTurn'
      BY <2>1, <3>1 DEF UidsInTurn, NewUid, Created, Timed, HasEventId, IsDestroy
    <3>3. Parted => Parted'
      BY <2>1, <3>1 DEF Parted, Past, Timed, HasEventId, IsDestroy
    <3>4. InOrder => InOrder'
      BY <2>1 DEF InOrder, Timed, HasEventId, IsDestroy
    <3>5. Parted /\ Counted => Counted'
      <4> SUFFICES ASSUME Parted, Counted PROVE Counted'
        OBVIOUS
      <4>1. Timed(id) /\ id \notin cancelFlag /\ ~Past(key[id].ts, key[id].uid)
        BY <1>t, <1>c, <2>1, <2>4, <3>1 DEF Timed, IsExpired, Past
      <4>2. id \notin gone
        BY <4>1 DEF Parted
      <4>3. PICK e \in heap : e.id = id
        BY <1>p, <2>1, <4>1, <4>2 DEF NoneMissing, InHeap
      <4>4. heap' = heap \ {e}
        BY <1>p, <3>1, <4>3 DEF HeapInv
      <4>5. Cardinality(heap') = Cardinality(heap) - 1
        BY <1>p, <4>3, <4>4, FS_RemoveElement DEF HeapInv
      <4> QED
        BY <2>1, <3>1, <4>5 DEF Counted
    <3> QED
      BY <2>2, <3>2, <3>3, <3>4, <3>5 DEF OrderInv
  <2> QED
    BY <2>3, <2>4
<1>6. ASSUME HostStop PROVE OrderInv'
  BY <1>6, QuietOrder DEF HostStop
<1>7. ASSUME RunStart PROVE OrderInv'
  BY <1>7, TakeOrder DEF RunStart
<1>8. ASSUME HostProcessOneEvent PROVE OrderInv'
  <2> SUFFICES ASSUME UidsDistinct' PROVE UidsInTurn' /\ Parted' /\ InOrder' /\ Counted'
    BY DEF OrderInv
  <2>1. PICK e \in heap :
          /\ \A f \in heap \ {e} : ~Before(f, e)
          /\ heap' = heap \ {e} /\ clock' = e.ts /\ currentUid' = e.uid
          /\ ranOrder' = IF e.id \in cancelFlag THEN ranOrder ELSE Append(ranOrder, e.id)
          /\ gone' = gone \cup {e.id}
          /\ at' = IF e.id \in cancelFlag THEN "returned" ELSE "handler"
    BY <1>8 DEF HostProcessOneEvent
  <2>2. UNCHANGED <<key, nextUid, uidsTaken, cancelFlag>> /\ at # "disposed"
        /\ unscheduled' = unscheduled - 1
    BY <1>8 DEF HostProcessOneEvent
  <2>3. UidsInTurn /\ Parted /\ InOrder /\ Counted
    BY <1>o, <2>2 DEF UidsDistinct
  <2>n. PICK n \in Nat : n = e.id
    BY <1>t
  <2>4. /\ n \in Created /\ n \notin gone /\ ~Past(e.ts, e.uid) /\ e.ts >= clock
        /\ e.ts \in Nat /\ e.uid \in Nat
        /\ Timed(n) => key[n].ts = e.ts /\ key[n].uid = e.uid
    BY <1>p, <1>t, <2>3, <2>n DEF HeapInv, Parted, Timed
  <2>5. \A ts, uid \in Int : Past(ts, uid) => Past(ts, uid)' /\ (ts < e.ts \/ (ts = e.ts /\ uid < e.uid))
    BY <1>t, <2>1, <2>4 DEF Past
  <2>6. Timed(n) => Past(key[n].ts, key[n].uid)'
    BY <1>t, <2>1, <2>2, <2>4 DEF Past
  <2>7. UidsInTurn'
    <3>1. UNCHANGED <<nextUid, uidsTaken, key>> /\ heap' \subseteq heap /\ currentUid' < NewUid
      BY <2>1, <2>2, <2>3 DEF UidsInTurn
    <3> QED
      BY <2>3, <3>1 DEF UidsInTurn, NewUid, Created, Timed, HasEventId, IsDestroy
  <2>8. Parted'
    <3>1. ASSUME NEW f \in heap' PROVE ~Past(f.ts, f.uid)'
      <4>1. f \in heap /\ f # e /\ f.uid # e.uid /\ ~Before(f, e)
        BY <2>1, <2>3 DEF UidsInTurn
      <4> QED
        BY <1>t, <2>1, <4>1 DEF Past, Before
    <3>2. ASSUME NEW id \in gone', Timed(id)
          PROVE  id \in cancelFlag \/ Past(key[id].ts, key[id].uid)'
      <4>1. CASE id = n
        BY <2>6, <3>2, <4>1
      <4>2. CASE id \in gone
        <5>1. PICK ts \in Int, uid \in Int : ts = key[id].ts /\ uid = key[id].uid
          BY SMTT(40), <1>c, <1>t, <4>2
        <5>2. id \in cancelFlag \/ Past(ts, uid)
          BY <2>3, <3>2, <4>2, <5>1 DEF Parted
        <5>3. Past(ts, uid) => Past(ts, uid)'
          BY <2>5
        <5>4. Past(key[id].ts, key[id].uid)' <=> Past(ts, uid)'
          BY <2>2, <5>1 DEF Past
        <5> QED
          BY <5>2, <5>3, <5>4
      <4> QED
        BY <2>1, <2>n, <4>1, <4>2
    <3>3. ASSUME NEW i \in DOMAIN ranOrder', NEW a, a = ranOrder'[i], Timed(a)
          PROVE  Past(key[a].ts, key[a].uid)'
      <4>1. a = n \/ \E j \in DOMAIN ranOrder : a = ranOrder[j]
        BY <1>t, <2>1, <2>n, <3>3, Appended
      <4>2. CASE a = n
        BY <2>6, <3>3, <4>2
      <4>3. ASSUME NEW j \in DOMAIN ranOrder, a = ranOrder[j] PROVE Past(key[a].ts, key[a].uid)'
        BY <1>c, <1>r, <2>2, <2>3, <2>5, <3>3, <4>3 DEF Parted, Past
      <4> QED
        BY <4>1, <4>2, <4>3
    <3> QED
      BY <2>2, <3>1, <3>2, <3>3 DEF Parted, Past, Timed, HasEventId, IsDestroy
  <2>9. InOrder'
    <3> SUFFICES ASSUME NEW i \in DOMAIN ranOrder', NEW j \in DOMAIN ranOrder', i < j,
                        NEW a, a = ranOrder'[i], NEW b, b = ranOrder'[j], Timed(a), Timed(b)
                 PROVE  key[a].ts < key[b].ts \/ (key[a].ts = key[b].ts /\ key[a].uid < key[b].uid)
      BY <2>2 DEF InOrder, Timed, HasEventId, IsDestroy
    <3>1. CASE ranOrder' = ranOrder
      BY <2>3, <3>1 DEF InOrder
    <3>2. CASE ranOrder' = Append(ranOrder, n)
      <4>1. /\ Len(ranOrder) \in Nat /\ DOMAIN ranOrder = 1 .. Len(ranOrder)
            /\ DOMAIN ranOrder' = 1 .. Len(ranOrder) + 1
            /\ \A k \in DOMAIN ranOrder : ranOrder'[k] = ranOrder[k]
            /\ ranOrder'[Len(ranOrder) + 1] = n
        BY <1>t, <3>2, Appended, SMTT(60)
      <4>2. i \in DOMAIN ranOrder /\ a = ranOrder[i]
        BY <4>1
      <4>3. CASE j \in DOMAIN ranOrder
        BY <2>3, <4>1, <4>2, <4>3 DEF InOrder
      <4>4. CASE j = Len(ranOrder) + 1
        <5>1. Past(key[a].ts, key[a].uid) /\ a \in Created
          BY <1>r, <2>3, <4>2 DEF Parted
        <5>2. key[b].ts = e.ts /\ key[b].uid = e.uid
          BY <2>4, <4>1, <4>4
        <5> QED
          BY <1>c, <2>5, <5>1, <5>2
      <4> QED
        BY <4>1, <4>3, <4>4
    <3> QED
      BY <2>1, <2>n, <3>1, <3>2
  <2>10. Counted'
    BY <1>p, <2>1, <2>2, <2>3, FS_RemoveElement DEF HeapInv, Counted
  <2> QED
    BY <2>7, <2>8, <2>9, <2>10
<1>9. ASSUME HostReturn PROVE OrderInv'
  BY <1>9, TakeOrder DEF HostReturn
<1>10. ASSUME RunEnd PROVE OrderInv'
  BY <1>10, QuietOrder DEF RunEnd
<1>11. ASSUME Destroy PROVE OrderInv'
  <2> SUFFICES ASSUME UidsDistinct' PROVE UidsInTurn' /\ Parted' /\ InOrder' /\ Counted'
    BY DEF OrderInv
  <2>n. PICK n : n = Head(destroyList)
    OBVIOUS
  <2>1. /\ UNCHANGED <<keyVars, timeVars, cancelFlag>> /\ at # "disposed"
        /\ gone' = gone \cup {n} /\ destroyList # <<>>
        /\ ranOrder' = ranOrder \/ ranOrder' = Append(ranOrder, n)
    BY <1>11, <2>n DEF Destroy
  <2>2. UidsInTurn /\ Parted /\ InOrder /\ Counted
    BY <1>o, <2>1 DEF UidsDistinct
  <2>3. n \in Nat /\ ~Timed(n)
    <3>1. n = destroyList[1] /\ 1 \in DOMAIN destroyList /\ n \in Nat
      BY <1>t, <2>1, <2>n
    <3> QED
      BY <1>p, <3>1 DEF DestroyInv, OnDestroyList, AtEnd, Timed
  <2>4. \A i \in DOMAIN ranOrder' : ranOrder'[i] = n \/ (i \in DOMAIN ranOrder /\ ranOrder'[i] = ranOrder[i])
    BY <1>t, <2>1, <2>3, Appended, SMTT(60)
  <2>5. UidsInTurn'
    BY <2>1, <2>2 DEF UidsInTurn, NewUid, Created, Timed, HasEventId, IsDestroy
  <2>6. Parted'
    BY <2>1, <2>2, <2>3, <2>4 DEF Parted, Past, Timed, HasEventId, IsDestroy
  <2>7. InOrder'
    BY <2>1, <2>2, <2>3, <2>4 DEF InOrder, Timed, HasEventId, IsDestroy
  <2>8. Counted'
    BY <2>1, <2>2 DEF Counted
  <2> QED
    BY <2>5, <2>6, <2>7, <2>8
<1>12. ASSUME DestroyReturn PROVE OrderInv'
  BY <1>12, QuietOrder DEF DestroyReturn
<1>13. ASSUME DoDispose PROVE OrderInv'
  <2> SUFFICES ASSUME UidsDistinct' PROVE UidsInTurn' /\ Parted' /\ InOrder' /\ Counted'
    BY DEF OrderInv
  <2> DEFINE n == Len(queued)
  <2>1. /\ nextUid' = UidAfter(n) /\ uidsTaken' = uidsTaken + n /\ heap' = {} /\ at' = "disposed"
        /\ UNCHANGED <<key, timeVars, cancelFlag, ranOrder, gone>>
    BY <1>13 DEF DoDispose
  <2>2. n \in Nat
    BY EntriesAre
  <2> HIDE DEF n
  <2>3. uidsTaken + n <= Uids /\ UidsInTurn /\ Parted /\ InOrder
    BY <1>o, <1>t, <2>1, <2>2, Constants DEF UidsDistinct, Uids
  <2>4. /\ nextUid' = IF uidsTaken' = Uids THEN UidValid ELSE NewUid'
        /\ NewUid' \in Nat /\ NewUid <= NewUid'
    <3>1. NewUid' = NewUid + n
      BY <1>t, <2>1, <2>2, Constants DEF NewUid
    <3> QED
      BY <1>t, <2>1, <2>2, <2>3, <3>1, UidAfterIs DEF UidsInTurn
  <2>5. UidsInTurn'
    <3>1. Created' = Created /\ \A id : (Timed(id)' <=> Timed(id)) /\ key'[id] = key[id]
      BY <2>1 DEF Created, Timed, HasEventId, IsDestroy
    <3>2. \A id \in Created : Timed(id) => key[id].uid < NewUid'
      BY <1>c, <1>t, <2>3, <2>4 DEF UidsInTurn
    <3>3. currentUid' < NewUid'
      BY <1>t, <2>1, <2>3, <2>4 DEF UidsInTurn
    <3> QED
      BY <2>1, <2>3, <2>4, <3>1, <3>2, <3>3 DEF UidsInTurn
  <2>6. Parted' /\ InOrder' /\ Counted'
    BY <2>1, <2>3 DEF Parted, InOrder, Counted, Past, Timed, HasEventId, IsDestroy
  <2> QED
    BY <2>5, <2>6
<1>14. ASSUME UNCHANGED schedVars PROVE OrderInv'
  BY <1>14, QuietOrder DEF schedVars
<1> QED
  BY <1>1, <1>2, <1>3, <1>4, <1>5, <1>6, <1>7, <1>8, <1>9, <1>10, <1>11, <1>12, <1>13, <1>14
  DEF SchedNext

----------------------------------------------------------------------------
(* Theorems.                                                               *)

LEMMA InitSchedInv == SchedInit => SchedInv
<1> SUFFICES ASSUME SchedInit PROVE SchedInv
  OBVIOUS
<1>1. /\ heap = {} /\ key = <<>> /\ nextUid = UidValid /\ unscheduled = 0
      /\ uidsTaken = 0 /\ clock = 0 /\ currentUid = 0 /\ queued = <<>> /\ destroyList = <<>>
      /\ cancelFlag = {} /\ at = "setup" /\ stopAsked = FALSE /\ ranOrder = <<>> /\ gone = {}
  BY DEF SchedInit
<1>2. SchedTypeOK
  <2>1. /\ nextUid \in UidValid .. UidOffset - 1 /\ clock \in Nat /\ currentUid \in Nat
        /\ unscheduled \in Int /\ uidsTaken \in Nat
    BY <1>1, Constants
  <2>2. /\ key \in Seq([ts : Nat \cup {-1}, uid : Nat]) /\ queued \in Seq([id : Nat, delay : Nat])
        /\ destroyList \in Seq(Nat) /\ ranOrder \in Seq(Nat)
    BY <1>1, EmptySeq
  <2>3. /\ heap \subseteq [id : Nat, ts : Nat, uid : UidValid .. UidOffset - 1]
        /\ cancelFlag \subseteq Created /\ gone \subseteq Created
        /\ stopAsked \in BOOLEAN
    BY <1>1
  <2> QED
    BY <1>1, <2>1, <2>2, <2>3 DEF SchedTypeOK
<1>3. /\ DOMAIN queued = {} /\ DOMAIN destroyList = {} /\ DOMAIN ranOrder = {} /\ Created = {}
      /\ IsFiniteSet(heap) /\ Cardinality(heap) = 0
  BY <1>1, EmptySeq, FS_EmptySet DEF Created
<1>4. PlacesInv
  BY <1>1, <1>3 DEF PlacesInv, HeapInv, QueueInv, DestroyInv, NoneMissing, RanAreGone
<1>5. UidsInTurn
  BY <1>1, <1>3, Constants DEF UidsInTurn, NewUid
<1>6. Parted /\ InOrder /\ Counted
  BY <1>1, <1>3 DEF Parted, InOrder, Counted
<1> QED
  BY <1>2, <1>4, <1>5, <1>6 DEF SchedInv, OrderInv

LEMMA SchedInvAlways == SchedSpec => []SchedInv
<1>1. SchedInv /\ [SchedNext]_schedVars => SchedInv'
  BY TypeStep, PlacesStep, OrderStep DEF SchedInv
<1> QED
  BY InitSchedInv, <1>1, PTL DEF SchedSpec

LEMMA SchedInvIsConsistent == ASSUME SchedInv PROVE SchedulerConsistent
<1>c. \A id \in Created : id \in Nat /\ key[id].ts \in Int /\ key[id].uid \in Nat
  BY KeysAre DEF SchedInv
<1>t. clock \in Nat /\ currentUid \in Nat /\ cancelFlag \subseteq Created /\ gone \subseteq Created
  BY DEF SchedInv, SchedTypeOK
<1>1. ExpiredMeansGone
  <2> SUFFICES ASSUME UidsDistinct, at # "disposed", NEW id \in Created, HasEventId(id)
               PROVE  IsExpired(id) <=> id \in gone \cup cancelFlag
    BY DEF ExpiredMeansGone
  <2>1. CASE IsDestroy(id)
    <3>1. IsExpired(id) <=> id \in cancelFlag \/ ~OnDestroyList(id)
      BY <2>1 DEF IsExpired, OnDestroyList
    <3>2. OnDestroyList(id) <=> id \notin gone
      BY <2>1 DEF SchedInv, PlacesInv, DestroyInv, NoneMissing, AtEnd
    <3> QED
      BY <3>1, <3>2
  <2>2. CASE ~IsDestroy(id)
    <3>1. IsExpired(id) <=> Past(key[id].ts, key[id].uid) \/ id \in cancelFlag
      BY <2>2 DEF IsExpired, Past
    <3>2. Timed(id) /\ Parted
      BY <2>2 DEF Timed, SchedInv, OrderInv
    <3>3. id \in gone => id \in cancelFlag \/ Past(key[id].ts, key[id].uid)
      BY <3>2 DEF Parted
    <3>4. ASSUME Past(key[id].ts, key[id].uid) PROVE id \in gone
      <4>1. InHeap(id) \/ id \in gone
        BY <3>2 DEF SchedInv, PlacesInv, NoneMissing
      <4>2. ASSUME NEW e \in heap, e.id = id PROVE FALSE
        <5>1. key[id].ts = e.ts /\ key[id].uid = e.uid
          BY <4>2 DEF SchedInv, PlacesInv, HeapInv
        <5>2. ~Past(e.ts, e.uid)
          BY <3>2 DEF Parted
        <5> QED
          BY <3>4, <5>1, <5>2, Zenon
      <4> QED
        BY <4>1, <4>2 DEF InHeap
    <3> QED
      BY <3>1, <3>3, <3>4
  <2> QED
    BY <2>1, <2>2
<1>2. SameTimeInOrder
  <2> SUFFICES ASSUME UidsDistinct, NEW i \in DOMAIN ranOrder, NEW j \in DOMAIN ranOrder,
                      NEW a, a = ranOrder[i], NEW b, b = ranOrder[j]
               PROVE  /\ i # j => a # b
                      /\ i < j /\ Timed(a) /\ Timed(b)
                         => key[a].ts < key[b].ts \/ (key[a].ts = key[b].ts /\ a < b)
    BY DEF SameTimeInOrder, Timed
  <2>1. i # j => a # b
    BY DEF SchedInv, PlacesInv, RanAreGone
  <2>2. a \in Created /\ b \in Created
    BY <1>t DEF SchedInv, PlacesInv, RanAreGone
  <2>3. ASSUME i < j, Timed(a), Timed(b)
        PROVE  key[a].ts < key[b].ts \/ (key[a].ts = key[b].ts /\ a < b)
    <3>1. InOrder /\ UidsInTurn
      BY DEF SchedInv, OrderInv
    <3>2. key[a].ts < key[b].ts \/ (key[a].ts = key[b].ts /\ key[a].uid < key[b].uid)
      BY <2>3, <3>1 DEF InOrder
    <3>3. key[a].uid < key[b].uid => a < b
      <4>1. b < a => key[b].uid < key[a].uid
        BY <2>2, <2>3, <3>1 DEF UidsInTurn
      <4> QED
        BY <1>c, <2>2, <4>1
    <3> QED
      BY <3>2, <3>3
  <2> QED
    BY <2>1, <2>3
<1>3. UnscheduledCountsHeap
  BY DEF UnscheduledCountsHeap, SchedInv, OrderInv, Counted
<1> QED
  BY <1>1, <1>2, <1>3 DEF SchedulerConsistent

\* The types of the scheduler's state.
THEOREM TypeCorrect == SchedSpec => []SchedTypeOK
BY SchedInvAlways, PTL DEF SchedInv

\* IsExpired says whether an event is over, events run in the order of their
\* times and, within one time, of their creation, and m_unscheduledEvents
\* counts the heap, for any numbers of events and uids, until m_uid wraps.
THEOREM SchedulerConsistentHolds == SchedSpec => []SchedulerConsistent
BY SchedInvAlways, SchedInvIsConsistent, PTL

\* Cancelled events are not invoked, neither by ProcessOneEvent nor by Destroy,
\* whether uids are used again or not.
THEOREM CancelledNeverRunsHolds == SchedSpec => CancelledNeverRuns
<1>1. ASSUME SchedInv, [SchedNext]_schedVars, NEW id \in cancelFlag, NEW i \in DOMAIN ranOrder',
             ranOrder'[i] = id
      PROVE  i \in DOMAIN ranOrder
  <2>1. ranOrder \in Seq(Nat) /\ destroyList \in Seq(Nat) /\ \A e \in heap : e.id \in Nat
    BY <1>1 DEF SchedInv, SchedTypeOK
  <2>2. \/ UNCHANGED ranOrder
        \/ \E x \in Nat : x \notin cancelFlag /\ ranOrder' = Append(ranOrder, x)
    <3>1. CASE HostProcessOneEvent
      BY <2>1, <3>1 DEF HostProcessOneEvent
    <3>2. CASE Destroy
      <4>1. Head(destroyList) \in Nat
        BY <2>1, <3>2, HeadTailProperties DEF Destroy
      <4> QED
        BY <3>2, <4>1 DEF Destroy
    <3>3. CASE ~HostProcessOneEvent /\ ~Destroy
      BY <1>1, <3>3 DEF SchedNext, schedVars, HostSchedule, QueueEvent, ScheduleDestroy, Cancel,
         RemoveEvent, HostStop, RunStart, HostReturn, RunEnd, DestroyReturn, DoDispose
    <3> QED
      BY <3>1, <3>2, <3>3
  <2>3. ASSUME NEW x \in Nat, x \notin cancelFlag, ranOrder' = Append(ranOrder, x)
        PROVE  i \in DOMAIN ranOrder
    <3>1. i \in DOMAIN ranOrder \/ ranOrder'[i] = x
      BY <1>1, <2>1, <2>3, Appended
    <3> QED
      BY <1>1, <2>3, <3>1
  <2> QED
    BY <1>1, <2>2, <2>3
<1>2. SchedInv /\ [SchedNext]_schedVars => [\A id \in cancelFlag : \A i \in DOMAIN ranOrder' :
        ranOrder'[i] = id => i \in DOMAIN ranOrder]_schedVars
  BY <1>1
<1> QED
  BY SchedInvAlways, <1>2, PTL DEF SchedSpec, CancelledNeverRuns
=============================================================================
