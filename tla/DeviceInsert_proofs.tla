------------------------ MODULE DeviceInsert_proofs ------------------------
(***************************************************************************)
(* Theorems about DeviceInsert, for any number of threads, slots,          *)
(* insertions and kernels.                                                 *)
(***************************************************************************)
EXTENDS DeviceInsert, FiniteSetTheorems, TLAPS

\* A thread in the middle of an insertion has it still to make, and the lock
\* is taken while a thread changes the buffers.
Owing == \A t \in Tids : tpc[t] # "scan" => left[t] > 0
Changing(t) == tpc[t] \in {"ready", "toggle", "unlock"}
LockTaken == \A t \in Tids : Changing(t) => d_changeQueueLock = 1

InsertInv == TypeOK /\ Owing /\ LockTaken /\ LockExclusive

USE InsertAssumption

\* The constants of the model: places and threads are not empty.
LEMMA Sizes == /\ 0 \in Tids /\ 0 \in Places /\ Places \subseteq Nat
               /\ \A i \in Places : HasNext(i) => i + 1 \in Places
               /\ \A b \in Bufs : Other(b) \in Bufs
               /\ LastPlace \in Places /\ \A i \in Places : i <= LastPlace
  BY DEF Tids, Places, HasNext, Bufs, Other, LastPlace

LEMMA InitInsertInv == Init => InsertInv
<1> SUFFICES ASSUME Init PROVE InsertInv
  OBVIOUS
<1>1. TypeOK
  BY Sizes DEF Init, TypeOK, Bufs
<1>2. Owing /\ LockTaken /\ LockExclusive
  BY DEF Init, Owing, LockTaken, LockExclusive, Changing
<1> QED
  BY <1>1, <1>2 DEF InsertInv

----------------------------------------------------------------------------
(* A step of d_insert changes the state of one thread.                     *)

LEMMA ScanStep == ASSUME InsertInv, NEW t \in Tids, Scan(t) PROVE InsertInv'
<1> USE DEF Scan, bufVars, hostVars
<1>1. PICK b \in Seen(t) : /\ seen' = [seen EXCEPT ![t] = b]
        /\ \/ tpc' = [tpc EXCEPT ![t] = "store"] /\ index' = index
           \/ HasNext(index[t]) /\ index' = [index EXCEPT ![t] = @ + 1] /\ tpc' = tpc
           \/ index' = [index EXCEPT ![t] = 0] /\ tpc' = [tpc EXCEPT ![t] = "full"]
  OBVIOUS
<1>2. b \in Bufs
  BY <1>1 DEF Seen, InsertInv, TypeOK
<1>3. index' \in [Tids -> Places]
  <2>1. index \in [Tids -> Places]
    BY DEF InsertInv, TypeOK
  <2>2. HasNext(index[t]) => index[t] + 1 \in Places
    BY <2>1, Sizes
  <2>3. \/ index' = index
        \/ HasNext(index[t]) /\ index' = [index EXCEPT ![t] = index[t] + 1]
        \/ index' = [index EXCEPT ![t] = 0]
    BY <1>1
  <2> HIDE DEF Scan
  <2> QED
    BY <2>1, <2>2, <2>3, Sizes
<1>4. seen' \in [Tids -> Bufs]
  BY <1>1, <1>2 DEF InsertInv, TypeOK
<1>5. TypeOK'
  BY <1>1, <1>3, <1>4 DEF InsertInv, TypeOK
<1>6. Owing' /\ LockTaken' /\ LockExclusive'
  BY <1>1 DEF InsertInv, TypeOK, Owing, LockTaken, LockExclusive, Changing
<1> QED
  BY <1>5, <1>6 DEF InsertInv

LEMMA StoreStep == ASSUME InsertInv, NEW t \in Tids, Store(t) PROVE InsertInv'
<1> USE DEF Store, hostVars
<1>1. PICK b : b \in {seen[t], d_curDevBuf}
                 /\ slot' = [slot EXCEPT ![b][t][index[t]] = born[t] + 1]
  BY DEF Seen
<1>2. b \in Bufs /\ index[t] \in Places /\ born[t] + 1 \in Nat
  BY <1>1 DEF InsertInv, TypeOK
<1>3. slot' \in [Bufs -> [Tids -> [Places -> Nat]]]
  BY <1>1, <1>2, ZenonT(60) DEF InsertInv, TypeOK
<1>4. left' \in [Tids -> 0 .. Budget]
  <2>1. left \in [Tids -> 0 .. Budget] /\ left[t] > 0
    BY DEF InsertInv, TypeOK, Owing
  <2>2. left[t] - 1 \in 0 .. Budget
    BY <2>1
  <2> QED
    BY <2>1, <2>2
<1>5. TypeOK'
  BY <1>3, <1>4, Sizes DEF InsertInv, TypeOK
<1>6. Owing' /\ LockTaken' /\ LockExclusive'
  BY DEF InsertInv, TypeOK, Owing, LockTaken, LockExclusive, Changing
<1> QED
  BY <1>5, <1>6 DEF InsertInv

LEMMA LockStep ==
  ASSUME InsertInv, NEW t \in Tids, TryLock(t) \/ SetReady(t) \/ Toggle(t) \/ Unlock(t)
  PROVE  InsertInv'
<1> USE DEF hostVars
<1>1. CASE TryLock(t)
  <2>1. TypeOK'
    BY <1>1 DEF TryLock, InsertInv, TypeOK
  <2>2. Owing'
    BY <1>1 DEF TryLock, InsertInv, TypeOK, Owing
  <2>3. LockTaken' /\ LockExclusive'
    BY <1>1 DEF TryLock, InsertInv, TypeOK, LockTaken, LockExclusive, Changing
  <2> QED
    BY <2>1, <2>2, <2>3 DEF InsertInv
<1>2. CASE SetReady(t)
  <2>1. TypeOK'
    BY <1>2 DEF SetReady, InsertInv, TypeOK, Bufs
  <2>2. Owing' /\ LockTaken' /\ LockExclusive'
    BY <1>2 DEF SetReady, InsertInv, TypeOK, Owing, LockTaken, LockExclusive, Changing
  <2> QED
    BY <2>1, <2>2 DEF InsertInv
<1>3. CASE Toggle(t)
  <2>1. TypeOK'
    BY <1>3, Sizes DEF Toggle, InsertInv, TypeOK
  <2>2. Owing' /\ LockTaken' /\ LockExclusive'
    BY <1>3 DEF Toggle, InsertInv, TypeOK, Owing, LockTaken, LockExclusive, Changing
  <2> QED
    BY <2>1, <2>2 DEF InsertInv
<1>4. CASE Unlock(t)
  <2>1. TypeOK'
    BY <1>4 DEF Unlock, InsertInv, TypeOK
  <2>2. Owing' /\ LockTaken' /\ LockExclusive'
    BY <1>4 DEF Unlock, InsertInv, TypeOK, Owing, LockTaken, LockExclusive, Changing
  <2> QED
    BY <2>1, <2>2 DEF InsertInv
<1> QED
  BY <1>1, <1>2, <1>3, <1>4

----------------------------------------------------------------------------
(* The CPU thread changes neither threads nor lock; a launch gives threads *)
(* that are between insertions new ones to make.                           *)

\* Taking an event keeps the types of the slots and of what is scheduled.
LEMMA TakeTypes ==
  ASSUME InsertInv, region < N, NEW i \in Places, Take(i)
  PROVE  /\ slot' \in [Bufs -> [Tids -> [Places -> Nat]]]
         /\ scheduled' \in [Tids -> SUBSET Nat]
<1>1. region \in Tids /\ slot[h_curDevBuf][region][i] \in Nat
  BY DEF InsertInv, TypeOK, Tids
<1>2. slot' \in [Bufs -> [Tids -> [Places -> Nat]]]
  BY <1>1 DEF Take, InsertInv, TypeOK
<1>3. scheduled' \in [Tids -> SUBSET Nat]
  BY <1>1 DEF Take, InsertInv, TypeOK
<1> QED
  BY <1>2, <1>3

LEMMA CollectStep ==
  ASSUME InsertInv, CollectStart \/ Base \/ Place \/ CollectNext \/ Loop
  PROVE  InsertInv'
<1> USE DEF bufVars, threadVars
<1>1. UNCHANGED <<d_curDevBuf, d_changeQueueLock, threadVars, kernels>>
  BY DEF CollectStart, Base, Place, CollectNext, Loop
<1>2. Owing' /\ LockTaken' /\ LockExclusive'
  BY <1>1 DEF InsertInv, Owing, LockTaken, LockExclusive, Changing
<1>3. CASE CollectStart
  BY <1>3, <1>2, Sizes DEF CollectStart, InsertInv, TypeOK, Bufs
<1>4. CASE Base
  <2>1. slot' \in [Bufs -> [Tids -> [Places -> Nat]]] /\ scheduled' \in [Tids -> SUBSET Nat]
    BY <1>4, TakeTypes, Sizes DEF Base, InsertInv, TypeOK
  <2>2. /\ region' \in 0 .. N /\ place' \in Places /\ hpc' \in {"base", "slots"}
        /\ hpc' = "slots" => region' < N
    BY <1>4, Sizes DEF Base, InsertInv, TypeOK
  <2> QED
    BY <1>4, <1>2, <2>1, <2>2 DEF Base, InsertInv, TypeOK
<1>5. CASE Place
  <2>1. region < N /\ place \in Places
    BY <1>5 DEF Place, InsertInv, TypeOK
  <2>2. slot' \in [Bufs -> [Tids -> [Places -> Nat]]] /\ scheduled' \in [Tids -> SUBSET Nat]
    BY <1>5, <2>1, TakeTypes DEF Place, InsertInv, TypeOK
  <2>3. /\ region' \in 0 .. N /\ place' \in Places /\ hpc' \in {"base", "slots"}
        /\ hpc' = "slots" => region' < N
    BY <1>5, <2>1, SMTT(60) DEF Place, InsertInv, TypeOK, Places, LastPlace
  <2> QED
    BY <1>5, <1>2, <2>2, <2>3 DEF Place, InsertInv, TypeOK
<1>6. CASE CollectNext
  BY <1>6, <1>2, Sizes DEF CollectNext, InsertInv, TypeOK
<1>7. CASE Loop
  BY <1>7, <1>2 DEF Loop, InsertInv, TypeOK
<1> QED
  BY <1>3, <1>4, <1>5, <1>6, <1>7

LEMMA LaunchStep == ASSUME InsertInv, ChangeHostQueue PROVE InsertInv'
<1> USE DEF ChangeHostQueue
<1>1. TypeOK'
  BY Sizes DEF InsertInv, TypeOK, Bufs
<1>2. Owing' /\ LockTaken' /\ LockExclusive'
  BY DEF KernelIdle, InsertInv, Owing, LockTaken, LockExclusive, Changing
<1> QED
  BY <1>1, <1>2 DEF InsertInv

LEMMA InsertInvStep == InsertInv /\ [Next]_vars => InsertInv'
<1> SUFFICES ASSUME InsertInv, [Next]_vars PROVE InsertInv'
  OBVIOUS
<1>1. CASE \E t \in Tids : d_insert(t)
  BY <1>1, ScanStep, StoreStep, LockStep DEF d_insert
<1>2. CASE CollectStart \/ Base \/ Place \/ CollectNext \/ Loop
  BY <1>2, CollectStep
<1>3. CASE ChangeHostQueue
  BY <1>3, LaunchStep
<1>4. CASE UNCHANGED vars
  BY <1>4 DEF vars, bufVars, threadVars, hostVars, InsertInv, TypeOK, Owing, LockTaken,
     LockExclusive, Changing
<1> QED
  BY <1>1, <1>2, <1>3, <1>4 DEF Next

LEMMA InsertInvHolds == Spec => []InsertInv
  BY InitInsertInv, InsertInvStep, PTL DEF Spec

\* TypeOK: in particular no index of d_insert ever leaves the region of its
\* thread, for any size of region.
THEOREM TypeCorrect == Spec => []TypeOK
<1>1. InsertInv => TypeOK
  BY DEF InsertInv
<1> QED
  BY InsertInvHolds, <1>1, PTL

\* LockExclusive: the compare-and-swap of d_changeQueueLock lets one thread
\* at a time into ChangeDevQueue.
THEOREM LockExclusiveHolds == Spec => []LockExclusive
<1>1. InsertInv => LockExclusive
  BY DEF InsertInv
<1> QED
  BY InsertInvHolds, <1>1, PTL

----------------------------------------------------------------------------
(* Where an event can be: the numbers in a region are numbers of insertions *)
(* made, each in one slot, and none of them has been scheduled.  Store uses *)
(* a new number; Take moves one from its slot to what is scheduled.         *)

Stored(t, x) == slot[x[1]][t][x[2]]
Made(t) ==
  /\ \A x \in Bufs \X Places : Stored(t, x) <= born[t]
  /\ \A n \in scheduled[t] : n <= born[t]
Apart(t) ==
  /\ \A x, y \in Bufs \X Places : Stored(t, x) = Stored(t, y) /\ Stored(t, x) # 0 => x = y
  /\ \A x \in Bufs \X Places : Stored(t, x) # 0 => Stored(t, x) \notin scheduled[t]
OnceInv == \A t \in Tids : Made(t) /\ Apart(t)

LEMMA InitOnceInv == Init => OnceInv
BY DEF Init, OnceInv, Made, Apart, Stored

LEMMA StoreOnce == ASSUME InsertInv, OnceInv, NEW t \in Tids, Store(t) PROVE OnceInv'
<1> USE DEF Store, hostVars
<1>1. PICK b : b \in {seen[t], d_curDevBuf}
                 /\ slot' = [slot EXCEPT ![b][t][index[t]] = born[t] + 1]
  BY DEF Seen
<1>2. b \in Bufs /\ index[t] \in Places /\ born[t] \in Nat
  BY <1>1 DEF InsertInv, TypeOK
<1>3. /\ UNCHANGED scheduled /\ \A s \in Tids \ {t} : born'[s] = born[s]
      /\ born'[t] = born[t] + 1
  BY <1>2 DEF InsertInv, TypeOK
<1>4. PICK i \in Places : i = index[t]
  BY <1>2
<1>5. /\ \A s \in Tids \ {t} : \A x \in Bufs \X Places : Stored(s, x)' = Stored(s, x)
      /\ \A x \in Bufs \X Places :
           Stored(t, x)' = IF x = <<b, i>> THEN born[t] + 1 ELSE Stored(t, x)
  BY <1>1, <1>2, <1>4 DEF InsertInv, TypeOK, Stored
<1> HIDE DEF Store
<1>6. \A s \in Tids \ {t} : Made(s)' /\ Apart(s)'
  BY <1>3, <1>5 DEF OnceInv, Made, Apart
<1>7. /\ \A x \in Bufs \X Places : Stored(t, x) \in Nat /\ Stored(t, x) <= born[t]
      /\ \A n \in scheduled[t] : n \in Nat /\ n <= born[t]
  BY DEF OnceInv, Made, InsertInv, TypeOK, Stored
<1>8. Made(t)'
  BY <1>2, <1>3, <1>5, <1>7 DEF Made
<1>9. Apart(t)'
  BY <1>2, <1>3, <1>5, <1>7 DEF OnceInv, Apart
<1> QED
  BY <1>6, <1>8, <1>9 DEF OnceInv

LEMMA TakeOnce ==
  ASSUME InsertInv, OnceInv, region < N, NEW i \in Places, Take(i),
         slot[h_curDevBuf][region][i] # 0, UNCHANGED born
  PROVE  OnceInv'
<1>1. PICK b \in Bufs : b = h_curDevBuf
  BY DEF InsertInv, TypeOK
<1>2. PICK t \in Tids : t = region
  BY DEF InsertInv, TypeOK, Tids
<1>3. PICK n : n = Stored(t, <<b, i>>)
  OBVIOUS
<1>4. n \in Nat \ {0} /\ n <= born[t] /\ <<b, i>> \in Bufs \X Places
  BY <1>1, <1>2, <1>3 DEF OnceInv, Made, InsertInv, TypeOK, Stored
<1>5. /\ slot' = [slot EXCEPT ![b][t][i] = 0]
      /\ \A s \in Tids \ {t} : scheduled'[s] = scheduled[s]
      /\ scheduled'[t] = scheduled[t] \cup {n}
  BY <1>1, <1>2, <1>3 DEF Take, InsertInv, TypeOK, Stored
<1>6. /\ \A s \in Tids \ {t} : \A x \in Bufs \X Places : Stored(s, x)' = Stored(s, x)
      /\ \A x \in Bufs \X Places : Stored(t, x)' = IF x = <<b, i>> THEN 0 ELSE Stored(t, x)
  BY <1>4, <1>5 DEF InsertInv, TypeOK, Stored
<1>7. \A s \in Tids \ {t} : Made(s)' /\ Apart(s)'
  BY <1>5, <1>6 DEF OnceInv, Made, Apart
<1>8. born[t] \in Nat
  BY DEF InsertInv, TypeOK
<1>9. Made(t)'
  BY <1>4, <1>5, <1>6, <1>8 DEF OnceInv, Made
<1>10. Apart(t)'
  BY <1>3, <1>4, <1>5, <1>6 DEF OnceInv, Apart
<1> QED
  BY <1>7, <1>9, <1>10 DEF OnceInv

LEMMA OnceStep == InsertInv /\ OnceInv /\ [Next]_vars => OnceInv'
<1> SUFFICES ASSUME InsertInv, OnceInv, [Next]_vars PROVE OnceInv'
  OBVIOUS
<1>u. ASSUME UNCHANGED <<slot, scheduled, born>> PROVE OnceInv'
  BY <1>u DEF OnceInv, Made, Apart, Stored
<1> USE DEF bufVars, threadVars, hostVars
<1>1. ASSUME NEW t \in Tids, d_insert(t) PROVE OnceInv'
  <2>1. CASE Store(t)
    BY <2>1, StoreOnce
  <2>2. CASE Scan(t) \/ TryLock(t) \/ SetReady(t) \/ Toggle(t) \/ Unlock(t)
    BY <1>u, <2>2 DEF Scan, TryLock, SetReady, Toggle, Unlock
  <2> QED
    BY <1>1, <2>1, <2>2 DEF d_insert
<1>2. CASE Base
  BY <1>u, <1>2, TakeOnce, Sizes DEF Base
<1>3. CASE Place
  <2>1. region < N /\ place \in Places
    BY <1>3 DEF Place, InsertInv, TypeOK
  <2> QED
    BY <1>u, <1>3, <2>1, TakeOnce DEF Place
<1>4. CASE CollectStart \/ CollectNext \/ Loop \/ ChangeHostQueue \/ UNCHANGED vars
  BY <1>u, <1>4 DEF CollectStart, CollectNext, Loop, ChangeHostQueue, vars
<1> QED
  BY <1>1, <1>2, <1>3, <1>4 DEF Next

\* At most one slot holds an event, and none once it is scheduled.
LEMMA OnceIsEnough == ASSUME InsertInv, OnceInv PROVE NeverTwice
<1> SUFFICES ASSUME NEW t \in Tids, NEW n \in 1 .. born[t]
             PROVE  Cardinality({x \in Bufs \X Places : slot[x[1]][t][x[2]] = n})
                      + (IF n \in scheduled[t] THEN 1 ELSE 0) <= 1
  BY DEF NeverTwice
<1> DEFINE Where == {x \in Bufs \X Places : slot[x[1]][t][x[2]] = n}
<1>1. n # 0
  OBVIOUS
<1>2. \A x, y \in Where : x = y
  BY <1>1 DEF OnceInv, Apart, Stored
<1>3. n \in scheduled[t] => Where = {}
  BY <1>1 DEF OnceInv, Apart, Stored
<1> HIDE DEF Where
<1>4. CASE Where = {}
  <2>1. Cardinality(Where) = 0
    BY <1>4, FS_EmptySet
  <2> QED
    BY <2>1 DEF Where
<1>5. CASE Where # {}
  <2>1. PICK x : Where = {x}
    BY <1>2, <1>5
  <2>2. Cardinality(Where) = 1 /\ n \notin scheduled[t]
    BY <1>3, <2>1, FS_Singleton
  <2> QED
    BY <2>2 DEF Where
<1> QED
  BY <1>4, <1>5

\* NeverTwice: whatever the regions hold, whoever changes the buffers and
\* whenever the CPU collects, no event is in two slots or in a slot and
\* scheduled.
THEOREM NeverTwiceHolds == Spec => []NeverTwice
<1>1. InsertInv /\ OnceInv => NeverTwice
  BY OnceIsEnough
<1> QED
  BY InitInsertInv, InsertInvStep, InitOnceInv, OnceStep, <1>1, PTL DEF Spec

-----------------------------------------------------------------------------
(***************************************************************************)
(* The regions and flags of DeviceInsert implement DeviceMailbox as long   *)
(* as a thread makes no more insertions in one kernel than its region has  *)
(* slots, for any number of threads, slots and kernels.                    *)
(***************************************************************************)

\* The buffers are not changed inside a kernel: no thread finds its region
\* full, and what a thread remembers is the current buffer.
Undisturbed == \A t \in Tids :
  /\ tpc[t] \in {"scan", "store"}
  /\ index[t] # 0 => left[t] > 0
  /\ index[t] # 0 \/ tpc[t] = "store" => seen[t] = d_curDevBuf

\* The region a thread fills: no gap, room for what is left, and the thread
\* has passed only full slots and stops at a free one.
Filling == \A t \in Tids :
  /\ \A i \in Places : slot[d_curDevBuf][t][i] # 0 =>
       /\ i + left[t] < MAX_NEW_EVENTS
       /\ \A j \in Places : j < i => slot[d_curDevBuf][t][j] # 0
  /\ \A i \in Places : i < index[t] => slot[d_curDevBuf][t][i] # 0
  /\ tpc[t] = "store" => slot[d_curDevBuf][t][index[t]] = 0

\* Events have different numbers, no greater than the last one given.
Numbered == \A t \in Tids :
  /\ \A b \in Bufs, i \in Places : slot[b][t][i] <= born[t]
  /\ \A n \in scheduled[t] : n <= born[t]
  /\ \A b \in Bufs, i, j \in Places :
       slot[b][t][i] # 0 /\ slot[b][t][i] = slot[b][t][j] => i = j

\* Only a buffer that is not current is ready, and only a ready one is
\* collected; when the loop goes on none is.
Flagged ==
  /\ d_bufrdy[d_curDevBuf] = 0
  /\ hpc \in {"base", "slots"} => d_bufrdy[h_curDevBuf] = 1
  /\ hpc = "peek" => \A b \in Bufs : d_bufrdy[b] = 0

\* A buffer that is neither current nor ready is empty; a region not under
\* collection is empty if its first slot is; what the CPU has passed is empty.
Swept ==
  /\ \A b \in Bufs, t \in Tids, i \in Places :
       b # d_curDevBuf /\ slot[b][t][i] # 0 =>
         /\ d_bufrdy[b] = 1
         /\ slot[b][t][0] # 0 \/ (hpc = "slots" /\ b = h_curDevBuf /\ t = region)
  /\ hpc \in {"base", "slots"} =>
       \A t \in Tids, i \in Places :
         t < region \/ (hpc = "slots" /\ t = region /\ i < place)
           => slot[h_curDevBuf][t][i] = 0

MailInv == InsertInv /\ Undisturbed /\ Filling /\ Numbered /\ Flagged /\ Swept

\* The types used below, in the form the steps need them.
LEMMA Types ==
  ASSUME InsertInv
  PROVE  /\ d_curDevBuf \in Bufs /\ h_curDevBuf \in Bufs
         /\ \A b \in Bufs, t \in Tids, i \in Places : slot[b][t][i] \in Nat
         /\ \A t \in Tids : index[t] \in Places /\ index[t] \in Nat
         /\ \A t \in Tids : left[t] \in Nat /\ left[t] <= Budget /\ born[t] \in Nat
         /\ \A t \in Tids : scheduled[t] \subseteq Nat
         /\ region \in 0 .. N /\ place \in Places
         /\ \A i \in Places : i \in Nat /\ i < MAX_NEW_EVENTS
<1>1. \A b \in Bufs, t \in Tids, i \in Places : slot[b][t][i] \in Nat
  <2> SUFFICES ASSUME NEW b \in Bufs, NEW t \in Tids, NEW i \in Places
               PROVE  slot[b][t][i] \in Nat
    OBVIOUS
  <2>1. slot[b] \in [Tids -> [Places -> Nat]]
    BY DEF InsertInv, TypeOK
  <2>2. slot[b][t] \in [Places -> Nat]
    BY <2>1
  <2> QED
    BY <2>2
<1>2. \A t \in Tids : /\ index[t] \in Places /\ index[t] \in Nat
                     /\ left[t] \in Nat /\ left[t] <= Budget /\ born[t] \in Nat
  <2>1. /\ index \in [Tids -> Places] /\ left \in [Tids -> 0 .. Budget]
        /\ born \in [Tids -> Nat]
    BY DEF InsertInv, TypeOK
  <2> SUFFICES ASSUME NEW t \in Tids
               PROVE  /\ index[t] \in Places /\ index[t] \in Nat
                      /\ left[t] \in Nat /\ left[t] <= Budget /\ born[t] \in Nat
    OBVIOUS
  <2>2. index[t] \in Places /\ left[t] \in 0 .. Budget /\ born[t] \in Nat
    BY <2>1
  <2> QED
    BY <2>2 DEF Places
<1>3. \A t \in Tids : scheduled[t] \subseteq Nat
  <2>1. scheduled \in [Tids -> SUBSET Nat]
    BY DEF InsertInv, TypeOK
  <2> QED
    BY <2>1
<1>4. /\ d_curDevBuf \in Bufs /\ h_curDevBuf \in Bufs
      /\ region \in 0 .. N /\ place \in Places
  BY DEF InsertInv, TypeOK
<1> QED
  BY <1>1, <1>2, <1>3, <1>4 DEF Places, Tids, Bufs

LEMMA InitMailInv == Init => MailInv
<1> SUFFICES ASSUME Init PROVE MailInv
  OBVIOUS
<1>1. Undisturbed /\ Filling /\ Numbered /\ Flagged /\ Swept
  BY Sizes
  DEF Init, Undisturbed, Filling, Numbered, Flagged, Swept, Bufs, Places
<1> QED
  BY <1>1, InitInsertInv DEF MailInv

\* While no region overflows every access of a thread is to the current buffer.
LEMMA SeenIsCurrent == ASSUME MailInv, NEW t \in Tids PROVE Seen(t) = {d_curDevBuf}
BY DEF MailInv, InsertInv, TypeOK, Undisturbed, Seen

----------------------------------------------------------------------------
(* The steps keep the invariant.                                           *)

\* The test of a slot: the last slot of a region is never found taken.
LEMMA MailScan ==
  ASSUME MailInv, InsertInv', NEW t \in Tids, Scan(t) PROVE MailInv'
<1> DEFINE cur == slot[d_curDevBuf]
<1>u. UNCHANGED <<slot, d_curDevBuf, d_bufrdy, left, born, scheduled, hpc, h_curDevBuf,
                  region, place>>
  BY DEF Scan, bufVars, hostVars
<1>1. /\ left[t] > 0 /\ tpc[t] = "scan" /\ seen' = [seen EXCEPT ![t] = d_curDevBuf]
      /\ \/ /\ cur[t][index[t]] = 0
            /\ tpc' = [tpc EXCEPT ![t] = "store"] /\ index' = index
         \/ /\ cur[t][index[t]] # 0 /\ HasNext(index[t])
            /\ index' = [index EXCEPT ![t] = index[t] + 1] /\ tpc' = tpc
         \/ cur[t][index[t]] # 0 /\ ~HasNext(index[t])
  BY SeenIsCurrent, ZenonT(60) DEF Scan
<1>t. /\ tpc \in [Tids -> {"scan", "store", "full", "ready", "toggle", "unlock"}]
      /\ index \in [Tids -> Places] /\ seen \in [Tids -> Bufs]
  BY DEF MailInv, InsertInv, TypeOK
<1>m. InsertInv
  BY DEF MailInv
<1>f. Undisturbed /\ Filling
  BY DEF MailInv
<1>2. cur[t][index[t]] # 0 => HasNext(index[t])
  <2>1. cur[t][index[t]] # 0 => index[t] + left[t] < MAX_NEW_EVENTS
    BY <1>f, <1>m, Types DEF Filling
  <2> QED
    BY <1>1, <1>m, Types, <2>1 DEF HasNext
<1>v. slot' = slot /\ d_curDevBuf' = d_curDevBuf /\ left' = left
  BY <1>u
<1> HIDE DEF cur
<1>3. /\ seen'[t] = d_curDevBuf
      /\ \/ cur[t][index[t]] = 0 /\ tpc'[t] = "store" /\ index'[t] = index[t]
         \/ cur[t][index[t]] # 0 /\ tpc'[t] = "scan" /\ index'[t] = index[t] + 1
      /\ \A s \in Tids : s # t =>
           seen'[s] = seen[s] /\ tpc'[s] = tpc[s] /\ index'[s] = index[s]
  <2>1. CASE /\ cur[t][index[t]] = 0
             /\ tpc' = [tpc EXCEPT ![t] = "store"] /\ index' = index
    BY <2>1, <1>1, <1>t
  <2>2. CASE /\ cur[t][index[t]] # 0
             /\ index' = [index EXCEPT ![t] = index[t] + 1] /\ tpc' = tpc
    BY <2>2, <1>1, <1>t
  <2> QED
    BY <2>1, <2>2, <1>1, <1>2
<1>4. Undisturbed'
  BY <1>u, <1>1, <1>3, <1>f DEF Undisturbed
<1>5. Filling'
  <2> SUFFICES ASSUME NEW s \in Tids
               PROVE  /\ \A i \in Places : cur[s][i] # 0 =>
                           /\ i + left[s] < MAX_NEW_EVENTS
                           /\ \A j \in Places : j < i => cur[s][j] # 0
                      /\ \A i \in Places : i < index'[s] => cur[s][i] # 0
                      /\ tpc'[s] = "store" => cur[s][index'[s]] = 0
    BY <1>v DEF Filling, cur
  <2>1. /\ \A i \in Places : cur[s][i] # 0 =>
             /\ i + left[s] < MAX_NEW_EVENTS
             /\ \A j \in Places : j < i => cur[s][j] # 0
        /\ \A i \in Places : i < index[s] => cur[s][i] # 0
        /\ tpc[s] = "store" => cur[s][index[s]] = 0
    BY <1>f DEF Filling, cur
  <2>2. \A i \in Places : i < index[t] + 1 => i < index[t] \/ i = index[t]
    BY <1>m, Types
  <2>3. CASE s = t
    BY <2>1, <2>2, <2>3, <1>3
  <2>4. CASE s # t
    BY <2>1, <2>4, <1>3
  <2> QED
    BY <2>3, <2>4
<1>6. Numbered' /\ Flagged' /\ Swept'
  BY <1>u DEF MailInv, Numbered, Flagged, Swept
<1> QED
  BY <1>4, <1>5, <1>6 DEF MailInv

\* What Store does to the slots.
LEMMA StoreSlot ==
  ASSUME MailInv, NEW t \in Tids, Store(t)
  PROVE  /\ \A b \in Bufs, s \in Tids, i \in Places :
              slot'[b][s][i] = IF b = d_curDevBuf /\ s = t /\ i = index[t]
                               THEN born[t] + 1 ELSE slot[b][s][i]
         /\ slot[d_curDevBuf][t][index[t]] = 0
         /\ \A s \in Tids : born'[s] = IF s = t THEN born[t] + 1 ELSE born[s]
         /\ \A s \in Tids : left'[s] = IF s = t THEN left[t] - 1 ELSE left[s]
         /\ \A s \in Tids : index'[s] = IF s = t THEN 0 ELSE index[s]
         /\ \A s \in Tids : tpc'[s] = IF s = t THEN "scan" ELSE tpc[s]
         /\ left[t] > 0
<1>1. tpc[t] = "store" /\ seen[t] = d_curDevBuf
  BY DEF Store, Undisturbed, MailInv
<1>2. slot' = [slot EXCEPT ![d_curDevBuf][t][index[t]] = born[t] + 1]
  <2>1. PICK b : /\ b \in IF index[t] = 0 THEN Seen(t) ELSE {seen[t]}
                 /\ slot' = [slot EXCEPT ![b][t][index[t]] = born[t] + 1]
    BY DEF Store
  <2>2. b = d_curDevBuf
    BY <2>1, <1>1, SeenIsCurrent
  <2> QED
    BY <2>1, <2>2
<1>3. slot[d_curDevBuf][t][index[t]] = 0 /\ left[t] > 0
  BY <1>1 DEF MailInv, Filling, InsertInv, Owing
<1>4. \A b \in Bufs, s \in Tids, i \in Places :
        slot'[b][s][i] = IF b = d_curDevBuf /\ s = t /\ i = index[t]
                         THEN born[t] + 1 ELSE slot[b][s][i]
  BY <1>2 DEF MailInv, InsertInv, TypeOK
<1>5. /\ \A s \in Tids : born'[s] = IF s = t THEN born[t] + 1 ELSE born[s]
      /\ \A s \in Tids : left'[s] = IF s = t THEN left[t] - 1 ELSE left[s]
      /\ \A s \in Tids : index'[s] = IF s = t THEN 0 ELSE index[s]
      /\ \A s \in Tids : tpc'[s] = IF s = t THEN "scan" ELSE tpc[s]
  BY DEF Store, MailInv, InsertInv, TypeOK
<1> QED
  BY <1>3, <1>4, <1>5

LEMMA MailStore ==
  ASSUME MailInv, InsertInv', Budget <= MAX_NEW_EVENTS, NEW t \in Tids, Store(t)
  PROVE  MailInv'
<1>m. InsertInv /\ Undisturbed /\ Filling /\ Numbered /\ Flagged /\ Swept
  BY DEF MailInv
<1>u. /\ d_curDevBuf' = d_curDevBuf /\ d_bufrdy' = d_bufrdy /\ seen' = seen
      /\ scheduled' = scheduled /\ hpc' = hpc /\ h_curDevBuf' = h_curDevBuf
      /\ region' = region /\ place' = place
  BY DEF Store, hostVars
<1>1. Undisturbed'
  BY <1>m, <1>u, StoreSlot DEF Undisturbed
\* Room: the thread fills the slots of a region from the first on.
<1>2. index[t] + left[t] <= MAX_NEW_EVENTS
  <2>1. CASE index[t] = 0
    BY <2>1, <1>m, Types
  <2>2. CASE index[t] > 0
    <3>1. index[t] - 1 \in Places /\ index[t] - 1 < index[t]
      BY <2>2, <1>m, Types DEF Places
    <3>2. slot[d_curDevBuf][t][index[t] - 1] # 0
      BY <3>1, <1>m DEF Filling
    <3>3. index[t] - 1 + left[t] < MAX_NEW_EVENTS
      BY <3>1, <3>2, <1>m DEF Filling
    <3> QED
      BY <3>3, <2>2, <1>m, Types
  <2> QED
    BY <2>1, <2>2, <1>m, Types
<1>3. Filling'
  <2> DEFINE cur == slot[d_curDevBuf]
  <2> DEFINE now == slot'[d_curDevBuf]
  <2>0. /\ \A s \in Tids, i \in Places :
             now[s][i] = IF s = t /\ i = index[t] THEN born[t] + 1 ELSE cur[s][i]
        /\ \A s \in Tids : left'[s] = IF s = t THEN left[t] - 1 ELSE left[s]
        /\ \A s \in Tids : index'[s] = IF s = t THEN 0 ELSE index[s]
        /\ \A s \in Tids : tpc'[s] = IF s = t THEN "scan" ELSE tpc[s]
        /\ cur[t][index[t]] = 0
    BY StoreSlot, <1>m, Types
  <2>f. \A s \in Tids :
          /\ \A i \in Places : cur[s][i] # 0 =>
               /\ i + left[s] < MAX_NEW_EVENTS
               /\ \A j \in Places : j < i => cur[s][j] # 0
          /\ \A i \in Places : i < index[s] => cur[s][i] # 0
          /\ tpc[s] = "store" => cur[s][index[s]] = 0
    BY <1>m DEF Filling
  <2> SUFFICES ASSUME NEW s \in Tids
               PROVE  /\ \A i \in Places : now[s][i] # 0 =>
                           /\ i + left'[s] < MAX_NEW_EVENTS
                           /\ \A j \in Places : j < i => now[s][j] # 0
                      /\ \A i \in Places : i < index'[s] => now[s][i] # 0
                      /\ tpc'[s] = "store" => now[s][index'[s]] = 0
    BY <1>u DEF Filling
  <2> HIDE DEF cur, now
  <2>t. /\ index[t] \in Places /\ left[t] \in Nat /\ born[t] \in Nat /\ index[t] \in Nat
        /\ \A i \in Places : i \in Nat /\ i < MAX_NEW_EVENTS
        /\ \A r \in Tids : index[r] \in Places
    BY <1>m, Types
  <2>1. CASE s # t
    BY <2>1, <2>0, <2>f, <2>t
  <2>2. CASE s = t
    <3>1. ASSUME NEW i \in Places, now[t][i] # 0
          PROVE  /\ i + left'[t] < MAX_NEW_EVENTS
                 /\ \A j \in Places : j < i => now[t][j] # 0
      <4>1. CASE i = index[t]
        <5>1. i + left'[t] < MAX_NEW_EVENTS
          BY <4>1, <2>0, <2>t, <1>2
        <5>2. ASSUME NEW j \in Places, j < i PROVE now[t][j] # 0
          BY <5>2, <4>1, <2>0, <2>f, <2>t
        <5> QED
          BY <5>1, <5>2
      <4>2. CASE i # index[t]
        <5>1. cur[t][i] # 0
          BY <3>1, <4>2, <2>0
        <5>2. i + left[t] < MAX_NEW_EVENTS /\ \A j \in Places : j < i => cur[t][j] # 0
          BY <5>1, <2>f
        <5>3. i + left'[t] < MAX_NEW_EVENTS
          BY <5>2, <2>0, <2>t
        <5>4. ASSUME NEW j \in Places, j < i PROVE now[t][j] # 0
          BY <5>2, <5>4, <2>0, <2>t
        <5> QED
          BY <5>3, <5>4
      <4> QED
        BY <4>1, <4>2
    <3>2. index'[t] = 0 /\ tpc'[t] = "scan"
      BY <2>0
    <3> QED
      BY <2>2, <3>1, <3>2, <2>t
  <2> QED
    BY <2>1, <2>2
<1>4. Numbered'
  <2>t. /\ \A b \in Bufs, s \in Tids, i \in Places : slot[b][s][i] \in Nat
        /\ \A s \in Tids : born[s] \in Nat /\ scheduled[s] \subseteq Nat
        /\ d_curDevBuf \in Bufs /\ index[t] \in Places
    BY <1>m, Types
  <2>b. \A b \in Bufs, s \in Tids, i \in Places : slot[b][s][i] <= born[s]
    BY <1>m DEF Numbered
  <2>1. \A s \in Tids, b \in Bufs, i \in Places : slot'[b][s][i] <= born'[s]
    <3> SUFFICES ASSUME NEW s \in Tids, NEW b \in Bufs, NEW i \in Places
                 PROVE  slot'[b][s][i] <= born'[s]
      OBVIOUS
    <3>1. CASE b = d_curDevBuf /\ s = t /\ i = index[t]
      <4>1. slot'[b][s][i] = born[t] + 1 /\ born'[s] = born[t] + 1
        BY <3>1, StoreSlot
      <4> QED
        BY <4>1, <2>t
    <3>2. CASE ~(b = d_curDevBuf /\ s = t /\ i = index[t])
      <4>1. slot'[b][s][i] = slot[b][s][i] /\ born'[s] \in {born[s], born[s] + 1}
        BY <3>2, StoreSlot
      <4> QED
        BY <4>1, <2>t, <2>b
    <3> QED
      BY <3>1, <3>2
  <2>2. \A s \in Tids : \A n \in scheduled'[s] : n <= born'[s]
    <3> SUFFICES ASSUME NEW s \in Tids, NEW n \in scheduled[s] PROVE n <= born'[s]
      BY <1>u
    <3>1. n <= born[s] /\ n \in Nat /\ born[s] \in Nat
      BY <1>m, <2>t DEF Numbered
    <3>2. born'[s] \in {born[s], born[s] + 1}
      BY StoreSlot
    <3> QED
      BY <3>1, <3>2
  <2>3. \A s \in Tids, b \in Bufs, i, j \in Places :
          slot'[b][s][i] # 0 /\ slot'[b][s][i] = slot'[b][s][j] => i = j
    <3> SUFFICES ASSUME NEW s \in Tids, NEW b \in Bufs, NEW i \in Places, NEW j \in Places,
                        slot'[b][s][i] # 0, slot'[b][s][i] = slot'[b][s][j]
                 PROVE  i = j
      OBVIOUS
    <3>1. slot[b][s][i] <= born[s] /\ slot[b][s][j] <= born[s]
      BY <2>b
    <3>2. slot[b][s][i] # 0 /\ slot[b][s][i] = slot[b][s][j] => i = j
      BY <1>m DEF Numbered
    <3>3. /\ slot'[b][s][i] = IF b = d_curDevBuf /\ s = t /\ i = index[t]
                              THEN born[t] + 1 ELSE slot[b][s][i]
          /\ slot'[b][s][j] = IF b = d_curDevBuf /\ s = t /\ j = index[t]
                              THEN born[t] + 1 ELSE slot[b][s][j]
      BY StoreSlot
    <3>4. slot[b][s][i] \in Nat /\ slot[b][s][j] \in Nat /\ born[s] \in Nat
      BY <2>t
    <3>5. CASE b = d_curDevBuf /\ s = t
      <4>1. i = index[t] <=> j = index[t]
        BY <3>5, <3>1, <3>3, <3>4
      <4> QED
        BY <4>1, <3>2, <3>3
    <3>6. CASE ~(b = d_curDevBuf /\ s = t)
      BY <3>6, <3>2, <3>3
    <3> QED
      BY <3>5, <3>6
  <2> QED
    BY <2>1, <2>2, <2>3 DEF Numbered
<1>5. Flagged'
  BY <1>m, <1>u DEF Flagged
<1>6. Swept'
  <2>1. \A b \in Bufs, s \in Tids, i \in Places :
          b # d_curDevBuf => slot'[b][s][i] = slot[b][s][i]
    BY StoreSlot
  <2>2. hpc \in {"base", "slots"} => h_curDevBuf # d_curDevBuf
    BY <1>m DEF Flagged
  <2>3. h_curDevBuf \in Bufs
    BY <1>m, Types
  <2>4. \A b \in Bufs, s \in Tids, i \in Places :
          b # d_curDevBuf /\ slot'[b][s][i] # 0 =>
            /\ d_bufrdy[b] = 1
            /\ slot'[b][s][0] # 0 \/ (hpc = "slots" /\ b = h_curDevBuf /\ s = region)
    <3> SUFFICES ASSUME NEW b \in Bufs, NEW s \in Tids, NEW i \in Places,
                        b # d_curDevBuf, slot'[b][s][i] # 0
                 PROVE  /\ d_bufrdy[b] = 1
                        /\ \/ slot'[b][s][0] # 0
                           \/ hpc = "slots" /\ b = h_curDevBuf /\ s = region
      OBVIOUS
    <3>1. slot'[b][s][i] = slot[b][s][i] /\ slot'[b][s][0] = slot[b][s][0]
      BY <2>1, Sizes
    <3> QED
      BY <3>1, <1>m DEF Swept
  <2>5. hpc \in {"base", "slots"} =>
          \A s \in Tids, i \in Places :
            s < region \/ (hpc = "slots" /\ s = region /\ i < place)
              => slot'[h_curDevBuf][s][i] = 0
    BY <2>1, <2>2, <2>3, <1>m DEF Swept
  <2> QED
    BY <2>4, <2>5, <1>u DEF Swept
<1> QED
  BY <1>1, <1>3, <1>4, <1>5, <1>6 DEF MailInv

\* There are two buffers.
LEMMA TwoBufs ==
  \A c \in Bufs : /\ Other(c) \in Bufs /\ Other(c) # c /\ Other(Other(c)) = c
                  /\ \A b \in Bufs : b = c \/ b = Other(c)
BY DEF Bufs, Other

\* The CPU thread does not disturb the threads of the kernel as long as it
\* does not touch the current buffer.
LEMMA ThreadsKept ==
  ASSUME MailInv, UNCHANGED <<threadVars, d_curDevBuf>>,
         \A s \in Tids, i \in Places : slot'[d_curDevBuf][s][i] = slot[d_curDevBuf][s][i]
  PROVE  Undisturbed' /\ Filling'
<1>m. InsertInv /\ Undisturbed /\ Filling
  BY DEF MailInv
<1>u. /\ d_curDevBuf' = d_curDevBuf /\ tpc' = tpc /\ index' = index
      /\ seen' = seen /\ left' = left
  BY DEF threadVars
<1>1. Undisturbed'
  BY <1>m, <1>u DEF Undisturbed
<1>2. Filling'
  <2> SUFFICES ASSUME NEW s \in Tids
               PROVE  /\ \A i \in Places : slot'[d_curDevBuf][s][i] # 0 =>
                           /\ i + left[s] < MAX_NEW_EVENTS
                           /\ \A j \in Places : j < i => slot'[d_curDevBuf][s][j] # 0
                      /\ \A i \in Places : i < index[s] => slot'[d_curDevBuf][s][i] # 0
                      /\ tpc[s] = "store" => slot'[d_curDevBuf][s][index[s]] = 0
    BY <1>u DEF Filling
  <2>1. /\ \A i \in Places : slot[d_curDevBuf][s][i] # 0 =>
             /\ i + left[s] < MAX_NEW_EVENTS
             /\ \A j \in Places : j < i => slot[d_curDevBuf][s][j] # 0
        /\ \A i \in Places : i < index[s] => slot[d_curDevBuf][s][i] # 0
        /\ tpc[s] = "store" => slot[d_curDevBuf][s][index[s]] = 0
    BY <1>m DEF Filling
  <2>2. index[s] \in Places
    BY <1>m, Types
  <2> QED
    BY <2>1, <2>2
<1> QED
  BY <1>1, <1>2

\* A collection begins with a ready buffer, or there is none.
LEMMA MailCollectStart ==
  ASSUME MailInv, InsertInv', CollectStart PROVE MailInv'
<1>m. InsertInv /\ Numbered /\ Flagged /\ Swept
  BY DEF MailInv
<1>u. /\ slot' = slot /\ d_curDevBuf' = d_curDevBuf /\ d_bufrdy' = d_bufrdy
      /\ UNCHANGED threadVars /\ born' = born /\ scheduled' = scheduled
      /\ hpc = "start" /\ hpc' \in {"peek", "base"} /\ region' = 0 /\ place' = 0
  BY DEF CollectStart, bufVars, threadVars
<1>1. Undisturbed' /\ Filling'
  BY <1>u, ThreadsKept
<1>2. Numbered'
  BY <1>m, <1>u DEF Numbered
<1>3. Flagged'
  <2>1. d_bufrdy \in [Bufs -> {0, 1}]
    BY <1>m DEF InsertInv, TypeOK
  <2>2. /\ hpc' = "peek" => \A b \in Bufs : d_bufrdy[b] = 0
        /\ hpc' = "base" => d_bufrdy[h_curDevBuf'] = 1
    BY <2>1 DEF CollectStart, Bufs
  <2> QED
    BY <1>m, <1>u, <2>2 DEF Flagged
<1>4. Swept'
  BY <1>m, <1>u, Sizes DEF Swept, Tids
<1> QED
  BY <1>1, <1>2, <1>3, <1>4 DEF MailInv

\* The loop goes on.
LEMMA MailLoop == ASSUME MailInv, InsertInv', Loop PROVE MailInv'
<1>m. InsertInv /\ Numbered /\ Flagged /\ Swept
  BY DEF MailInv
<1>u. /\ slot' = slot /\ d_curDevBuf' = d_curDevBuf /\ d_bufrdy' = d_bufrdy
      /\ UNCHANGED threadVars /\ born' = born /\ scheduled' = scheduled
      /\ hpc = "peek" /\ hpc' = "start" /\ h_curDevBuf' = h_curDevBuf
  BY DEF Loop, bufVars, threadVars
<1>1. Undisturbed' /\ Filling'
  BY <1>u, ThreadsKept
<1>2. Numbered' /\ Flagged' /\ Swept'
  BY <1>m, <1>u DEF Numbered, Flagged, Swept
<1> QED
  BY <1>1, <1>2 DEF MailInv

\* When all regions have been seen the buffer is empty, and the other one,
\* which the kernel uses, is not ready.
LEMMA AllSwept ==
  ASSUME MailInv, hpc = "base", region = N
  PROVE  /\ h_curDevBuf # d_curDevBuf
         /\ \A s \in Tids, i \in Places : slot[h_curDevBuf][s][i] = 0
<1>1. \A s \in Tids : s < N
  BY DEF Tids
<1> QED
  BY <1>1 DEF MailInv, Flagged, Swept

LEMMA MailCollectNext == ASSUME MailInv, InsertInv', CollectNext PROVE MailInv'
<1>m. InsertInv /\ Numbered /\ Flagged /\ Swept
  BY DEF MailInv
<1>b. h_curDevBuf \in Bufs /\ d_curDevBuf \in Bufs /\ d_bufrdy \in [Bufs -> {0, 1}]
  BY <1>m DEF InsertInv, TypeOK
<1>e. /\ h_curDevBuf # d_curDevBuf
      /\ \A s \in Tids, i \in Places : slot[h_curDevBuf][s][i] = 0
  BY AllSwept DEF CollectNext
<1>o. d_curDevBuf = Other(h_curDevBuf) /\ d_bufrdy[d_curDevBuf] = 0
  BY <1>b, <1>e, <1>m, TwoBufs DEF Flagged
<1>u. /\ slot' = slot /\ d_curDevBuf' = d_curDevBuf
      /\ d_bufrdy' = [d_bufrdy EXCEPT ![h_curDevBuf] = 0]
      /\ UNCHANGED threadVars /\ born' = born /\ scheduled' = scheduled
      /\ hpc' = "peek"
  BY <1>o DEF CollectNext, threadVars
<1>1. Undisturbed' /\ Filling'
  BY <1>u, ThreadsKept
<1>2. Numbered'
  BY <1>m, <1>u DEF Numbered
<1>3. \A b \in Bufs : d_bufrdy'[b] = 0
  BY <1>b, <1>o, <1>u, TwoBufs
<1>4. Flagged'
  BY <1>3, <1>u, <1>b DEF Flagged
<1>5. Swept'
  BY <1>u, <1>e, <1>b, <1>o, TwoBufs DEF Swept
<1> QED
  BY <1>1, <1>2, <1>4, <1>5 DEF MailInv

\* What Take does to the slots and to the events scheduled.
LEMMA TakeSlot ==
  ASSUME InsertInv, NEW p \in Places, region < N, Take(p)
  PROVE  /\ \A b \in Bufs, s \in Tids, i \in Places :
              slot'[b][s][i] = IF b = h_curDevBuf /\ s = region /\ i = p
                               THEN 0 ELSE slot[b][s][i]
         /\ \A s \in Tids :
              scheduled'[s] = IF s = region
                              THEN scheduled[s] \cup {slot[h_curDevBuf][region][p]}
                              ELSE scheduled[s]
         /\ region \in Tids
<1>1. region \in Tids /\ h_curDevBuf \in Bufs
  BY DEF InsertInv, TypeOK, Tids
<1>2. slot \in [Bufs -> [Tids -> [Places -> Nat]]] /\ scheduled \in [Tids -> SUBSET Nat]
  BY DEF InsertInv, TypeOK
<1>3. /\ slot' = [slot EXCEPT ![h_curDevBuf][region][p] = 0]
      /\ scheduled' = [scheduled EXCEPT ![region] =
                         scheduled[region] \cup {slot[h_curDevBuf][region][p]}]
  BY DEF Take
<1>4. \A b \in Bufs, s \in Tids, i \in Places :
        slot'[b][s][i] = IF b = h_curDevBuf /\ s = region /\ i = p
                         THEN 0 ELSE slot[b][s][i]
  BY <1>1, <1>2, <1>3
<1>5. \A s \in Tids :
        scheduled'[s] = IF s = region
                        THEN scheduled[s] \cup {slot[h_curDevBuf][region][p]}
                        ELSE scheduled[s]
  BY <1>1, <1>2, <1>3
<1> QED
  BY <1>1, <1>4, <1>5

\* Taking an event keeps events different, and the numbers bounded.
LEMMA TakeNumbered ==
  ASSUME MailInv, NEW p \in Places, region < N, Take(p), born' = born
  PROVE  Numbered'
<1>m. InsertInv /\ Numbered
  BY DEF MailInv
<1>1. \A b \in Bufs, s \in Tids, i \in Places :
        slot'[b][s][i] = 0 \/ slot'[b][s][i] = slot[b][s][i]
  BY <1>m, TakeSlot
<1>2. \A s \in Tids, b \in Bufs, i \in Places : slot'[b][s][i] <= born'[s]
  <2> SUFFICES ASSUME NEW s \in Tids, NEW b \in Bufs, NEW i \in Places
               PROVE  slot'[b][s][i] <= born[s]
    OBVIOUS
  <2>1. slot[b][s][i] <= born[s] /\ born[s] \in Nat
    BY <1>m, Types DEF Numbered
  <2> QED
    BY <2>1, <1>1
<1>3. \A s \in Tids : \A n \in scheduled'[s] : n <= born'[s]
  <2> SUFFICES ASSUME NEW s \in Tids, NEW n \in scheduled'[s] PROVE n <= born[s]
    OBVIOUS
  <2>1. CASE n \in scheduled[s]
    BY <2>1, <1>m DEF Numbered
  <2>2. CASE n \notin scheduled[s]
    <3>1. scheduled'[s] = IF s = region
                          THEN scheduled[s] \cup {slot[h_curDevBuf][region][p]}
                          ELSE scheduled[s]
      BY <1>m, TakeSlot
    <3>2. s = region /\ n = slot[h_curDevBuf][s][p]
      BY <2>2, <3>1
    <3>3. h_curDevBuf \in Bufs
      BY <1>m, Types
    <3> QED
      BY <3>2, <3>3, <1>m DEF Numbered
  <2> QED
    BY <2>1, <2>2
<1>4. \A s \in Tids, b \in Bufs, i, j \in Places :
        slot'[b][s][i] # 0 /\ slot'[b][s][i] = slot'[b][s][j] => i = j
  BY <1>m, <1>1 DEF Numbered
<1> QED
  BY <1>2, <1>3, <1>4 DEF Numbered

\* The first slot of a region: its event is taken, or the region is empty.
LEMMA MailBase == ASSUME MailInv, InsertInv', Base PROVE MailInv'
<1>m. InsertInv /\ Numbered /\ Flagged /\ Swept
  BY DEF MailInv
<1>u. /\ d_curDevBuf' = d_curDevBuf /\ d_bufrdy' = d_bufrdy /\ h_curDevBuf' = h_curDevBuf
      /\ UNCHANGED threadVars /\ born' = born /\ hpc = "base" /\ region < N
  BY DEF Base, threadVars
<1>b. h_curDevBuf \in Bufs /\ d_curDevBuf \in Bufs /\ region \in Tids
  BY <1>m, <1>u DEF InsertInv, TypeOK, Tids
<1>c. h_curDevBuf # d_curDevBuf
  BY <1>m, <1>u DEF Flagged
<1>3. Flagged'
  <2>1. hpc' \in {"base", "slots"}
    BY <1>u DEF Base
  <2> QED
    BY <1>m, <1>u, <2>1 DEF Flagged
<1>4. CASE slot[h_curDevBuf][region][0] # 0
  <2>1. Take(0) /\ hpc' = "slots" /\ place' = 0 /\ region' = region
    BY <1>4 DEF Base
  <2>2. \A b \in Bufs, s \in Tids, i \in Places :
          slot'[b][s][i] = IF b = h_curDevBuf /\ s = region /\ i = 0
                           THEN 0 ELSE slot[b][s][i]
    BY <2>1, <1>m, <1>u, TakeSlot, Sizes
  <2>3. Undisturbed' /\ Filling'
    BY <2>2, <1>u, <1>b, <1>c, ThreadsKept
  <2>4. Numbered'
    BY <2>1, <1>u, TakeNumbered, Sizes
  <2>5. \A b \in Bufs, s \in Tids, i \in Places :
          b # d_curDevBuf /\ slot'[b][s][i] # 0 =>
            /\ d_bufrdy[b] = 1
            /\ slot'[b][s][0] # 0 \/ (b = h_curDevBuf /\ s = region)
    <3> SUFFICES ASSUME NEW b \in Bufs, NEW s \in Tids, NEW i \in Places,
                        b # d_curDevBuf, slot'[b][s][i] # 0
                 PROVE  /\ d_bufrdy[b] = 1
                        /\ slot'[b][s][0] # 0 \/ (b = h_curDevBuf /\ s = region)
      OBVIOUS
    <3>1. slot[b][s][i] # 0
      BY <2>2
    <3>2. d_bufrdy[b] = 1 /\ slot[b][s][0] # 0
      BY <3>1, <1>m, <1>u DEF Swept
    <3> QED
      BY <3>2, <2>2, Sizes
  <2>6. \A s \in Tids, i \in Places :
          s < region \/ (s = region /\ i < 0) => slot'[h_curDevBuf][s][i] = 0
    <3>1. \A s \in Tids, i \in Places : s < region => slot[h_curDevBuf][s][i] = 0
      BY <1>m, <1>u DEF Swept
    <3> QED
      BY <3>1, <2>2, <1>b, Sizes
  <2>7. Swept'
    BY <2>1, <2>5, <2>6, <1>u DEF Swept
  <2> QED
    BY <2>3, <2>4, <2>7, <1>3 DEF MailInv
<1>5. CASE slot[h_curDevBuf][region][0] = 0
  <2>1. slot' = slot /\ scheduled' = scheduled /\ hpc' = "base" /\ region' = region + 1
    BY <1>5, <1>u DEF Base
  <2>2. Undisturbed' /\ Filling'
    BY <2>1, <1>u, ThreadsKept
  <2>3. Numbered'
    BY <2>1, <1>u, <1>m DEF Numbered
  <2>4. \A s \in Tids, i \in Places : s < region + 1 => slot[h_curDevBuf][s][i] = 0
    <3> SUFFICES ASSUME NEW s \in Tids, NEW i \in Places, s < region + 1
                 PROVE  slot[h_curDevBuf][s][i] = 0
      OBVIOUS
    <3>1. s < region \/ s = region
      BY <1>b DEF Tids
    <3>2. CASE s < region
      BY <3>2, <1>m, <1>u DEF Swept
    <3>3. CASE s = region
      BY <3>3, <1>m, <1>u, <1>b, <1>c, <1>5 DEF Swept
    <3> QED
      BY <3>1, <3>2, <3>3
  <2>5. Swept'
    BY <2>1, <2>4, <1>u, <1>m DEF Swept
  <2> QED
    BY <2>2, <2>3, <2>5, <1>3 DEF MailInv
<1> QED
  BY <1>4, <1>5

\* A further slot: it is empty afterwards, and after the last one the region.
LEMMA MailPlace == ASSUME MailInv, InsertInv', Place PROVE MailInv'
<1>m. InsertInv /\ Numbered /\ Flagged /\ Swept
  BY DEF MailInv
<1>u. /\ d_curDevBuf' = d_curDevBuf /\ d_bufrdy' = d_bufrdy /\ h_curDevBuf' = h_curDevBuf
      /\ UNCHANGED threadVars /\ born' = born /\ hpc = "slots"
  BY DEF Place, threadVars
<1>b. /\ h_curDevBuf \in Bufs /\ d_curDevBuf \in Bufs /\ region \in Tids
      /\ region < N /\ place \in Places
  BY <1>m, <1>u DEF InsertInv, TypeOK, Tids
<1>c. h_curDevBuf # d_curDevBuf
  BY <1>m, <1>u DEF Flagged
<1>1. \A b \in Bufs, s \in Tids, i \in Places :
        slot'[b][s][i] = IF b = h_curDevBuf /\ s = region /\ i = place
                         THEN 0 ELSE slot[b][s][i]
  <2>1. CASE slot[h_curDevBuf][region][place] # 0
    <3>1. Take(place)
      BY <2>1 DEF Place
    <3> QED
      BY <3>1, <1>m, <1>b, TakeSlot
  <2>2. CASE slot[h_curDevBuf][region][place] = 0
    BY <2>2 DEF Place
  <2> QED
    BY <2>1, <2>2
<1>2. Undisturbed' /\ Filling'
  BY <1>1, <1>u, <1>b, <1>c, ThreadsKept
<1>3. Numbered'
  <2>1. CASE slot[h_curDevBuf][region][place] # 0
    <3>1. Take(place)
      BY <2>1 DEF Place
    <3> QED
      BY <3>1, <1>b, <1>u, TakeNumbered
  <2>2. CASE slot[h_curDevBuf][region][place] = 0
    <3>1. slot' = slot /\ scheduled' = scheduled
      BY <2>2 DEF Place
    <3> QED
      BY <3>1, <1>m, <1>u DEF Numbered
  <2> QED
    BY <2>1, <2>2
<1>4. Flagged'
  <2>1. hpc' \in {"base", "slots"}
    BY <1>u DEF Place
  <2> QED
    BY <1>m, <1>u, <2>1 DEF Flagged
<1>5. \A b \in Bufs, s \in Tids, i \in Places :
        b # d_curDevBuf /\ slot'[b][s][i] # 0 =>
          /\ d_bufrdy[b] = 1
          /\ slot'[b][s][0] # 0 \/ (b = h_curDevBuf /\ s = region)
  <2> SUFFICES ASSUME NEW b \in Bufs, NEW s \in Tids, NEW i \in Places,
                      b # d_curDevBuf, slot'[b][s][i] # 0
               PROVE  /\ d_bufrdy[b] = 1
                      /\ slot'[b][s][0] # 0 \/ (b = h_curDevBuf /\ s = region)
    OBVIOUS
  <2>1. slot[b][s][i] # 0
    BY <1>1
  <2>2. /\ d_bufrdy[b] = 1
        /\ slot[b][s][0] # 0 \/ (b = h_curDevBuf /\ s = region)
    BY <2>1, <1>m DEF Swept
  <2> QED
    BY <2>2, <1>1, Sizes
\* Slots the CPU has passed.
<1>6. \A s \in Tids, i \in Places :
        s < region \/ (s = region /\ i < place) \/ (s = region /\ i = place)
          => slot'[h_curDevBuf][s][i] = 0
  <2>1. \A s \in Tids, i \in Places :
          s < region \/ (s = region /\ i < place) => slot[h_curDevBuf][s][i] = 0
    BY <1>m, <1>u DEF Swept
  <2> QED
    BY <2>1, <1>1, <1>b
<1>7. CASE place < LastPlace
  <2>1. hpc' = "slots" /\ region' = region /\ place' = place + 1
    BY <1>7, <1>u DEF Place
  <2>2. \A i \in Places : i < place + 1 => i < place \/ i = place
    BY <1>b DEF Places
  <2>3. \A s \in Tids, i \in Places :
          s < region \/ (s = region /\ i < place + 1) => slot'[h_curDevBuf][s][i] = 0
    BY <2>2, <1>6
  <2>4. Swept'
    BY <2>1, <2>3, <1>5, <1>u DEF Swept
  <2> QED
    BY <2>4, <1>2, <1>3, <1>4 DEF MailInv
<1>8. CASE ~(place < LastPlace)
  <2>1. hpc' = "base" /\ region' = region + 1
    BY <1>8, <1>u DEF Place
  <2>2. \A i \in Places : i < place \/ i = place
    BY <1>8, <1>b DEF Places, LastPlace
  <2>3. \A s \in Tids : s < region + 1 => s < region \/ s = region
    BY <1>b DEF Tids
  <2>4. \A s \in Tids, i \in Places : s < region + 1 => slot'[h_curDevBuf][s][i] = 0
    BY <2>2, <2>3, <1>6
  <2>5. \A b \in Bufs, s \in Tids, i \in Places :
          b # d_curDevBuf /\ slot'[b][s][i] # 0 =>
            d_bufrdy[b] = 1 /\ slot'[b][s][0] # 0
    <3>1. \A i \in Places : slot'[h_curDevBuf][region][i] = 0
      BY <2>2, <1>6, <1>b
    <3> QED
      BY <3>1, <1>5
  <2>6. Swept'
    BY <2>1, <2>4, <2>5, <1>u DEF Swept
  <2> QED
    BY <2>6, <1>2, <1>3, <1>4 DEF MailInv
<1> QED
  BY <1>7, <1>8

\* A launch finds the buffer it turns to empty.
LEMMA OtherEmpty ==
  ASSUME MailInv, hpc = "peek"
  PROVE  /\ \A s \in Tids, i \in Places : slot[Other(d_curDevBuf)][s][i] = 0
         /\ \A b \in Bufs : d_bufrdy[b] = 0
<1>1. d_curDevBuf \in Bufs
  BY Types DEF MailInv
<1> QED
  BY <1>1, TwoBufs DEF MailInv, Flagged, Swept

LEMMA MailLaunch == ASSUME MailInv, InsertInv', ChangeHostQueue PROVE MailInv'
<1>m. InsertInv /\ Undisturbed /\ Filling /\ Numbered /\ Flagged /\ Swept
  BY DEF MailInv
<1>u. /\ slot' = slot /\ d_curDevBuf' = Other(d_curDevBuf)
      /\ d_bufrdy' = [d_bufrdy EXCEPT ![d_curDevBuf] = 1]
      /\ tpc' = tpc /\ index' = index /\ seen' = seen /\ born' = born
      /\ scheduled' = scheduled /\ hpc = "peek" /\ hpc' = "start"
  BY DEF ChangeHostQueue
<1>b. d_curDevBuf \in Bufs /\ d_bufrdy \in [Bufs -> {0, 1}]
  BY <1>m DEF InsertInv, TypeOK
<1>i. \A s \in Tids : tpc[s] = "scan" /\ index[s] = 0
  <2>1. \A s \in Tids : left[s] = 0 /\ tpc[s] = "scan"
    BY DEF ChangeHostQueue, KernelIdle
  <2> QED
    BY <2>1, <1>m DEF Undisturbed
<1>e. \A s \in Tids, i \in Places : slot[Other(d_curDevBuf)][s][i] = 0
  BY <1>u, OtherEmpty
<1>1. Undisturbed'
  BY <1>u, <1>i DEF Undisturbed
<1>2. Filling'
  <2>1. \A s \in Tids : \A i \in Places : ~(i < index[s])
    BY <1>i, <1>m, Types
  <2> QED
    BY <2>1, <1>u, <1>i, <1>e DEF Filling
<1>3. Numbered'
  BY <1>m, <1>u DEF Numbered
<1>4. Flagged'
  BY <1>u, <1>b, OtherEmpty, TwoBufs DEF Flagged
<1>5. Swept'
  <2> SUFFICES ASSUME NEW b \in Bufs, NEW s \in Tids, NEW i \in Places,
                      b # Other(d_curDevBuf), slot[b][s][i] # 0
               PROVE  d_bufrdy'[b] = 1 /\ slot[b][s][0] # 0
    BY <1>u DEF Swept
  <2>1. b = d_curDevBuf
    BY <1>b, TwoBufs
  <2>2. d_bufrdy'[b] = 1
    BY <2>1, <1>u, <1>b
  <2>3. i = 0 \/ 0 < i
    BY <1>m, Types
  <2>4. 0 < i => slot[b][s][0] # 0
    BY <2>1, <1>m, Sizes DEF Filling
  <2> QED
    BY <2>2, <2>3, <2>4
<1> QED
  BY <1>1, <1>2, <1>3, <1>4, <1>5 DEF MailInv

LEMMA MailInvStep ==
  ASSUME Budget <= MAX_NEW_EVENTS PROVE MailInv /\ [Next]_vars => MailInv'
<1> SUFFICES ASSUME MailInv, [Next]_vars PROVE MailInv'
  OBVIOUS
<1>i. InsertInv'
  BY InsertInvStep DEF MailInv
<1>1. ASSUME NEW t \in Tids, d_insert(t) PROVE MailInv'
  <2>1. ~(TryLock(t) \/ SetReady(t) \/ Toggle(t) \/ Unlock(t))
    BY DEF MailInv, Undisturbed, TryLock, SetReady, Toggle, Unlock
  <2> QED
    BY <1>1, <1>i, <2>1, MailScan, MailStore DEF d_insert
<1>2. CASE CollectStart \/ Base \/ Place \/ CollectNext \/ Loop
  BY <1>2, <1>i, MailCollectStart, MailBase, MailPlace, MailCollectNext, MailLoop
<1>3. CASE ChangeHostQueue
  BY <1>3, <1>i, MailLaunch
<1>4. CASE UNCHANGED vars
  BY <1>4, <1>i DEF vars, bufVars, threadVars, hostVars, MailInv, Undisturbed, Filling,
     Numbered, Flagged, Swept
<1> QED
  BY <1>1, <1>2, <1>3, <1>4 DEF Next

----------------------------------------------------------------------------
(* Every step is a step of the mailbox, or leaves it alone.                *)

LEMMA HeldMember ==
  /\ \A b : \A e : e \in Held(b) <=>
       \E s \in Tids, i \in Places : slot[b][s][i] # 0 /\ e = <<s, slot[b][s][i]>>
  /\ \A b : \A e : e \in Held(b)' <=>
       \E s \in Tids, i \in Places : slot'[b][s][i] # 0 /\ e = <<s, slot'[b][s][i]>>
<1>1. \A b : \A e : e \in Held(b) <=>
       \E s \in Tids, i \in Places : slot[b][s][i] # 0 /\ e = <<s, slot[b][s][i]>>
  BY DEF Held
<1>2. \A b : \A e : e \in Held(b)' <=>
       \E s \in Tids, i \in Places : slot'[b][s][i] # 0 /\ e = <<s, slot'[b][s][i]>>
  BY DEF Held
<1> QED
  BY <1>1, <1>2

LEMMA GivenMember ==
  /\ \A e : e \in Given <=> \E s \in Tids : \E n \in scheduled[s] : e = <<s, n>>
  /\ \A e : e \in Given' <=> \E s \in Tids : \E n \in scheduled'[s] : e = <<s, n>>
<1>1. \A e : e \in Given <=> \E s \in Tids : \E n \in scheduled[s] : e = <<s, n>>
  BY DEF Given
<1>2. \A e : e \in Given' <=> \E s \in Tids : \E n \in scheduled'[s] : e = <<s, n>>
  BY DEF Given
<1> QED
  BY <1>1, <1>2

\* An event that has not been made is nowhere.
LEMMA NewIsNowhere ==
  ASSUME MailInv, NEW t \in Tids
  PROVE  /\ \A b \in Bufs : <<t, born[t] + 1>> \notin Held(b)
         /\ <<t, born[t] + 1>> \notin Given
<1>m. InsertInv /\ Numbered
  BY DEF MailInv
<1>1. ASSUME NEW b \in Bufs, <<t, born[t] + 1>> \in Held(b) PROVE FALSE
  <2>1. PICK i \in Places : slot[b][t][i] = born[t] + 1
    BY <1>1, HeldMember
  <2>2. slot[b][t][i] <= born[t] /\ born[t] \in Nat
    BY <1>m, Types DEF Numbered
  <2> QED
    BY <2>1, <2>2
<1>2. ASSUME <<t, born[t] + 1>> \in Given PROVE FALSE
  <2>1. born[t] + 1 \in scheduled[t]
    BY <1>2, GivenMember
  <2>2. born[t] + 1 <= born[t] /\ born[t] \in Nat
    BY <2>1, <1>m, Types DEF Numbered
  <2> QED
    BY <2>2
<1> QED
  BY <1>1, <1>2

\* Store inserts an event.
LEMMA StoreInserts == ASSUME MailInv, NEW t \in Tids, Store(t) PROVE Mail!Insert
<1>m. InsertInv
  BY DEF MailInv
<1>c. PICK c \in Bufs : c = d_curDevBuf
  BY <1>m, Types
<1>p. PICK p \in Places : p = index[t]
  BY <1>m, Types
<1>n. PICK n \in Nat : n = born[t] + 1 /\ n # 0
  BY <1>m, Types
<1>s. /\ \A b \in Bufs, s \in Tids, i \in Places :
           slot'[b][s][i] = IF b = c /\ s = t /\ i = p THEN n ELSE slot[b][s][i]
      /\ slot[c][t][p] = 0
  BY <1>c, <1>p, <1>n, StoreSlot
<1>1. Held(c)' = Held(c) \cup {<<t, n>>}
  <2>1. ASSUME NEW x, x \in Held(c)' PROVE x \in Held(c) \cup {<<t, n>>}
    <3>1. PICK s \in Tids, i \in Places : slot'[c][s][i] # 0 /\ x = <<s, slot'[c][s][i]>>
      BY <2>1, HeldMember
    <3>2. CASE s = t /\ i = p
      BY <3>1, <3>2, <1>s
    <3>3. CASE ~(s = t /\ i = p)
      <4>1. slot'[c][s][i] = slot[c][s][i]
        BY <3>3, <1>s
      <4> QED
        BY <3>1, <4>1, HeldMember
    <3> QED
      BY <3>2, <3>3
  <2>2. ASSUME NEW x \in Held(c) PROVE x \in Held(c)'
    <3>1. PICK s \in Tids, i \in Places : slot[c][s][i] # 0 /\ x = <<s, slot[c][s][i]>>
      BY HeldMember
    <3>2. slot'[c][s][i] = slot[c][s][i]
      BY <3>1, <1>s
    <3> QED
      BY <3>1, <3>2, HeldMember
  <2>3. <<t, n>> \in Held(c)'
    <3>1. slot'[c][t][p] = n
      BY <1>s
    <3> QED
      BY <3>1, <1>n, HeldMember
  <2> QED
    BY <2>1, <2>2, <2>3
<1>2. \A b \in Bufs : b # c => Held(b)' = Held(b)
  <2> SUFFICES ASSUME NEW b \in Bufs, b # c PROVE Held(b)' = Held(b)
    OBVIOUS
  <2>1. \A s \in Tids, i \in Places : slot'[b][s][i] = slot[b][s][i]
    BY <1>s
  <2>2. \A x : x \in Held(b)' <=> x \in Held(b)
    BY <2>1, HeldMember
  <2> QED
    BY <2>2
<1>3. /\ \A b \in Bufs : <<t, n>> \notin Held(b)
      /\ <<t, n>> \notin Given
  BY <1>n, NewIsNowhere
<1>4. d_curDevBuf' = d_curDevBuf /\ d_bufrdy' = d_bufrdy /\ Given' = Given
  BY DEF Store, hostVars, Given
<1>5. [b \in Bufs |-> Held(b)'] =
        [[b \in Bufs |-> Held(b)] EXCEPT ![c] = Held(c) \cup {<<t, n>>}]
  BY <1>1, <1>2
<1> QED
  BY <1>c, <1>1, <1>3, <1>4, <1>5 DEF Mail!Insert, Bufs

\* Taking a valid slot takes an event out of a ready buffer.
LEMMA TakeTakes ==
  ASSUME MailInv, NEW p \in Places, region < N, Take(p), hpc \in {"base", "slots"},
         slot[h_curDevBuf][region][p] # 0, UNCHANGED <<d_curDevBuf, d_bufrdy>>
  PROVE  Mail!Take
<1>m. InsertInv /\ Numbered /\ Flagged
  BY DEF MailInv
<1>c. PICK c \in Bufs : c = h_curDevBuf
  BY <1>m, Types
<1>r. PICK r \in Tids : r = region
  BY <1>m, TakeSlot
<1>n. PICK n : n = slot[c][r][p]
  OBVIOUS
<1>s. /\ \A b \in Bufs, s \in Tids, i \in Places :
           slot'[b][s][i] = IF b = c /\ s = r /\ i = p THEN 0 ELSE slot[b][s][i]
      /\ \A s \in Tids : scheduled'[s] = IF s = r THEN scheduled[s] \cup {n} ELSE scheduled[s]
      /\ n # 0
  <2>1. n = slot[h_curDevBuf][region][p]
    BY <1>c, <1>r, <1>n
  <2>2. /\ \A b \in Bufs, s \in Tids, i \in Places :
             slot'[b][s][i] = IF b = h_curDevBuf /\ s = region /\ i = p
                              THEN 0 ELSE slot[b][s][i]
        /\ \A s \in Tids :
             scheduled'[s] = IF s = region
                             THEN scheduled[s] \cup {slot[h_curDevBuf][region][p]}
                             ELSE scheduled[s]
    BY <1>m, TakeSlot
  <2>3. \A b \in Bufs, s \in Tids, i \in Places :
          slot'[b][s][i] = IF b = c /\ s = r /\ i = p THEN 0 ELSE slot[b][s][i]
    BY <2>2, <1>c, <1>r
  <2>4. \A s \in Tids : scheduled'[s] = IF s = r THEN scheduled[s] \cup {n} ELSE scheduled[s]
    BY <2>1, <2>2, <1>r
  <2>5. n # 0
    BY <2>1
  <2> QED
    BY <2>3, <2>4, <2>5
<1>f. c # d_curDevBuf /\ d_bufrdy[c] = 1
  BY <1>m, <1>c DEF Flagged
<1>u. \A i \in Places : slot[c][r][i] = n => i = p
  <2>1. \A b \in Bufs, i, j \in Places :
          slot[b][r][i] # 0 /\ slot[b][r][i] = slot[b][r][j] => i = j
    BY <1>m DEF Numbered
  <2> QED
    BY <2>1, <1>n, <1>s
<1>1. <<r, n>> \in Held(c)
  BY <1>n, <1>s, HeldMember
<1>2. Held(c)' = Held(c) \ {<<r, n>>}
  <2>1. ASSUME NEW x, x \in Held(c)' PROVE x \in Held(c) /\ x # <<r, n>>
    <3>1. PICK s \in Tids, i \in Places : slot'[c][s][i] # 0 /\ x = <<s, slot'[c][s][i]>>
      BY <2>1, HeldMember
    <3>2. slot'[c][s][i] = slot[c][s][i] /\ ~(s = r /\ i = p)
      BY <3>1, <1>s
    <3>3. x \in Held(c)
      BY <3>1, <3>2, HeldMember
    <3>4. x # <<r, n>>
      BY <3>1, <3>2, <1>u
    <3> QED
      BY <3>3, <3>4
  <2>2. ASSUME NEW x \in Held(c), x # <<r, n>> PROVE x \in Held(c)'
    <3>1. PICK s \in Tids, i \in Places : slot[c][s][i] # 0 /\ x = <<s, slot[c][s][i]>>
      BY HeldMember
    <3>2. ~(s = r /\ i = p)
      BY <2>2, <3>1, <1>n
    <3>3. slot'[c][s][i] = slot[c][s][i]
      BY <3>2, <1>s
    <3> QED
      BY <3>1, <3>3, HeldMember
  <2> QED
    BY <2>1, <2>2
<1>3. \A b \in Bufs : b # c => Held(b)' = Held(b)
  <2> SUFFICES ASSUME NEW b \in Bufs, b # c PROVE Held(b)' = Held(b)
    OBVIOUS
  <2>1. \A s \in Tids, i \in Places : slot'[b][s][i] = slot[b][s][i]
    BY <1>s
  <2>2. \A x : x \in Held(b)' <=> x \in Held(b)
    BY <2>1, HeldMember
  <2> QED
    BY <2>2
<1>4. Given' = Given \cup {<<r, n>>}
  <2>1. ASSUME NEW x, x \in Given' PROVE x \in Given \cup {<<r, n>>}
    <3>1. PICK s \in Tids : \E k \in scheduled'[s] : x = <<s, k>>
      BY <2>1, GivenMember
    <3>2. PICK k \in scheduled'[s] : x = <<s, k>>
      BY <3>1
    <3>3. CASE k \in scheduled[s]
      BY <3>2, <3>3, GivenMember
    <3>4. CASE k \notin scheduled[s]
      <4>1. scheduled'[s] = IF s = r THEN scheduled[s] \cup {n} ELSE scheduled[s]
        BY <1>s
      <4>2. s = r /\ k = n
        BY <3>4, <4>1
      <4> QED
        BY <3>2, <4>2
    <3> QED
      BY <3>3, <3>4
  <2>2. ASSUME NEW x \in Given PROVE x \in Given'
    <3>1. PICK s \in Tids : \E k \in scheduled[s] : x = <<s, k>>
      BY GivenMember
    <3>2. PICK k \in scheduled[s] : x = <<s, k>>
      BY <3>1
    <3>3. k \in scheduled'[s]
      BY <1>s
    <3> QED
      BY <3>2, <3>3, GivenMember
  <2>3. <<r, n>> \in Given'
    <3>1. n \in scheduled'[r]
      BY <1>s
    <3> QED
      BY <3>1, GivenMember
  <2> QED
    BY <2>1, <2>2, <2>3
<1>5. [b \in Bufs |-> Held(b)'] =
        [[b \in Bufs |-> Held(b)] EXCEPT ![c] = Held(c) \ {<<r, n>>}]
  BY <1>2, <1>3
<1>6. c \in {1, 2} \ {d_curDevBuf}
  BY <1>f DEF Bufs
<1> QED
  BY <1>1, <1>4, <1>5, <1>6, <1>f DEF Mail!Take

\* A launch publishes the current buffer and turns to the other, empty one.
LEMMA LaunchPublishes == ASSUME MailInv, ChangeHostQueue PROVE Mail!Publish
<1>m. InsertInv
  BY DEF MailInv
<1>c. PICK c \in Bufs : c = Other(d_curDevBuf)
  BY <1>m, Types, TwoBufs
<1>1. /\ \A s \in Tids, i \in Places : slot[c][s][i] = 0
      /\ d_bufrdy[c] = 0
  BY <1>c, OtherEmpty DEF ChangeHostQueue
<1>2. Held(c) = {}
  BY <1>1, HeldMember
<1>3. /\ d_bufrdy' = [d_bufrdy EXCEPT ![d_curDevBuf] = 1] /\ d_curDevBuf' = Other(d_curDevBuf)
      /\ [b \in Bufs |-> Held(b)'] = [b \in Bufs |-> Held(b)] /\ Given' = Given
  BY DEF ChangeHostQueue, Held, Given
<1> QED
  BY <1>c, <1>1, <1>2, <1>3 DEF Mail!Publish, Mail!OtherBox, Other

\* The end of a pass closes a buffer that is empty.
LEMMA NextCloses == ASSUME MailInv, CollectNext PROVE Mail!Close
<1>m. InsertInv
  BY DEF MailInv
<1>c. PICK c \in Bufs : c = h_curDevBuf
  BY <1>m, Types
<1>1. c # d_curDevBuf /\ \A s \in Tids, i \in Places : slot[c][s][i] = 0
  BY <1>c, AllSwept DEF CollectNext
<1>2. Held(c) = {}
  BY <1>1, HeldMember
<1>3. /\ d_bufrdy' = [d_bufrdy EXCEPT ![c] = 0] /\ d_curDevBuf' = d_curDevBuf
      /\ [b \in Bufs |-> Held(b)'] = [b \in Bufs |-> Held(b)] /\ Given' = Given
  BY <1>c DEF CollectNext, Held, Given
<1>4. c \in {1, 2} \ {d_curDevBuf}
  BY <1>1 DEF Bufs
<1> QED
  BY <1>2, <1>3, <1>4 DEF Mail!Close

LEMMA MailInit == Init => Mail!Init
<1> SUFFICES ASSUME Init PROVE Mail!Init
  OBVIOUS
<1>1. \A b \in Bufs : Held(b) = {}
  <2>1. \A b \in Bufs, s \in Tids, i \in Places : slot[b][s][i] = 0
    BY DEF Init
  <2> QED
    BY <2>1, HeldMember
<1>2. Given = {}
  <2>1. \A s \in Tids : scheduled[s] = {}
    BY DEF Init
  <2> QED
    BY <2>1, GivenMember
<1> QED
  BY <1>1, <1>2 DEF Mail!Init, Init, Bufs

LEMMA MailStep == MailInv /\ [Next]_vars => [Mail!Next]_(Mail!mailVars)
<1> SUFFICES ASSUME MailInv, [Next]_vars PROVE Mail!Next \/ UNCHANGED Mail!mailVars
  OBVIOUS
<1>k. UNCHANGED <<slot, scheduled, d_curDevBuf, d_bufrdy>> => UNCHANGED Mail!mailVars
  BY DEF Mail!mailVars, Held, Given
<1>1. ASSUME NEW t \in Tids, d_insert(t) PROVE Mail!Next \/ UNCHANGED Mail!mailVars
  <2>1. ~(TryLock(t) \/ SetReady(t) \/ Toggle(t) \/ Unlock(t))
    BY DEF MailInv, Undisturbed, TryLock, SetReady, Toggle, Unlock
  <2>2. CASE Scan(t)
    BY <2>2, <1>k DEF Scan, bufVars, hostVars
  <2>3. CASE Store(t)
    BY <2>3, StoreInserts DEF Mail!Next
  <2> QED
    BY <1>1, <2>1, <2>2, <2>3 DEF d_insert
<1>2. CASE CollectStart
  BY <1>2, <1>k DEF CollectStart, bufVars
<1>3. CASE Base
  <2>1. CASE slot[h_curDevBuf][region][0] # 0
    <3>1. Take(0) /\ region < N /\ hpc = "base" /\ UNCHANGED <<d_curDevBuf, d_bufrdy>>
      BY <1>3, <2>1 DEF Base
    <3> QED
      BY <3>1, <2>1, Sizes, TakeTakes DEF Mail!Next
  <2>2. CASE slot[h_curDevBuf][region][0] = 0
    BY <1>3, <2>2, <1>k DEF Base
  <2> QED
    BY <2>1, <2>2
<1>4. CASE Place
  <2>1. CASE slot[h_curDevBuf][region][place] # 0
    <3>1. Take(place) /\ hpc = "slots" /\ UNCHANGED <<d_curDevBuf, d_bufrdy>>
      BY <1>4, <2>1 DEF Place
    <3>2. region < N /\ place \in Places
      BY <3>1 DEF MailInv, InsertInv, TypeOK
    <3> QED
      BY <3>1, <3>2, <2>1, TakeTakes DEF Mail!Next
  <2>2. CASE slot[h_curDevBuf][region][place] = 0
    BY <1>4, <2>2, <1>k DEF Place
  <2> QED
    BY <2>1, <2>2
<1>5. CASE CollectNext
  BY <1>5, NextCloses DEF Mail!Next
<1>6. CASE Loop
  BY <1>6, <1>k DEF Loop, bufVars
<1>7. CASE ChangeHostQueue
  BY <1>7, LaunchPublishes DEF Mail!Next
<1>8. CASE UNCHANGED vars
  BY <1>8, <1>k DEF vars, bufVars, hostVars
<1> QED
  BY <1>1, <1>2, <1>3, <1>4, <1>5, <1>6, <1>7, <1>8 DEF Next

\* ImplementsMailbox: as long as no thread makes more insertions in a kernel
\* than its region has slots, d_insert and ELP_ScheduleDevEvent, interleaved
\* in any way, pass on each event once, lose none, and never collect from
\* under a running kernel.
THEOREM RegionsImplementMailbox ==
  ASSUME Budget <= MAX_NEW_EVENTS PROVE Spec => ImplementsMailbox
<1>1. Init => MailInv
  BY InitMailInv
<1>2. MailInv /\ [Next]_vars => MailInv'
  BY MailInvStep
<1> QED
  BY <1>1, <1>2, MailInit, MailStep, PTL DEF Spec, ImplementsMailbox, Mail!Spec
=============================================================================
