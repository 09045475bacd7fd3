---------------------------- MODULE DeviceInsert -----------------------------
(***************************************************************************)
(* How events generated on the device reach the heap: d_insert, run by the *)
(* threads of a kernel, and ELP_ScheduleDevEvent, run by the CPU at the    *)
(* same time.  Each thread owns a region of MAX_NEW_EVENTS slots in both   *)
(* next-event buffers.  The CPU looks into a region only if its first slot *)
(* is valid.  A thread that finds its region full changes the buffers of   *)
(* everybody (ChangeDevQueue) under d_changeQueueLock.                     *)
(*                                                                         *)
(* Abstractions.  The n-th event of thread t is the number n in a slot of  *)
(* t's region; 0 is a slot whose valid flag is false.  d_curDevBuf is a    *)
(* plain member that other threads change: inside one turn of the loop of  *)
(* d_insert an access sees the value of the last access or the current     *)
(* one.  The rest of ELP_RunSK is the choice, after a collection, between  *)
(* another one and ChangeHostQueue, which waits for the kernel.            *)
(***************************************************************************)
EXTENDS Integers, FiniteSets

CONSTANTS
  N,                  \* threads of the kernel
  MAX_NEW_EVENTS,     \* slots of a region
  Budget,             \* bound: insertions of a thread in one kernel
  MaxKernels          \* bound: kernels launched

ASSUME InsertAssumption ==
  /\ N \in Nat \ {0} /\ MAX_NEW_EVENTS \in Nat /\ MAX_NEW_EVENTS >= 2
  /\ Budget \in Nat /\ MaxKernels \in Nat

Tids == 0 .. N - 1
Bufs == {1, 2}
Other(b) == 3 - b
Places == 0 .. MAX_NEW_EVENTS - 1

VARIABLES
  slot,               \* slot[b][t][i]: d_nextEventQueue1, 2
  d_curDevBuf, d_bufrdy,
  d_changeQueueLock,
  tpc, index, seen,   \* of a thread: where, its index, last buffer it saw
  left,               \* insertions its handlers still make in this kernel
  born,               \* history: insertions it has made
  hpc,                \* where the CPU thread is in ELP_RunSK
  h_curDevBuf, pass,  \* buffer being collected, first or second of the call
  region, place,      \* i and j of ELP_ScheduleDevEvent
  scheduled,          \* scheduled[t]: events of t given to ELP_Schedule
  kernels             \* kernels launched so far

bufVars == <<slot, d_curDevBuf, d_bufrdy, d_changeQueueLock>>
threadVars == <<tpc, index, seen, left, born>>
hostVars == <<hpc, h_curDevBuf, pass, region, place, scheduled, kernels>>
vars == <<bufVars, threadVars, hostVars>>

Init ==
  /\ slot = [b \in Bufs |-> [t \in Tids |-> [i \in Places |-> 0]]]
  /\ d_curDevBuf = 1 /\ d_bufrdy = [b \in Bufs |-> 0] /\ d_changeQueueLock = 0
  /\ tpc = [t \in Tids |-> "scan"] /\ index = [t \in Tids |-> 0]
  /\ seen = [t \in Tids |-> 1]
  /\ left = [t \in Tids |-> 0] /\ born = [t \in Tids |-> 0]
  /\ hpc = "start" /\ h_curDevBuf = 1 /\ pass = 1 /\ region = 0 /\ place = 0
  /\ scheduled = [t \in Tids |-> {}] /\ kernels = 0

----------------------------------------------------------------------------
(* d_insert, thread t.                                                     *)

\* More slots in the region after slot i: the test against limit, which comes
\* after the increment of index.
HasNext_Late(i) == i < MAX_NEW_EVENTS
HasNext(i) == i + 1 < MAX_NEW_EVENTS

\* The buffer an access through d_curDevBuf goes to.
Seen(t) == IF index[t] = 0 /\ tpc[t] = "scan" THEN {d_curDevBuf}
           ELSE {seen[t], d_curDevBuf}

(* Look at the next slot of the region: free, or taken and go on, or the   *)
(* last one taken and start again after a change of buffers.               *)
Scan(t) ==
  /\ tpc[t] = "scan" /\ left[t] > 0
  /\ \E b \in Seen(t) :
       /\ seen' = [seen EXCEPT ![t] = b]
       /\ \/ /\ slot[b][t][index[t]] = 0
             /\ tpc' = [tpc EXCEPT ![t] = "store"] /\ index' = index
          \/ /\ slot[b][t][index[t]] # 0 /\ HasNext(index[t])
             /\ index' = [index EXCEPT ![t] = @ + 1] /\ tpc' = tpc
          \/ /\ slot[b][t][index[t]] # 0 /\ ~HasNext(index[t])
             /\ index' = [index EXCEPT ![t] = 0]
             /\ tpc' = [tpc EXCEPT ![t] = "full"]
  /\ UNCHANGED <<bufVars, left, born, hostVars>>

(* Fill it: the first slot is addressed through d_curDevBuf again, a later *)
(* one through the pointer that was tested.                                *)
Store(t) ==
  /\ tpc[t] = "store"
  /\ \E b \in IF index[t] = 0 THEN Seen(t) ELSE {seen[t]} :
       slot' = [slot EXCEPT ![b][t][index[t]] = born[t] + 1]
  /\ born' = [born EXCEPT ![t] = @ + 1]
  /\ left' = [left EXCEPT ![t] = @ - 1]
  /\ tpc' = [tpc EXCEPT ![t] = "scan"]
  /\ index' = [index EXCEPT ![t] = 0]
  /\ UNCHANGED <<d_curDevBuf, d_bufrdy, d_changeQueueLock, seen, hostVars>>

\* atomicCAS on the lock: only one thread goes on to ChangeDevQueue.
TryLock_NoCas(t) ==
  /\ tpc[t] = "full"
  /\ d_changeQueueLock' = 1
  /\ tpc' = [tpc EXCEPT ![t] = "ready"]
  /\ UNCHANGED <<slot, d_curDevBuf, d_bufrdy, index, seen, left, born, hostVars>>
TryLock(t) ==
  /\ tpc[t] = "full"
  /\ \/ /\ d_changeQueueLock = 0 /\ d_changeQueueLock' = 1
        /\ tpc' = [tpc EXCEPT ![t] = "ready"]
     \/ /\ d_changeQueueLock = 1 /\ d_changeQueueLock' = 1
        /\ tpc' = [tpc EXCEPT ![t] = "scan"]
  /\ UNCHANGED <<slot, d_curDevBuf, d_bufrdy, index, seen, left, born, hostVars>>

(* ChangeDevQueue, statement by statement: flag, then pointers.            *)
SetReady(t) ==
  /\ tpc[t] = "ready"
  /\ d_bufrdy' = [d_bufrdy EXCEPT ![d_curDevBuf] = 1]
  /\ tpc' = [tpc EXCEPT ![t] = "toggle"]
  /\ UNCHANGED <<slot, d_curDevBuf, d_changeQueueLock, index, seen, left, born, hostVars>>

Toggle(t) ==
  /\ tpc[t] = "toggle"
  /\ d_curDevBuf' = Other(d_curDevBuf)
  /\ tpc' = [tpc EXCEPT ![t] = "unlock"]
  /\ UNCHANGED <<slot, d_bufrdy, d_changeQueueLock, index, seen, left, born, hostVars>>

Unlock(t) ==
  /\ tpc[t] = "unlock"
  /\ d_changeQueueLock' = 0
  /\ tpc' = [tpc EXCEPT ![t] = "scan"]
  /\ UNCHANGED <<slot, d_curDevBuf, d_bufrdy, index, seen, left, born, hostVars>>

d_insert(t) == Scan(t) \/ Store(t) \/ TryLock(t) \/ SetReady(t) \/ Toggle(t) \/ Unlock(t)

----------------------------------------------------------------------------
(* ELP_ScheduleDevEvent, the CPU thread.                                   *)

\* Nothing ready, or start with buffer 1 if it is.
CollectStart ==
  /\ hpc = "start"
  /\ IF \A b \in Bufs : d_bufrdy[b] = 0
     THEN hpc' = "peek" /\ h_curDevBuf' = h_curDevBuf
     ELSE hpc' = "base" /\ h_curDevBuf' = IF d_bufrdy[1] = 1 THEN 1 ELSE 2
  /\ pass' = 1 /\ region' = 0 /\ place' = 0
  /\ UNCHANGED <<bufVars, threadVars, scheduled, kernels>>

\* ELP_Schedule of the event of slot i, which becomes invalid.
Take_KeepValid(i) ==
  /\ scheduled' = [scheduled EXCEPT ![region] = @ \cup {slot[h_curDevBuf][region][i]}]
  /\ UNCHANGED slot
Take(i) ==
  /\ scheduled' = [scheduled EXCEPT ![region] = @ \cup {slot[h_curDevBuf][region][i]}]
  /\ slot' = [slot EXCEPT ![h_curDevBuf][region][i] = 0]

\* First slot of a region: only if it is valid are the others looked at.
Base ==
  /\ hpc = "base" /\ region < N
  /\ IF slot[h_curDevBuf][region][0] # 0
     THEN Take(0) /\ hpc' = "slots" /\ place' = 0 /\ region' = region
     ELSE /\ region' = region + 1
          /\ UNCHANGED <<scheduled, slot, hpc, place>>
  /\ UNCHANGED <<d_curDevBuf, d_bufrdy, d_changeQueueLock, threadVars, h_curDevBuf,
                 pass, kernels>>

LastPlace_OneLess == MAX_NEW_EVENTS - 2
LastPlace == MAX_NEW_EVENTS - 1

Place ==
  /\ hpc = "slots"
  /\ IF slot[h_curDevBuf][region][place] # 0
     THEN Take(place) ELSE UNCHANGED <<scheduled, slot>>
  /\ IF place < LastPlace
     THEN place' = place + 1 /\ UNCHANGED <<hpc, region>>
     ELSE place' = 0 /\ hpc' = "base" /\ region' = region + 1
  /\ UNCHANGED <<d_curDevBuf, d_bufrdy, d_changeQueueLock, threadVars, h_curDevBuf,
                 pass, kernels>>

\* All regions seen: clear the flag, then the other buffer if it is ready.
CollectNext ==
  /\ hpc = "base" /\ region = N
  /\ d_bufrdy' = [d_bufrdy EXCEPT ![h_curDevBuf] = 0]
  /\ IF pass = 1 /\ d_bufrdy[Other(h_curDevBuf)] = 1
     THEN hpc' = "base" /\ pass' = 2
     ELSE hpc' = "peek" /\ pass' = pass
  /\ h_curDevBuf' = IF pass = 1 THEN Other(h_curDevBuf) ELSE h_curDevBuf
  /\ region' = 0
  /\ UNCHANGED <<slot, d_curDevBuf, d_changeQueueLock, threadVars, place, scheduled,
                 kernels>>

\* The loop of ELP_RunSK goes on without changing the buffers.
Loop ==
  /\ hpc = "peek" /\ hpc' = "start"
  /\ UNCHANGED <<bufVars, threadVars, h_curDevBuf, pass, region, place, scheduled,
                 kernels>>

KernelIdle == \A t \in Tids : left[t] = 0 /\ tpc[t] = "scan"

(* ChangeHostQueue: wait for the kernel, ChangeDevQueue, launch the next   *)
(* one, each thread of which makes any number of insertions in the bound.  *)
ChangeHostQueue ==
  /\ hpc = "peek" /\ KernelIdle /\ kernels < MaxKernels
  /\ d_bufrdy' = [d_bufrdy EXCEPT ![d_curDevBuf] = 1]
  /\ d_curDevBuf' = Other(d_curDevBuf)
  /\ left' \in [Tids -> 0 .. Budget]
  /\ kernels' = kernels + 1
  /\ hpc' = "start"
  /\ UNCHANGED <<slot, d_changeQueueLock, tpc, index, seen, born, h_curDevBuf, pass,
                 region, place, scheduled>>

Next ==
  \/ \E t \in Tids : d_insert(t)
  \/ CollectStart \/ Base \/ Place \/ CollectNext \/ Loop \/ ChangeHostQueue

Spec == Init /\ [][Next]_vars

----------------------------------------------------------------------------
(* Properties.                                                             *)

\* Types; an index never leaves its thread's region (the test against limit
\* in d_insert comes after the increment).
TypeOK ==
  /\ slot \in [Bufs -> [Tids -> [Places -> Nat]]]
  /\ d_curDevBuf \in Bufs /\ d_bufrdy \in [Bufs -> {0, 1}]
  /\ d_changeQueueLock \in {0, 1}
  /\ tpc \in [Tids -> {"scan", "store", "full", "ready", "toggle", "unlock"}]
  /\ index \in [Tids -> Places] /\ seen \in [Tids -> Bufs]
  /\ left \in [Tids -> 0 .. Budget] /\ born \in [Tids -> Nat]
  /\ hpc \in {"start", "base", "slots", "peek"} /\ h_curDevBuf \in Bufs
  /\ pass \in {1, 2} /\ region \in 0 .. N /\ place \in Places
  /\ hpc = "slots" => region < N
  /\ scheduled \in [Tids -> SUBSET Nat] /\ kernels \in 0 .. MaxKernels

Held(b) == {<<t, slot[b][t][i]>> : t \in Tids, i \in Places} \ (Tids \X {0})
Given == UNION {{t} \X scheduled[t] : t \in Tids}

\* Nobody changes the buffers while another thread is changing them.
LockExclusive == \A s, t \in Tids :
  tpc[s] \in {"ready", "toggle", "unlock"} /\ tpc[t] \in {"ready", "toggle", "unlock"}
    => s = t

\* However full the regions get, an event is never both in a slot and
\* scheduled, and never in two slots: none runs twice.
NeverTwice == \A t \in Tids : \A n \in 1 .. born[t] :
  Cardinality({x \in Bufs \X Places : slot[x[1]][t][x[2]] = n})
    + (IF n \in scheduled[t] THEN 1 ELSE 0) <= 1

\* While no region overflows, the regions and flags behave as two sets of
\* events: nothing is lost, left behind or collected from under a kernel.
Mail == INSTANCE DeviceMailbox WITH
  inbox <- [b \in Bufs |-> Held(b)], current <- d_curDevBuf, ready <- d_bufrdy,
  taken <- Given

ImplementsMailbox == Mail!Spec

\* A thread whose region is full changes the "buffer to make CPU consume the
\* events": when the CPU is through with a buffer and clears its flag, and no
\* kernel works on it any more, nothing is left in it.
CpuConsumes == [][\A b \in Bufs :
  d_bufrdy[b] = 1 /\ d_bufrdy'[b] = 0 /\ b # d_curDevBuf /\ KernelIdle
    => Held(b) = {}]_vars
==============================================================================
