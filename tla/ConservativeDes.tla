--------------------------- MODULE ConservativeDes ---------------------------
(***************************************************************************)
(* What an event-level-parallel simulator promises, independently of       *)
(* buffers, kernels and flags.  Events wait in `pending' until they are    *)
(* safe, i.e. earlier than anything the dispatched and not yet collected   *)
(* work can still bring; a safe CPU event runs at once, a safe device      *)
(* event goes `inflight', where it may generate `fresh' events no earlier  *)
(* than its timestamp plus its lookahead.  An event is a record with an    *)
(* identity (eid), a timestamp (ts), a lookahead (la) and a type.          *)
(***************************************************************************)
EXTENDS Integers

CONSTANTS
  Forever,            \* the lookahead of an event that generates nothing
  Cpu                 \* the type of an event that runs on the CPU

VARIABLES
  pending,            \* scheduled, not dispatched
  inflight,           \* dispatched to the device, not retired
  fresh,              \* generated by the device, not yet scheduled
  done,               \* identities of the events that have run
  clock               \* timestamp of the last dispatched event

desVars == <<pending, inflight, fresh, done, clock>>

\* No event generated by the in-flight event e is earlier than this.
EarliestChild(e) == IF e.la = Forever THEN Forever ELSE e.ts + e.la

Known == {e.eid : e \in pending \cup inflight \cup fresh} \cup done

Init ==
  /\ \A e, f \in pending : e.eid = f.eid => e = f
  /\ inflight = {} /\ fresh = {} /\ done = {} /\ clock = 0

Safe(e) ==
  /\ \A f \in pending : e.ts <= f.ts
  /\ \A f \in inflight : e.ts < EarliestChild(f)
  /\ \A f \in fresh : e.ts <= f.ts

\* A CPU event runs; the clock never goes back.
RunOnHost == \E e \in pending :
  /\ e.type = Cpu /\ Safe(e) /\ e.ts >= clock
  /\ pending' = pending \ {e}
  /\ done' = done \cup {e.eid}
  /\ clock' = e.ts
  /\ UNCHANGED <<inflight, fresh>>

Dispatch == \E e \in pending :
  /\ e.type # Cpu /\ Safe(e) /\ e.ts >= clock
  /\ pending' = pending \ {e}
  /\ inflight' = inflight \cup {e}
  /\ clock' = e.ts
  /\ UNCHANGED <<fresh, done>>

\* New events from the CPU side, never in the past; another thread may have
\* queued several.
Schedule == LET new == pending' \ pending IN
  /\ new # {}
  /\ \A e \in new : e.eid \notin Known /\ e.ts >= clock
  /\ \A e, f \in new : e.eid = f.eid => e = f
  /\ pending \subseteq pending'
  /\ UNCHANGED <<inflight, fresh, done, clock>>

Generate == \E e \in fresh' \ fresh, f \in inflight :
  /\ e.eid \notin Known /\ f.la # Forever /\ e.ts >= EarliestChild(f)
  /\ fresh' = fresh \cup {e}
  /\ UNCHANGED <<pending, inflight, done, clock>>

Retire == \E e \in inflight :
  /\ inflight' = inflight \ {e}
  /\ done' = done \cup {e.eid}
  /\ UNCHANGED <<pending, fresh, clock>>

Collect == \E e \in fresh :
  /\ fresh' = fresh \ {e}
  /\ pending' = pending \cup {e}
  /\ UNCHANGED <<inflight, done, clock>>

Next == RunOnHost \/ Dispatch \/ Schedule \/ Generate \/ Retire \/ Collect

Spec == Init /\ [][Next]_desVars
==============================================================================
