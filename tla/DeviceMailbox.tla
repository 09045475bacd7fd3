---------------------------- MODULE DeviceMailbox ----------------------------
(***************************************************************************)
(* What ELP_RunSK relies on for the events that kernels generate: two sets *)
(* used in turn.  A kernel inserts into the current one; between kernels   *)
(* it is published and the other, which must be empty, becomes current;    *)
(* the CPU takes the events of a published set one at a time, and closes   *)
(* it once it is empty.  ElpSimulator uses its device buffers this way.    *)
(***************************************************************************)
EXTENDS Integers

VARIABLES inbox, current, ready, taken

mailVars == <<inbox, current, ready, taken>>

OtherBox(b) == 3 - b

Init ==
  /\ inbox = [b \in {1, 2} |-> {}] /\ taken = {}
  /\ current = 1 /\ ready = [b \in {1, 2} |-> 0]

\* An event is inserted once.
Insert == \E e \in inbox'[current] \ inbox[current] :
  /\ e \notin inbox[1] \cup inbox[2] \cup taken
  /\ inbox' = [inbox EXCEPT ![current] = @ \cup {e}]
  /\ UNCHANGED <<current, ready, taken>>

Publish ==
  /\ inbox[OtherBox(current)] = {} /\ ready[OtherBox(current)] = 0
  /\ ready' = [ready EXCEPT ![current] = 1]
  /\ current' = OtherBox(current)
  /\ UNCHANGED <<inbox, taken>>

Take == \E b \in {1, 2} \ {current} : \E e \in inbox[b] :
  /\ ready[b] = 1
  /\ inbox' = [inbox EXCEPT ![b] = @ \ {e}]
  /\ taken' = taken \cup {e}
  /\ UNCHANGED <<current, ready>>

Close == \E b \in {1, 2} \ {current} :
  /\ inbox[b] = {}
  /\ ready' = [ready EXCEPT ![b] = 0]
  /\ UNCHANGED <<inbox, current, taken>>

Next == Insert \/ Publish \/ Take \/ Close

Spec == Init /\ [][Next]_mailVars
==============================================================================
