--------------------------- MODULE MCElpSimulator ----------------------------
(* ElpSimulator on a small instance: two CPU events are scheduled before    *)
(* the run, as the start and the stop of an application.                    *)
EXTENDS ElpSimulator

MCInitialEvents ==
  {[eid |-> 1, ts |-> 0, type |-> Cpu, la |-> Forever],
   [eid |-> 2, ts |-> 3, type |-> Cpu, la |-> Forever]}
==============================================================================
