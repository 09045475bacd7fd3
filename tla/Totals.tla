------------------------------- MODULE Totals -------------------------------
(***************************************************************************)
(* The sum of a sequence of numbers: the bytes of the packets in a queue or*)
(* of what is on its way.                                                  *)
(***************************************************************************)
EXTENDS Integers, Sequences

Total(s) ==
  LET upTo[i \in 0 .. Len(s)] == IF i = 0 THEN 0 ELSE upTo[i - 1] + s[i] IN upTo[Len(s)]
=============================================================================
