------------------------------- MODULE MCSpf -------------------------------
(***************************************************************************)
(* The topologies of Spf: four routers with any links between them, and    *)
(* with a network they share.  The links of the root may cost 3, so that a *)
(* longer path is shorter, or as short.                                    *)
(***************************************************************************)
EXTENDS Spf

CONSTANTS ra, rb, rc, rd, lan

MCRecordOrder == <<ra, rb, lan, rc, rd>>
MCPairs == {<<ra, rb>>, <<ra, rc>>, <<ra, rd>>, <<rb, rc>>, <<rb, rd>>, <<rc, rd>>}
MCMetrics == {p \in [MCPairs -> {0, 1, 3}] : \A e \in MCPairs : e[1] # ra => p[e] < 3}
MCTopology(p, on) ==
  [e \in SpfRouters \X Vertices |->
     IF e[2] = lan THEN IF e[1] \in on THEN 1 ELSE 0
     ELSE IF e \in MCPairs THEN p[e]
     ELSE IF <<e[2], e[1]>> \in MCPairs THEN p[<<e[2], e[1]>>] ELSE 0]
MCTopologies ==
  {MCTopology(p, on) : p \in MCMetrics, on \in {S \in SUBSET SpfRouters : Cardinality(S) # 1}}
=============================================================================
