-------------------------------- MODULE Spf --------------------------------
(***************************************************************************)
(* GlobalRouteManagerImpl::SPFCalculate: the routes of one router, computed*)
(* from the link state database by Dijkstra's algorithm, over every        *)
(* topology of Topologies.  There is at most one link between two routers, *)
(* and a network is of at least two routers (otherwise the code describes  *)
(* it as a stub).  An exit is the next hop's router, or Zero, and the      *)
(* interface, named by what it leads to.                                   *)
(*                                                                         *)
(* failed says that an NS_ASSERT ended the program.                        *)
(***************************************************************************)
EXTENDS Integers, Sequences, FiniteSets, SequencesExt

CONSTANTS
  SpfRouters, Networks, Root,
  RecordOrder,    \* all vertices, in the order of the link records of an LSA
  Topologies      \* the metrics [<<router, vertex>> -> Nat] considered; 0 is no link

Vertices == SpfRouters \cup Networks

SpfAssumption ==
  /\ Root \in SpfRouters /\ SpfRouters \cap Networks = {}
  /\ ToSet(RecordOrder) = Vertices /\ Len(RecordOrder) = Cardinality(Vertices)
  /\ \A t \in Topologies :
       /\ \A r, s \in SpfRouters : t[r, r] = 0 /\ (t[r, s] = 0 <=> t[s, r] = 0)
       /\ \A n \in Networks : Cardinality({r \in SpfRouters : t[r, n] > 0}) # 1

ASSUME SpfAssumption

VARIABLES
  m_metric,      \* the link state database
  inTree,        \* vertices that are LSA_SPF_IN_SPFTREE
  candidates,    \* the CandidateQueue: vertices, by distance
  vertex,        \* vertex[v]: distance, exits and parents of a vertex met so far
  children, current, routes, walked, failed,
  shortest       \* history: the lengths of the shortest paths in m_metric

spfVars == <<m_metric, inTree, candidates, vertex, children, current, routes, walked, failed, shortest>>

Zero == "0.0.0.0"
Unmet == [distance |-> 0, exits |-> {}, parents |-> {}]

Linked(v, w) == IF v \in SpfRouters THEN m_metric[v, w] > 0 ELSE w \in SpfRouters /\ m_metric[w, v] > 0

Unreachable == 1000     \* more than any path

\* The paths without a loop, and the least of their lengths.
Paths == UNION {{p \in [1 .. n -> Vertices] : IsInjective(p)} : n \in 1 .. Cardinality(Vertices)}
PathsFrom == [e \in Vertices \X Vertices |-> {p \in Paths : p[1] = e[1] /\ p[Len(p)] = e[2]}]
Length(p) ==
  FoldLeft(LAMBDA n, i : n + (IF p[i] \in SpfRouters THEN m_metric[p[i], p[i + 1]] ELSE 0),
           0, [i \in 1 .. Len(p) - 1 |-> i])
Shortest(v, w) ==
  LET paths == {p \in PathsFrom[v, w] : \A i \in 1 .. Len(p) - 1 : Linked(p[i], p[i + 1])}
  IN Min({Length(p) : p \in paths} \cup {Unreachable})

SpfInit ==
  /\ m_metric \in Topologies
  /\ inTree = {Root} /\ candidates = <<>> /\ current = Root
  /\ vertex = [v \in Vertices |-> Unmet] /\ children = [v \in Vertices |-> {}]
  /\ routes = {} /\ walked = FALSE /\ failed = FALSE
  /\ shortest = [e \in Vertices \X Vertices |-> Shortest(e[1], e[2])]

Records(v) == SelectSeq(RecordOrder, LAMBDA w : Linked(v, w))

----------------------------------------------------------------------------
\* CompareSPFVertex: a network is before a router as far away.
Precedes_DistanceOnly(table, v, w) == table[v].distance < table[w].distance
Precedes(table, v, w) ==
  \/ table[v].distance < table[w].distance
  \/ table[v].distance = table[w].distance /\ v \in Networks /\ w \in SpfRouters

\* Push: behind everything it does not precede.
Push(queue, table, w) ==
  LET n == Cardinality({i \in DOMAIN queue : ~Precedes(table, w, queue[i])})
  IN SubSeq(queue, 1, n) \o <<w>> \o SubSeq(queue, n + 1, Len(queue))

\* Reorder: a sort that keeps the order of equals.
Reorder_Never(queue, table) == queue
Reorder(queue, table) == FoldLeft(LAMBDA q, w : Push(q, table, w), <<>>, queue)

DistanceThrough_Both(v, w) ==
  vertex[v].distance + (IF v \in SpfRouters THEN m_metric[v, w] ELSE m_metric[w, v])
DistanceThrough(v, w) == vertex[v].distance + (IF v \in SpfRouters THEN m_metric[v, w] ELSE 0)

\* The exits SPFNexthopCalculation gives w when it is reached through v, whose
\* first parent is first.
ExitsThrough(v, first, w) ==
  CASE v = Root /\ w \in SpfRouters -> {<<w, w>>}
    [] v = Root /\ w \in Networks -> {<<Zero, w>>}
    [] v \in Networks /\ first = Root -> {<<w, e[2]>> : e \in vertex[v].exits}
    [] OTHER -> vertex[v].exits

\* One link record of SPFNext.
Explore(v, first, s, w) ==
  LET distance == DistanceThrough(v, w)
      met == [distance |-> distance, exits |-> ExitsThrough(v, first, w), parents |-> {v}]
      table == [s.vertex EXCEPT ![w] = met]
  IN CASE w \in inTree -> s
       [] w \notin inTree /\ ~Contains(s.queue, w) ->
            [vertex |-> table, queue |-> Push(s.queue, table, w)]
       [] w \notin inTree /\ Contains(s.queue, w) /\ s.vertex[w].distance < distance -> s
       [] w \notin inTree /\ Contains(s.queue, w) /\ s.vertex[w].distance = distance ->
            [s EXCEPT !.vertex[w].exits = @ \cup met.exits, !.vertex[w].parents = @ \cup {v}]
       [] OTHER -> [vertex |-> table, queue |-> Reorder(s.queue, table)]

SPFNext(v, first) ==
  FoldLeft(LAMBDA s, w : Explore(v, first, s, w), [vertex |-> vertex, queue |-> candidates], Records(v))

\* GetRootExitDirection() of a network, asked for each router beyond it,
\* assumes that there is one exit.
AsksOneExit(v) ==
  v \in Networks /\ Cardinality(vertex[v].exits) > 1 /\ \E w \in SpfRouters \ inTree : Linked(v, w)

\* SPFIntraAddRouter, SPFIntraAddTransit: a host route to each of the point to
\* point addresses of a router, or a route to the network, for each exit.
IntraRoutes(v, exits) ==
  IF v \in Networks THEN {[to |-> <<v>>, exit |-> e] : e \in exits}
  ELSE {[to |-> <<v, w>>, exit |-> e] : w \in {s \in SpfRouters : Linked(v, s)}, e \in exits}

----------------------------------------------------------------------------
\* CheckForStubNode: a router with one link, to another router, has a default
\* route, and one with none has no routes.
Transits == {w \in Vertices : Linked(Root, w)}
IsStubNode == Transits = {} \/ (Cardinality(Transits) = 1 /\ Transits \subseteq SpfRouters)

CheckForStubNode ==
  /\ current = Root /\ ~walked /\ IsStubNode
  /\ routes' = {[to |-> <<Zero>>, exit |-> <<w, w>>] : w \in Transits}
  /\ walked' = TRUE
  /\ UNCHANGED <<m_metric, inTree, candidates, vertex, children, current, failed, shortest>>

\* The loop of SPFCalculate: from one vertex of the tree to the next.
AddChildren(w, parents) == [p \in Vertices |-> IF p \in parents THEN children[p] \cup {w} ELSE children[p]]

GrowTree ==
  /\ ~walked /\ (current = Root => ~IsStubNode)
  /\ IF AsksOneExit(current)
     THEN failed' = TRUE /\ UNCHANGED <<inTree, candidates, vertex, children, current, routes>>
     ELSE \E first \in vertex[current].parents \cup (IF current = Root THEN {Root} ELSE {}) :
            LET s == SPFNext(current, first)
                w == Head(s.queue)
            IN /\ s.queue # <<>>
               /\ vertex' = s.vertex /\ candidates' = Tail(s.queue)
               /\ inTree' = inTree \cup {w} /\ current' = w
               /\ children' = AddChildren(w, s.vertex[w].parents)
               /\ routes' = routes \cup IntraRoutes(w, s.vertex[w].exits)
               /\ UNCHANGED failed
  /\ UNCHANGED <<m_metric, walked, shortest>>

\* SPFProcessStubs walks from the root through the children, each once, and
\* adds for each router the routes to its stub networks.
Children_OfRouters(v) == IF v \in SpfRouters THEN children[v] ELSE {}
Children(v) == children[v]
Below == LET S[n \in 0 .. Cardinality(Vertices)] ==
               IF n = 0 THEN {Root} ELSE S[n - 1] \cup UNION {Children(v) : v \in S[n - 1]}
         IN S[Cardinality(Vertices)]

SPFProcessStubs ==
  /\ ~walked /\ (current = Root => ~IsStubNode) /\ ~AsksOneExit(current)
  /\ candidates = <<>> /\ \A w \in Vertices : Linked(current, w) => w \in inTree
  /\ routes' = routes \cup UNION {{[to |-> <<v, "stub">>, exit |-> e] : e \in vertex[v].exits} :
                                   v \in (Below \cap SpfRouters) \ {Root}}
  /\ walked' = TRUE
  /\ UNCHANGED <<m_metric, inTree, candidates, vertex, children, current, failed, shortest>>

SpfNext == ~failed /\ (CheckForStubNode \/ GrowTree \/ SPFProcessStubs)

SpfSpec == SpfInit /\ [][SpfNext]_spfVars

----------------------------------------------------------------------------
(* Properties.                                                             *)

\* The first hops of all the shortest paths from the root to w.
FirstHops(w) ==
  LET d == [v \in Vertices |-> shortest[v, w]]
      direct == {<<x, x>> : x \in {s \in SpfRouters : Linked(Root, s) /\ m_metric[Root, s] + d[s] = d[Root]}}
      shared == {<<x, n>> : x \in SpfRouters \ {Root}, n \in Networks}
  IN direct
     \cup {e \in shared : Linked(Root, e[2]) /\ Linked(e[2], e[1])
                         /\ m_metric[Root, e[2]] + d[e[1]] = d[Root]}
     \cup {<<Zero, n>> : n \in {m \in Networks : m = w /\ Linked(Root, m) /\ m_metric[Root, m] = d[Root]}}

\* A vertex is added to the tree with the length of the shortest path to it,
\* the nearest first.
DistanceIsShortest ==
  /\ \A v \in inTree : vertex[v].distance = shortest[Root, v]
  /\ \A i \in DOMAIN candidates : vertex[candidates[i]].distance >= vertex[current].distance

\* The routes of a vertex use all the shortest paths and no other: equal-cost
\* paths are not lost, whatever the order in which they were found.
ExitsAreAllFirstHops == \A v \in inTree \ {Root} : vertex[v].exits = FirstHops(v)

\* When the calculation is over there is a route to the addresses of every
\* router that can be reached, its stub networks included.
EveryRouterRouted ==
  walked /\ ~IsStubNode =>
    \A v \in SpfRouters \ {Root} : shortest[Root, v] < Unreachable =>
      \E r \in routes : r.to = <<v, "stub">>

\* Vertices are in one of three statuses; the queue is sorted.
SpfTypeOK ==
  /\ inTree \cap ToSet(candidates) = {}
  /\ Cardinality(ToSet(candidates)) = Len(candidates)
  /\ \A i, j \in DOMAIN candidates : i < j => ~Precedes(vertex, candidates[j], candidates[i])

\* "Assumed there is at most one exit from the root to this vertex".
OneExitAssumed == ~failed

\* SPFCalculate against all paths of the topology.
RoutesShortest == DistanceIsShortest /\ ExitsAreAllFirstHops /\ EveryRouterRouted
=============================================================================
