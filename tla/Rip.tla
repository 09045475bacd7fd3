--------------------------------- MODULE Rip ---------------------------------
(***************************************************************************)
(* The routes of all routers to one network, under RIP.  One router, Owner,*)
(* is attached to the network by its interface "lan"; routers are joined   *)
(* by point-to-point links, and an interface is named after the router at  *)
(* its other end, which is also the gateway of what is learnt through it.  *)
(*                                                                         *)
(* Abstractions.  No interface is excluded, interface metrics are 1, and a *)
(* message is the metrics of its entries.  Updates come in order; one is   *)
(* lost only with its link.  The timer of a route may expire at any time,  *)
(* but a route is not deleted before its change was announced (collection  *)
(* takes 120 s, an announcement at most 45 s).                             *)
(* An interface comes up again when the routes have settled: Quiet.        *)
(***************************************************************************)
EXTENDS Integers, Sequences, FiniteSets, SequencesExt

CONSTANTS
  Routers, Links,     \* Links is a set of pairs of routers {r, s}
  Owner,
  m_linkDown,         \* the infinite metric
  Strategy,           \* m_splitHorizonStrategy
  Distance,           \* the metric each router should find
  MaxInFlight, MaxFlaps    \* bounds: messages on a link, interfaces that go down or timers that expire

RipAssumption ==
  /\ IsFiniteSet(Routers) /\ Owner \in Routers /\ "lan" \notin Routers
  /\ m_linkDown \in Nat /\ m_linkDown > 1 /\ MaxInFlight \in Nat /\ MaxFlaps \in Nat
  /\ Strategy \in {"NO_SPLIT_HORIZON", "SPLIT_HORIZON", "POISON_REVERSE"}
  /\ \A l \in Links : l \subseteq Routers /\ Cardinality(l) = 2

ASSUME RipAssumption

VARIABLES
  m_routes,               \* m_routes[r]: the entries of r for the network
  m_nextTriggeredUpdate,  \* the event r waits for: "none", "update" or "request"
  toward,                 \* toward[r][s]: messages from r to s
  isUp,                   \* isUp[r]: interfaces of r that are up
  flaps,                  \* bound
  disturbed               \* history: an interface or a timer has gone down

ripVars == <<m_routes, m_nextTriggeredUpdate, toward, isUp, flaps, disturbed>>

RipPeers(r) == {s \in Routers : {r, s} \in Links}
LocalRoute == [via |-> "lan", metric |-> 1, valid |-> TRUE, changed |-> TRUE, timer |-> "none"]

RipInit ==
  /\ m_routes = [r \in Routers |-> IF r = Owner THEN <<LocalRoute>> ELSE <<>>]
  /\ m_nextTriggeredUpdate = [r \in Routers |-> "request"]
  /\ toward = [r \in Routers |-> [s \in RipPeers(r) |-> <<>>]]
  /\ isUp = [r \in Routers |-> RipPeers(r) \cup IF r = Owner THEN {"lan"} ELSE {}]
  /\ flaps = 0 /\ disturbed = FALSE

Entries(r) == {m_routes[r][i] : i \in DOMAIN m_routes[r]}

\* Nothing is on its way, scheduled or waiting to be announced.
Quiet == \A r \in Routers :
  /\ m_nextTriggeredUpdate[r] = "none" /\ \A e \in Entries(r) : ~e.changed
  /\ \A s \in RipPeers(r) : toward[r][s] = <<>>

----------------------------------------------------------------------------
(* Operations on entries.                                                  *)

Learnt_Untimed(s, metric) ==
  [via |-> s, metric |-> metric, valid |-> TRUE, changed |-> TRUE, timer |-> "none"]
Learnt(s, metric) ==
  [via |-> s, metric |-> metric, valid |-> TRUE, changed |-> TRUE, timer |-> "invalidate"]

InvalidateRoute_Forgets(e) == [e EXCEPT !.valid = FALSE, !.metric = m_linkDown, !.timer = "delete"]
InvalidateRoute_KeepsMetric(e) == [e EXCEPT !.valid = FALSE, !.changed = TRUE, !.timer = "delete"]
InvalidateRoute(e) ==
  [e EXCEPT !.valid = FALSE, !.metric = m_linkDown, !.changed = TRUE, !.timer = "delete"]

\* What the metric m in a response of s makes of the entry e; late: less than
\* half of the timeout of e is left.
Updated_Best(e, s, m, late) == IF m < e.metric THEN Learnt(s, m) ELSE e
Updated(e, s, m, late) ==
  CASE m < e.metric -> Learnt(s, m)
    [] m = e.metric /\ s = e.via -> [e EXCEPT !.timer = "invalidate"]
    [] m = e.metric /\ s # e.via /\ late -> Learnt(s, m)
    [] m > e.metric /\ s = e.via -> IF m < m_linkDown THEN Learnt(s, m) ELSE InvalidateRoute(e)
    [] OTHER -> e

Response_NoCost(entries, s, rte, late) ==
  IF entries = <<>> THEN (IF rte = m_linkDown THEN <<>> ELSE <<Learnt(s, rte)>>)
  ELSE [i \in DOMAIN entries |-> Updated(entries[i], s, rte, i \in late)]
Response(entries, s, rte, late) ==
  LET m == IF rte + 1 > m_linkDown THEN m_linkDown ELSE rte + 1
  IN IF entries = <<>> THEN (IF m = m_linkDown THEN <<>> ELSE <<Learnt(s, m)>>)
     ELSE [i \in DOMAIN entries |-> Updated(entries[i], s, m, i \in late)]

\* What r tells s of its entries es.
Told(es, s) ==
  CASE Strategy = "POISON_REVERSE" ->
         [i \in DOMAIN es |-> IF es[i].via = s THEN m_linkDown ELSE es[i].metric]
    [] Strategy = "SPLIT_HORIZON" ->
         LET others == SelectSeq(es, LAMBDA e : e.via # s) IN [i \in DOMAIN others |-> others[i].metric]
    [] OTHER -> [i \in DOMAIN es |-> es[i].metric]

----------------------------------------------------------------------------
(* Messages: the metrics of a response, which has some, or a request.      *)

request == <<>>

RipRoom(r) == \A s \in RipPeers(r) : Len(toward[r][s]) < MaxInFlight
Say(q, rtes) == IF rtes = <<>> THEN q ELSE Append(q, rtes)

\* SendTriggeredRouteUpdate.
Triggered(r) ==
  m_nextTriggeredUpdate' = [m_nextTriggeredUpdate EXCEPT ![r] = IF @ = "none" THEN "update" ELSE @]

DoSendRouteUpdate(r, periodic) ==
  LET es == SelectSeq(m_routes[r], LAMBDA e : periodic \/ e.changed)
  IN /\ RipRoom(r)
     /\ toward' = [toward EXCEPT ![r] =
          [s \in RipPeers(r) |-> IF s \in isUp[r] THEN Say(@[s], Told(es, s)) ELSE @[s]]]
     /\ m_routes' = [m_routes EXCEPT ![r] = [i \in DOMAIN @ |-> [@[i] EXCEPT !.changed = FALSE]]]
     /\ m_nextTriggeredUpdate' = [m_nextTriggeredUpdate EXCEPT ![r] = "none"]
     /\ UNCHANGED <<isUp, flaps, disturbed>>

SendTriggered(r) == m_nextTriggeredUpdate[r] = "update" /\ DoSendRouteUpdate(r, FALSE)

\* It cancels the triggered update, and the request, that is pending.
SendUnsolicitedRouteUpdate(r) == m_routes[r] # <<>> /\ DoSendRouteUpdate(r, TRUE)

SendRouteRequest(r) ==
  /\ m_nextTriggeredUpdate[r] = "request" /\ RipRoom(r)
  /\ m_nextTriggeredUpdate' = [m_nextTriggeredUpdate EXCEPT ![r] = "none"]
  /\ toward' = [toward EXCEPT ![r] =
       [s \in RipPeers(r) |-> IF s \in isUp[r] THEN Append(@[s], request) ELSE @[s]]]
  /\ UNCHANGED <<m_routes, isUp, flaps, disturbed>>

\* r takes the first message of s; its stack drops it if the interface is down.
HandleRequests(s, r) ==
  /\ toward[s][r] # <<>> /\ Head(toward[s][r]) = request
  /\ LET es == SelectSeq(m_routes[r], LAMBDA e : e.valid)
         back == IF s \in isUp[r] THEN Say(toward[r][s], Told(es, s)) ELSE toward[r][s]
     IN toward' = [toward EXCEPT ![s][r] = Tail(@), ![r][s] = back]
  /\ UNCHANGED <<m_routes, m_nextTriggeredUpdate, isUp, flaps, disturbed>>

HandleResponses(s, r) == \E late \in SUBSET (DOMAIN m_routes[r]) :
  /\ toward[s][r] # <<>> /\ Head(toward[s][r]) # request
  /\ toward' = [toward EXCEPT ![s][r] = Tail(@)]
  /\ LET new == FoldLeft(LAMBDA es, rte : Response(es, s, rte, late), m_routes[r], Head(toward[s][r]))
         timersOnly == [i \in DOMAIN m_routes[r] |-> [m_routes[r][i] EXCEPT !.timer = "none"]]
                         = [i \in DOMAIN new |-> [new[i] EXCEPT !.timer = "none"]]
     IN IF s \notin isUp[r] THEN UNCHANGED <<m_routes, m_nextTriggeredUpdate>>
        ELSE /\ m_routes' = [m_routes EXCEPT ![r] = new]
             /\ IF timersOnly THEN UNCHANGED m_nextTriggeredUpdate ELSE Triggered(r)
  /\ UNCHANGED <<isUp, flaps, disturbed>>

----------------------------------------------------------------------------
(* Timers and interfaces.                                                  *)

TimeoutRoute(r) == \E i \in DOMAIN m_routes[r] :
  /\ \/ /\ m_routes[r][i].timer = "invalidate" /\ flaps < MaxFlaps /\ flaps' = flaps + 1
        /\ m_routes' = [m_routes EXCEPT ![r][i] = InvalidateRoute(@)]
     \/ /\ m_routes[r][i].timer = "delete" /\ ~m_routes[r][i].changed /\ UNCHANGED flaps
        /\ m_routes' = [m_routes EXCEPT ![r] = RemoveAt(@, i)]
  /\ disturbed' = TRUE
  /\ UNCHANGED <<m_nextTriggeredUpdate, toward, isUp>>

NotifyInterfaceDown(r, i) ==
  [k \in DOMAIN m_routes[r] |->
    IF m_routes[r][k].via = i THEN InvalidateRoute(m_routes[r][k]) ELSE m_routes[r][k]]

NetworkDown ==
  /\ "lan" \in isUp[Owner] /\ flaps < MaxFlaps /\ flaps' = flaps + 1 /\ disturbed' = TRUE
  /\ isUp' = [isUp EXCEPT ![Owner] = @ \ {"lan"}]
  /\ m_routes' = [m_routes EXCEPT ![Owner] = NotifyInterfaceDown(Owner, "lan")]
  /\ Triggered(Owner) /\ UNCHANGED toward

\* NotifyInterfaceUp adds the route whether or not there is one already.
NetworkUp ==
  /\ "lan" \notin isUp[Owner] /\ Quiet
  /\ isUp' = [isUp EXCEPT ![Owner] = @ \cup {"lan"}]
  /\ m_routes' = [m_routes EXCEPT ![Owner] = Append(@, LocalRoute)]
  /\ Triggered(Owner) /\ UNCHANGED <<toward, flaps, disturbed>>

BothTriggered(l) ==
  m_nextTriggeredUpdate' = [x \in Routers |->
    IF x \in l /\ m_nextTriggeredUpdate[x] = "none" THEN "update" ELSE m_nextTriggeredUpdate[x]]

\* A link goes down, or up, at both ends.
LinkDown(r, s) ==
  /\ s \in isUp[r] /\ flaps < MaxFlaps /\ flaps' = flaps + 1 /\ disturbed' = TRUE
  /\ isUp' = [isUp EXCEPT ![r] = @ \ {s}, ![s] = @ \ {r}]
  /\ m_routes' = [m_routes EXCEPT ![r] = NotifyInterfaceDown(r, s), ![s] = NotifyInterfaceDown(s, r)]
  /\ toward' = [toward EXCEPT ![r][s] = <<>>, ![s][r] = <<>>]
  /\ BothTriggered({r, s})

LinkUp(r, s) ==
  /\ s \notin isUp[r] /\ Quiet
  /\ isUp' = [isUp EXCEPT ![r] = @ \cup {s}, ![s] = @ \cup {r}]
  /\ BothTriggered({r, s}) /\ UNCHANGED <<m_routes, toward, flaps, disturbed>>

RipNext ==
  \/ \E r \in Routers : \/ SendTriggered(r) \/ SendUnsolicitedRouteUpdate(r) \/ SendRouteRequest(r)
                        \/ TimeoutRoute(r)
                        \/ \E s \in RipPeers(r) : HandleRequests(s, r) \/ HandleResponses(s, r)
  \/ NetworkDown \/ NetworkUp \/ \E l \in Links : \E r, s \in l : r # s /\ (LinkDown(r, s) \/ LinkUp(r, s))

RipSpec == RipInit /\ [][RipNext]_ripVars

----------------------------------------------------------------------------
(* Properties.                                                             *)

Best(r) == IF {e.metric : e \in Entries(r)} = {} THEN m_linkDown
           ELSE CHOOSE m \in {e.metric : e \in Entries(r)} : \A e \in Entries(r) : m <= e.metric

\* Types; an invalid route has the infinite metric.
RipTypeOK == \A r \in Routers : \A e \in Entries(r) :
  /\ e.metric \in 1 .. m_linkDown /\ e.via \in RipPeers(r) \cup {"lan"}
  /\ e.timer \in {"none", "invalidate", "delete"} /\ (~e.valid => e.metric = m_linkDown)

\* No route outlives what it was learnt from: every route but that of an
\* attached network has a timer, whatever was heard, and in whatever order.
EveryRouteTimed == \A r \in Routers : \A e \in Entries(r) :
  e.timer = "none" <=> e.via = "lan" /\ e.valid

\* When all is quiet, a valid route is one longer than what its gateway has:
\* routes go round in no circle, and none leads to a gateway that lost its own.
QuietIsConsistent == Quiet => \A r \in Routers : \A e \in Entries(r) :
  e.valid /\ e.metric < m_linkDown /\ e.via # "lan" => e.metric = Best(e.via) + 1

\* Before anything goes down no route is shorter than it should be, and when
\* all is quiet every router has the shortest.
RipConverges == ~disturbed => \A r \in Routers :
  /\ Best(r) >= Distance[r]
  /\ Quiet => Best(r) = Distance[r]

\* Routes leave by their timers, and once nothing is on its way they are right.
RoutesSettle == EveryRouteTimed /\ QuietIsConsistent /\ RipConverges
==============================================================================
