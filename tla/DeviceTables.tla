---------------------------- MODULE DeviceTables -----------------------------
(***************************************************************************)
(* The two tables of the IPv4 layer on the device, both arrays with a      *)
(* count: CudaIpv4StaticRouting and CudaArpCache.  They are changed by the *)
(* CPU when the network is built.  A prefix is a set of addresses; masks   *)
(* are contiguous, so one prefix holds another or they are apart, and the  *)
(* longer one is the smaller set.                                          *)
(***************************************************************************)
EXTENDS Integers, Sequences, FiniteSets, SequencesExt

CONSTANTS
  Subnets,            \* sets of addresses
  NetDevices, DeviceMacs, Priorities,
  RouteCapacity,      \* m_capacity
  MAX_CACHE_SIZE,
  NoRoute             \* LookupRoute returns false

TablesAssumption ==
  /\ \A p, q \in Subnets : p # {} /\ (p \subseteq q \/ q \subseteq p \/ p \cap q = {})
  /\ Priorities \subseteq Nat /\ RouteCapacity \in Nat /\ MAX_CACHE_SIZE \in Nat
  /\ NoRoute \notin NetDevices \cup DeviceMacs

ASSUME TablesAssumption

VARIABLES
  m_routes,     \* the first m_size entries
  m_entries,    \* the first m_entryCount entries
  routeOf,      \* history: the route last given to a prefix, and not removed since
  macsOf        \* history: the MACs given to an address, the oldest first

ipTableVars == <<m_routes, m_entries, routeOf, macsOf>>

Hosts == UNION Subnets
Route == [netdevIndex : NetDevices, priority : Priorities]
Unrouted == [netdevIndex |-> NoRoute, priority |-> 0]

TablesInit ==
  /\ m_routes = <<>> /\ m_entries = <<>>
  /\ routeOf = [p \in Subnets |-> Unrouted] /\ macsOf = [a \in Hosts |-> <<>>]

----------------------------------------------------------------------------
Entry(p, r) == [network |-> p, netdevIndex |-> r.netdevIndex, priority |-> r.priority]
IndexOf(p) == {i \in DOMAIN m_routes : m_routes[i].network = p}

\* Overwrites the entry of the prefix, or appends one; false if there is no room.
AddRoute(p, r) ==
  /\ IF IndexOf(p) # {}
     THEN m_routes' = [i \in DOMAIN m_routes |-> IF i \in IndexOf(p) THEN Entry(p, r) ELSE m_routes[i]]
     ELSE Len(m_routes) < RouteCapacity /\ m_routes' = Append(m_routes, Entry(p, r))
  /\ routeOf' = [routeOf EXCEPT ![p] = r]
  /\ UNCHANGED <<m_entries, macsOf>>

\* The last entry takes the place of the one removed.
WithoutRoute_Truncated(i) == Front(m_routes)
WithoutRoute(i) == Front([m_routes EXCEPT ![i] = m_routes[Len(m_routes)]])
RemoveRoute(p) ==
  /\ \E i \in IndexOf(p) : m_routes' = WithoutRoute(i)
  /\ routeOf' = [routeOf EXCEPT ![p] = Unrouted]
  /\ UNCHANGED <<m_entries, macsOf>>

ClearRoutes ==
  /\ m_routes' = <<>> /\ routeOf' = [p \in Subnets |-> Unrouted] /\ UNCHANGED <<m_entries, macsOf>>

\* The loop of LookupRoute keeps the best entry so far.
BetterRoute_Priority(x, y) == x.priority > y.priority
BetterRoute(x, y) == x.network \subseteq y.network /\ (x.network # y.network \/ x.priority > y.priority)
LookupRoute(a) ==
  FoldLeft(LAMBDA best, x : IF a \in x.network /\ (best.netdevIndex = NoRoute \/ BetterRoute(x, best))
                            THEN x ELSE best,
           Entry({}, Unrouted), m_routes).netdevIndex

\* AddEntry appends even if the address has an entry.
AddArpEntry(a, mac) ==
  /\ Len(m_entries) < MAX_CACHE_SIZE
  /\ m_entries' = Append(m_entries, [ip |-> a, mac |-> mac])
  /\ macsOf' = [macsOf EXCEPT ![a] = Append(@, mac)]
  /\ UNCHANGED <<m_routes, routeOf>>

\* RemoveEntry: the entries behind the first of the address move up.
FirstEntries(a) == {i \in DOMAIN m_entries : m_entries[i].ip = a /\ \A j \in 1 .. i - 1 : m_entries[j].ip # a}
Removed_Swapped(i) == Front([m_entries EXCEPT ![i] = m_entries[Len(m_entries)]])
Removed(i) == RemoveAt(m_entries, i)
RemoveArpEntry(a) ==
  /\ \E i \in FirstEntries(a) : m_entries' = Removed(i)
  /\ macsOf' = [macsOf EXCEPT ![a] = Tail(@)]
  /\ UNCHANGED <<m_routes, routeOf>>

ClearArp ==
  /\ m_entries' = <<>> /\ macsOf' = [a \in Hosts |-> <<>>] /\ UNCHANGED <<m_routes, routeOf>>

LookupArp(a) ==
  IF FirstEntries(a) = {} THEN NoRoute
  ELSE LET i == CHOOSE j \in FirstEntries(a) : TRUE IN m_entries[i].mac

TablesNext ==
  \/ \E p \in Subnets : RemoveRoute(p) \/ \E r \in Route : AddRoute(p, r)
  \/ \E a \in Hosts : RemoveArpEntry(a) \/ \E mac \in DeviceMacs : AddArpEntry(a, mac)
  \/ ClearRoutes \/ ClearArp

TablesSpec == TablesInit /\ [][TablesNext]_ipTableVars

----------------------------------------------------------------------------
(* Properties.                                                             *)

\* LookupRoute finds, among the routes added and not removed since, the one of
\* the longest prefix, whatever removals did to the order of the array.
LookupIsLongestPrefix == \A a \in Hosts :
  LET known == {p \in Subnets : a \in p /\ routeOf[p] # Unrouted}
  IN IF known = {} THEN LookupRoute(a) = NoRoute
     ELSE \E p \in known : (\A q \in known : p \subseteq q) /\ LookupRoute(a) = routeOf[p].netdevIndex

\* Lookup answers with the oldest MAC of an address: one that was added again
\* is not followed until the old entry is removed, even if others were removed
\* before it.
LookupIsOldestMac == \A a \in Hosts :
  LookupArp(a) = IF macsOf[a] = <<>> THEN NoRoute ELSE Head(macsOf[a])

\* LookupRoute and Lookup against what was added and removed.
LookupsRight == LookupIsLongestPrefix /\ LookupIsOldestMac
=============================================================================
