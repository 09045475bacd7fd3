-------------------------------- MODULE Ndisc --------------------------------
(***************************************************************************)
(* Neighbour unreachability detection of IPv6: one entry of an NdiscCache, *)
(* its one timer m_nudTimer, and the handlers of Icmpv6L4Protocol that     *)
(* change it: Lookup, HandleNA, HandleNS, HandleRS, HandleRedirection and  *)
(* ReceiveLLA (of a router advertisement).  The entries of a cache do not  *)
(* share anything.                                                         *)
(*                                                                         *)
(* Abstractions.  Messages of the link come in any order, with the address *)
(* of any station in them.  The timer may expire whenever it runs.  The    *)
(* neighbour is link-local, or the interface has an address of its prefix, *)
(* which may expire.  The router flag of the entry is never read.          *)
(***************************************************************************)
EXTENDS Integers, Sequences, FiniteSets

CONSTANTS
  Macs,               \* link-layer addresses
  NoMac,              \* that of an entry that was never resolved
  m_maxMulticastSolicit, m_maxUnicastSolicit,
  m_unresQlen,        \* UnresolvedQueueSize
  MaxIp6Packets       \* bound: packets looked up

NdiscAssumption ==
  /\ IsFiniteSet(Macs) /\ Macs # {} /\ NoMac \notin Macs /\ MaxIp6Packets \in Nat
  /\ m_maxMulticastSolicit \in Nat /\ m_maxUnicastSolicit \in Nat \ {0} /\ m_unresQlen \in Nat \ {0}

ASSUME NdiscAssumption

VARIABLES
  nd,           \* the entry
  looked,       \* history: packets looked up, numbered
  timesSent,    \* history: timesSent[p], how often packet p was sent
  freed,        \* history: packets dropped, or freed with the entry
  solicits,     \* history: multicast solicitations for the entry
  heard         \* history: what was heard of the neighbour, or done to the entry

ndHist == <<looked, timesSent, freed, solicits, heard>>
ndVars == <<nd, ndHist>>

Ip6Packets == 1 .. MaxIp6Packets
NoNeighbour == [state |-> "NONE", mac |-> NoMac, waiting |-> <<>>, nud |-> "none",
                nsRetransmit |-> 0]

NdInit ==
  /\ nd = NoNeighbour /\ looked = 0 /\ timesSent = [p \in Ip6Packets |-> 0]
  /\ freed = {} /\ solicits = 0 /\ heard = {}

Waiting(x) == {x.waiting[i] : i \in DOMAIN x.waiting}
\* The packets of P are sent once more.
SendAll(P) == timesSent' = [p \in Ip6Packets |-> timesSent[p] + IF p \in P THEN 1 ELSE 0]

StartNudTimer(x, kind) == [x EXCEPT !.nud = kind]
StopNudTimer(x) == [x EXCEPT !.nud = "none", !.nsRetransmit = 0]
ToReachable(x, m) == StartNudTimer([x EXCEPT !.state = "REACHABLE", !.mac = m], "reachable")
ToStale(x, m) == [x EXCEPT !.state = "STALE", !.mac = m]

----------------------------------------------------------------------------
(* Lookup for the next packet.                                             *)

LookupNone ==
  /\ nd.state = "NONE" /\ looked < MaxIp6Packets /\ looked' = looked + 1
  /\ nd' = StartNudTimer([nd EXCEPT !.state = "INCOMPLETE", !.waiting = <<looked + 1>>],
                         "retransmit")
  /\ solicits' = 1
  /\ UNCHANGED <<timesSent, freed, heard>>

LookupResolved ==
  /\ nd.state \in {"REACHABLE", "DELAY", "STALE", "STATIC"}
  /\ looked < MaxIp6Packets /\ looked' = looked + 1 /\ SendAll({looked + 1})
  /\ nd' = IF nd.state = "STALE" THEN StartNudTimer([nd EXCEPT !.state = "DELAY"], "delay") ELSE nd
  /\ UNCHANGED <<freed, solicits, heard>>

\* AddWaitingPacket: the oldest makes room for the newest.
Queued_NoRoomMade(q, p) == Append(q, p)
Queued(q, p) == Append(IF Len(q) >= m_unresQlen THEN Tail(q) ELSE q, p)

LookupUnresolved ==
  /\ nd.state \in {"INCOMPLETE", "PROBE"} /\ looked < MaxIp6Packets /\ looked' = looked + 1
  /\ nd' = [nd EXCEPT !.waiting = Queued(@, looked + 1)]
  /\ freed' = freed \cup (Waiting(nd) \ Waiting(nd'))
  /\ UNCHANGED <<timesSent, solicits, heard>>

----------------------------------------------------------------------------
(* The timer.                                                              *)

Remove6 ==
  /\ nd' = NoNeighbour /\ freed' = freed \cup Waiting(nd)
  /\ UNCHANGED <<looked, timesSent, solicits>>

ReachableTimeout ==
  /\ nd.nud = "reachable" /\ nd' = [nd EXCEPT !.state = "STALE", !.nud = "none"]
  /\ UNCHANGED ndHist

MayRetransmit_Again == nd.nsRetransmit <= m_maxMulticastSolicit
MayRetransmit == nd.nsRetransmit < m_maxMulticastSolicit

RetransmitTimeout ==
  /\ nd.nud = "retransmit"
  /\ \/ /\ MayRetransmit /\ solicits' = solicits + 1
        /\ nd' = [nd EXCEPT !.nsRetransmit = @ + 1]
        /\ UNCHANGED <<looked, timesSent, freed>>
     \/ Remove6     \* often enough, or our address has expired
  /\ UNCHANGED heard

DelayTimeout_NoProbeTimer ==
  /\ nd.nud = "delay" /\ nd' = [nd EXCEPT !.state = "PROBE", !.nsRetransmit = 1, !.nud = "none"]
  /\ UNCHANGED ndHist
DelayTimeout ==
  /\ nd.nud = "delay"
  /\ \/ /\ nd' = StartNudTimer([nd EXCEPT !.state = "PROBE", !.nsRetransmit = 1], "probe")
        /\ UNCHANGED <<looked, timesSent, freed, solicits>>
     \/ Remove6
  /\ UNCHANGED heard

ProbeTimeout ==
  /\ nd.nud = "probe"
  /\ \/ /\ nd.nsRetransmit < m_maxUnicastSolicit
        /\ nd' = [nd EXCEPT !.nsRetransmit = @ + 1]
        /\ UNCHANGED <<looked, timesSent, freed, solicits>>
     \/ Remove6
  /\ UNCHANGED heard

----------------------------------------------------------------------------
(* Messages that carry the address m.                                      *)

\* HandleNA, of an entry there is.  S: it answers a solicitation, O: it
\* overrides.  The timer is stopped before anything is looked at.
Advertised_KeepsWaiting(x, m, S, O) ==
  IF S THEN ToReachable(StopNudTimer(x), m) ELSE ToStale(StopNudTimer(x), m)
Advertised_TimerLeft(x, m, S, O) == [x EXCEPT !.state = "REACHABLE", !.mac = m, !.waiting = <<>>]
Advertised(x, m, S, O) ==
  LET y == StopNudTimer(x)
      fits == O \/ m = x.mac
  IN CASE x.state = "INCOMPLETE" ->
            IF S THEN [ToReachable(y, m) EXCEPT !.waiting = <<>>] ELSE ToStale(y, m)
       [] x.state = "REACHABLE" ->
            IF ~fits THEN [y EXCEPT !.state = "STALE"]
            ELSE IF S THEN ToReachable(y, m) ELSE [y EXCEPT !.mac = m]
       [] x.state \in {"STALE", "DELAY", "PROBE"} ->
            IF ~fits THEN y
            ELSE IF S THEN [ToReachable(y, m) EXCEPT !.waiting = IF x.state = "PROBE" THEN <<>> ELSE @]
            ELSE [y EXCEPT !.mac = m]
       [] OTHER -> IF fits THEN [y EXCEPT !.mac = m] ELSE y

\* What HandleNA sends: the packets that waited.
HandleNA(m, S, O) ==
  /\ nd.state # "NONE" /\ nd' = Advertised(nd, m, S, O)
  /\ SendAll(IF nd.state \in {"INCOMPLETE", "PROBE"} /\ nd'.state = "REACHABLE"
             THEN Waiting(nd) ELSE {})
  /\ heard' = heard \cup {IF S /\ (O \/ m = nd.mac \/ nd.state = "INCOMPLETE") THEN "answer" ELSE "stray"}
  /\ UNCHANGED <<looked, freed, solicits>>

\* HandleNS, HandleRS and HandleRedirection: a new address makes the entry
\* STALE; the timer is left as it is.
HearAddress(m) ==
  /\ nd' = IF m # nd.mac THEN ToStale(nd, m) ELSE nd
  /\ heard' = heard \cup {"address"}
  /\ UNCHANGED <<looked, timesSent, freed, solicits>>

\* ReceiveLLA: an advertisement of a router.  In PROBE what waits is sent, and
\* goes on waiting.
ReceiveLLA(m) ==
  /\ heard' = heard \cup {"router"}
  /\ nd' = CASE nd.state = "NONE" -> ToReachable(nd, m)
             [] nd.state = "INCOMPLETE" -> [ToReachable(StopNudTimer(nd), m) EXCEPT !.waiting = <<>>]
             [] nd.state \in {"STALE", "DELAY", "PROBE"} ->
                  IF m # nd.mac THEN ToStale(nd, m) ELSE ToReachable(StopNudTimer(nd), m)
             [] nd.state = "REACHABLE" ->
                  StartNudTimer(IF m # nd.mac THEN ToStale(nd, m) ELSE nd, "reachable")
             [] OTHER -> IF m # nd.mac THEN ToStale(nd, m) ELSE nd
  /\ SendAll(IF nd.state \in {"INCOMPLETE", "PROBE"} /\ nd'.state = "REACHABLE"
             THEN Waiting(nd) ELSE {})
  /\ UNCHANGED <<looked, freed, solicits>>

\* MarkPermanent or MarkAutoGenerated, after Add if need be.
MarkStatic6(m) ==
  /\ nd.state # "STATIC"
  /\ nd' = [StopNudTimer(nd) EXCEPT !.state = "STATIC", !.mac = m]
  /\ heard' = heard \cup {"static"}
  /\ UNCHANGED <<looked, timesSent, freed, solicits>>

\* Flush, Remove, RemoveAutoGeneratedEntries.
Flush6 == nd.state # "NONE" /\ Remove6 /\ UNCHANGED heard

NdNext ==
  \/ LookupNone \/ LookupResolved \/ LookupUnresolved
  \/ ReachableTimeout \/ RetransmitTimeout \/ DelayTimeout \/ ProbeTimeout
  \/ \E m \in Macs : \/ \E S, O \in BOOLEAN : HandleNA(m, S, O)
                     \/ HearAddress(m) \/ ReceiveLLA(m) \/ MarkStatic6(m)
  \/ Flush6

NdSpec == NdInit /\ [][NdNext]_ndVars

----------------------------------------------------------------------------
(* Properties.                                                             *)

\* Types and ranges; the queue never exceeds UnresolvedQueueSize.
NdTypeOK ==
  /\ nd.state \in {"NONE", "INCOMPLETE", "REACHABLE", "STALE", "DELAY", "PROBE", "STATIC"}
  /\ nd.mac \in Macs \cup {NoMac} /\ nd.nud \in {"none", "reachable", "retransmit", "delay", "probe"}
  /\ Waiting(nd) \subseteq Ip6Packets /\ Len(nd.waiting) <= m_unresQlen
  /\ looked \in 0 .. MaxIp6Packets /\ freed \subseteq Ip6Packets
  /\ timesSent \in [Ip6Packets -> Nat]

\* FunctionRetransmitTimeout takes the front of the waiting list without a
\* look whether there is one: whatever was heard since it was started, there is.
RetransmitHasWaiting == nd.nud = "retransmit" => nd.waiting # <<>>

\* An entry that is INCOMPLETE is being asked for, and given up after
\* MaxMulticastSolicit more solicitations than the first.
IncompleteIsAsked ==
  /\ nd.state = "INCOMPLETE" => nd.nud = "retransmit" /\ nd.mac = NoMac
  /\ nd.nud = "retransmit" => solicits = nd.nsRetransmit + 1 /\ solicits <= m_maxMulticastSolicit + 1

\* A neighbour that is probed, or soon will be, has a timer running that
\* brings the probes to an end, unless an advertisement that answers nothing,
\* or differs, has stopped it (HandleNA stops it before it looks).
ProbesEnd ==
  "stray" \notin heard /\ nd.state \in {"DELAY", "PROBE"} => nd.nud \in {"delay", "probe"}

\* No packet is sent twice, nor sent and freed, unless a router advertised
\* itself while the entry was being probed.
SentOnce == "router" \notin heard => \A p \in Ip6Packets :
  timesSent[p] + (IF p \in freed THEN 1 ELSE 0) + (IF p \in Waiting(nd) THEN 1 ELSE 0)
    = IF p <= looked THEN 1 ELSE 0

\* As long as the neighbour does nothing but answer, packets wait only while
\* its address is not known, and none overtakes another.
WaitOnlyUnresolved == heard \subseteq {"answer"} =>
  /\ nd.waiting # <<>> => nd.state \in {"INCOMPLETE", "PROBE"}
  /\ \A p, q \in Ip6Packets : p < q /\ timesSent[q] > 0 => p \notin Waiting(nd)

\* An entry's timer fits its state, so that a neighbour is found or given up,
\* and what waits for it is sent once.
ResolutionEnds ==
  /\ RetransmitHasWaiting
  /\ IncompleteIsAsked
  /\ ProbesEnd
  /\ SentOnce
  /\ WaitOnlyUnresolved
==============================================================================
