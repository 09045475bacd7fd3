--------------------------------- MODULE Arp ---------------------------------
(***************************************************************************)
(* Address resolution on one interface: ArpL3Protocol::Lookup and Receive  *)
(* over an ArpCache, whose one timer serves all the entries that wait for  *)
(* a reply.  Packets that wait for an address are queued in its entry;     *)
(* requests and replies may get lost or be late.                           *)
(*                                                                         *)
(* Abstractions.  Time goes in ticks; of m_lastSeen an entry keeps how     *)
(* long ago that was, up to one more than the longest timeout.  The jitter *)
(* of a request is shorter than a tick.  Requests of others, which are     *)
(* answered from the addresses of the interface, leave the cache alone.    *)
(***************************************************************************)
EXTENDS Integers, Sequences, FiniteSets

CONSTANTS
  Neighbours,             \* IPv4 addresses on the link
  AliveTimeout, DeadTimeout, WaitReplyTimeout,    \* in ticks
  m_maxRetries,
  m_pendingQueueSize,
  MaxIpPackets            \* bound: packets to resolve an address for

ArpAssumption ==
  /\ IsFiniteSet(Neighbours) /\ MaxIpPackets \in Nat
  /\ AliveTimeout \in Nat /\ DeadTimeout \in Nat /\ WaitReplyTimeout \in Nat \ {0}
  /\ m_maxRetries \in Nat /\ m_pendingQueueSize \in Nat \ {0}

ASSUME ArpAssumption

VARIABLES
  cache,             \* m_arpCache
  waitReplyTimer,    \* ticks left, or NotRunning
  jitter,            \* addresses with a scheduled SendArpRequest
  requests, replies, \* addresses with a request, or a reply to us, on the link
  packetTo,          \* history: packetTo[p], next hop of packet p
  outcome,           \* history: what became of it
  waited             \* history: ticks since an entry began to wait

arpHist == <<packetTo, outcome, waited>>
arpVars == <<cache, waitReplyTimer, jitter, requests, replies, arpHist>>

IpPackets == 1 .. MaxIpPackets
NotRunning == -1
LongestTimeout == CHOOSE m \in {AliveTimeout, DeadTimeout, WaitReplyTimeout} :
  m >= AliveTimeout /\ m >= DeadTimeout /\ m >= WaitReplyTimeout
NoEntry == [state |-> "NONE", age |-> 0, retries |-> 0, pending |-> <<>>]

ArpInit ==
  /\ cache = [d \in Neighbours |-> NoEntry] /\ waitReplyTimer = NotRunning
  /\ jitter = {} /\ requests = {} /\ replies = {}
  /\ packetTo = <<>> /\ outcome = [p \in IpPackets |-> "none"]
  /\ waited = [d \in Neighbours |-> 0]

GetTimeout(state) ==
  CASE state = "WAIT_REPLY" -> WaitReplyTimeout
    [] state = "DEAD" -> DeadTimeout
    [] state = "ALIVE" -> AliveTimeout
    [] OTHER -> LongestTimeout + 1
EntryExpired(e) == e.age > GetTimeout(e.state)

\* The packets of set P met their end.
Settle(P, what) == [p \in IpPackets |-> IF p \in P THEN what ELSE outcome[p]]
PendingIn(e) == {e.pending[i] : i \in DOMAIN e.pending}

StartTimer == waitReplyTimer' =
  IF waitReplyTimer = NotRunning THEN WaitReplyTimeout ELSE waitReplyTimer

----------------------------------------------------------------------------
(* Lookup of the address d for a new packet.                               *)

NewIpPacket(d, what) ==
  /\ Len(packetTo) < MaxIpPackets
  /\ packetTo' = Append(packetTo, d)
  /\ outcome' = Settle({Len(packetTo) + 1}, what)

\* No entry, or one that is too old: ask, with the packet queued.
MustAsk(e) == e.state = "NONE" \/ (EntryExpired(e) /\ e.state \in {"DEAD", "ALIVE"})

LookupAsk(d) ==
  /\ MustAsk(cache[d]) /\ NewIpPacket(d, "pending")
  /\ cache' = [cache EXCEPT ![d].state = "WAIT_REPLY", ![d].age = 0,
                            ![d].pending = Append(@, Len(packetTo) + 1)]
  /\ StartTimer /\ jitter' = jitter \cup {d}
  /\ waited' = [waited EXCEPT ![d] = 0]
  /\ UNCHANGED <<requests, replies>>

LookupKnown(d) ==
  /\ cache[d].state \in {"ALIVE", "STATIC"} /\ ~EntryExpired(cache[d])
  /\ NewIpPacket(d, "sent")
  /\ UNCHANGED <<cache, waitReplyTimer, jitter, requests, replies, waited>>

LookupDead(d) ==
  /\ cache[d].state = "DEAD" /\ ~EntryExpired(cache[d])
  /\ NewIpPacket(d, "dropped")
  /\ UNCHANGED <<cache, waitReplyTimer, jitter, requests, replies, waited>>

\* UpdateWaitReply: the packet joins the others, if there is room.
HasRoom_OneMore(e) == Len(e.pending) <= m_pendingQueueSize
HasRoom(e) == Len(e.pending) < m_pendingQueueSize

LookupWaiting(d) ==
  /\ cache[d].state = "WAIT_REPLY" /\ ~EntryExpired(cache[d])
  /\ IF HasRoom(cache[d])
     THEN /\ NewIpPacket(d, "pending")
          /\ cache' = [cache EXCEPT ![d].pending = Append(@, Len(packetTo) + 1)]
     ELSE NewIpPacket(d, "dropped") /\ UNCHANGED cache
  /\ UNCHANGED <<waitReplyTimer, jitter, requests, replies, waited>>

SendArpRequest(d) ==
  /\ d \in jitter /\ jitter' = jitter \ {d} /\ requests' = requests \cup {d}
  /\ UNCHANGED <<cache, waitReplyTimer, replies, arpHist>>

(* Receive of a reply: to an entry that waits, the address is known and    *)
(* its packets are sent; otherwise the reply is dropped.                   *)
MarkAlive_KeepsPending(e) == [e EXCEPT !.state = "ALIVE", !.age = 0, !.retries = 0]
MarkAlive(e) == [e EXCEPT !.state = "ALIVE", !.age = 0, !.retries = 0, !.pending = <<>>]

ReceiveReply(d) ==
  /\ d \in replies /\ replies' = replies \ {d}
  /\ IF cache[d].state = "WAIT_REPLY"
     THEN /\ cache' = [cache EXCEPT ![d] = MarkAlive(@)]
          /\ outcome' = Settle(PendingIn(cache[d]) \ PendingIn(MarkAlive(cache[d])), "sent")
     ELSE UNCHANGED <<cache, outcome>>
  /\ UNCHANGED <<waitReplyTimer, jitter, requests, packetTo, waited>>

(* HandleWaitReplyTimeout: every entry that waits is asked for again, or   *)
(* given up when it was often enough; the timer goes on for those asked.   *)
Again == {d \in Neighbours : cache[d].state = "WAIT_REPLY" /\ cache[d].retries < m_maxRetries}
GivenUp == {d \in Neighbours : cache[d].state = "WAIT_REPLY" /\ cache[d].retries >= m_maxRetries}

Restarts_OnlyIfAll == Again # {} /\ GivenUp = {}
Restarts == Again # {}

Retried_Forever(e) == [e EXCEPT !.age = 0]
Retried(e) == [e EXCEPT !.retries = @ + 1, !.age = 0]

HandleWaitReplyTimeout ==
  /\ waitReplyTimer = 0
  /\ cache' = [d \in Neighbours |->
       IF d \in Again THEN Retried(cache[d])
       ELSE IF d \in GivenUp THEN [NoEntry EXCEPT !.state = "DEAD"] ELSE cache[d]]
  /\ requests' = requests \cup Again
  /\ outcome' = Settle(UNION {PendingIn(cache[d]) : d \in GivenUp}, "dropped")
  /\ waitReplyTimer' = IF Restarts THEN WaitReplyTimeout ELSE NotRunning
  /\ UNCHANGED <<jitter, replies, packetTo, waited>>

\* Flush, when the link changes: the packets are freed with their entries.
Flush ==
  /\ cache' = [d \in Neighbours |-> NoEntry] /\ waitReplyTimer' = NotRunning
  /\ outcome' = Settle(UNION {PendingIn(cache[d]) : d \in Neighbours}, "flushed")
  /\ UNCHANGED <<jitter, requests, replies, packetTo, waited>>

(* Add, if need be, and MarkPermanent or MarkAutoGenerated, by the user or *)
(* the NeighborCacheHelper; packets that wait in the entry stay there.     *)
MarkStatic(d) ==
  /\ cache[d].state # "STATIC"
  /\ cache' = [cache EXCEPT ![d].state = "STATIC", ![d].age = 0, ![d].retries = 0]
  /\ UNCHANGED <<waitReplyTimer, jitter, requests, replies, arpHist>>

\* Remove, and RemoveAutoGeneratedEntries.
RemoveEntry(d) ==
  /\ cache[d].state # "NONE" /\ cache' = [cache EXCEPT ![d] = NoEntry]
  /\ outcome' = Settle(PendingIn(cache[d]), "flushed")
  /\ UNCHANGED <<waitReplyTimer, jitter, requests, replies, packetTo, waited>>

\* The neighbour: Receive answers a request with SendArpReply.
Answer(d) ==
  /\ d \in requests /\ requests' = requests \ {d} /\ replies' = replies \cup {d}
  /\ UNCHANGED <<cache, waitReplyTimer, jitter, arpHist>>
\* The link: what is on its way may be lost.
LoseArp(d) ==
  /\ d \in requests \cup replies
  /\ requests' = requests \ {d} /\ replies' = replies \ {d}
  /\ UNCHANGED <<cache, waitReplyTimer, jitter, arpHist>>

ArpTick ==
  /\ waitReplyTimer # 0 /\ jitter = {}
  /\ waitReplyTimer' = IF waitReplyTimer = NotRunning THEN NotRunning ELSE waitReplyTimer - 1
  /\ cache' = [d \in Neighbours |->
       IF cache[d].state \in {"NONE", "STATIC"} \/ cache[d].age > LongestTimeout
       THEN cache[d] ELSE [cache[d] EXCEPT !.age = @ + 1]]
  /\ waited' = [d \in Neighbours |->
       IF cache[d].state = "WAIT_REPLY" THEN waited[d] + 1 ELSE 0]
  /\ UNCHANGED <<jitter, requests, replies, packetTo, outcome>>

ArpNext ==
  \/ \E d \in Neighbours :
       \/ LookupAsk(d) \/ LookupKnown(d) \/ LookupDead(d) \/ LookupWaiting(d)
       \/ SendArpRequest(d) \/ ReceiveReply(d) \/ MarkStatic(d) \/ RemoveEntry(d)
       \/ Answer(d) \/ LoseArp(d)
  \/ HandleWaitReplyTimeout \/ Flush \/ ArpTick

ArpSpec == ArpInit /\ [][ArpNext]_arpVars

----------------------------------------------------------------------------
(* Properties.                                                             *)

\* Types; a queue never exceeds PendingQueueSize, nor the retries MaxRetries.
ArpTypeOK ==
  /\ \A d \in Neighbours :
       /\ cache[d].state \in {"NONE", "ALIVE", "WAIT_REPLY", "DEAD", "STATIC"}
       /\ cache[d].age \in 0 .. LongestTimeout + 1 /\ cache[d].retries \in 0 .. m_maxRetries
       /\ PendingIn(cache[d]) \subseteq IpPackets /\ Len(cache[d].pending) <= m_pendingQueueSize
  /\ waitReplyTimer \in {NotRunning} \cup 0 .. WaitReplyTimeout
  /\ jitter \subseteq Neighbours /\ requests \subseteq Neighbours /\ replies \subseteq Neighbours

\* "Test for possibly unreachable code-- please file a bug report": Lookup
\* never finds an entry that waits and has expired, although the timer that
\* refreshes it was started for another entry.
WaitingNeverExpired == \A d \in Neighbours :
  cache[d].state = "WAIT_REPLY" => ~EntryExpired(cache[d]) /\ waitReplyTimer # NotRunning

\* An address that does not answer is given up after MaxRetries + 1 timeouts
\* at the latest.
WaitIsBounded == \A d \in Neighbours :
  cache[d].state = "WAIT_REPLY" => waited[d] <= (m_maxRetries + 1) * WaitReplyTimeout

\* A packet that waits is in the entry of its next hop, which waits for a
\* reply (MarkWaitReply asserts that none is left over), unless somebody made
\* that entry a static one meanwhile: then nothing will ever fetch it.
PendingMeansWaiting ==
  /\ \A p \in IpPackets : outcome[p] = "pending" =>
       p \in DOMAIN packetTo /\ p \in PendingIn(cache[packetTo[p]])
  /\ \A d \in Neighbours : PendingIn(cache[d]) # {} => cache[d].state \in {"WAIT_REPLY", "STATIC"}
  /\ \A d \in Neighbours : \A p \in PendingIn(cache[d]) : outcome[p] = "pending"

\* No packet waits while a later one for the same next hop has been sent.
PacketsKeepOrder == \A p, q \in DOMAIN packetTo :
  /\ p < q /\ packetTo[p] = packetTo[q]
  /\ outcome[p] = "pending" /\ cache[packetTo[p]].state # "STATIC"
  => outcome[q] # "sent"

\* A packet that waits for an address is sent, in its turn, or dropped when the
\* last retry is over; the one timer of the cache is enough for that.
EveryWaitEnds ==
  /\ WaitingNeverExpired
  /\ WaitIsBounded
  /\ PendingMeansWaiting
  /\ PacketsKeepOrder
==============================================================================
