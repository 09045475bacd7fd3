--------------------------- MODULE Internet_proofs ---------------------------
(***************************************************************************)
(* Theorems about the components of the internet stack: the ARP cache, the *)
(* detection of duplicate packets, the reassembly of fragments, an entry   *)
(* of the IPv6 neighbour cache, the endpoints of UDP sockets and the web   *)
(* client and server, for any number of neighbours, packets, keys,         *)
(* sockets, pages and objects, and any timeouts, numbers of retries, ports *)
(* and sizes.                                                              *)
(***************************************************************************)
EXTENDS Arp, IpDuplicates, IpFragments, Ndisc, UdpSockets, Http, Totals_proofs,
        FiniteSetTheorems, SequenceTheorems, TLAPS

----------------------------------------------------------------------------
(* Duplicates.                                                             *)

\* The longest time from one purge to the next.
PurgeGap == IF m_purge > m_expire THEN m_purge ELSE m_expire

\* An entry says when its key was last seen; keys without one were seen too
\* long ago to matter; the pending purge is never late for an entry.
DupInv ==
  /\ dupNow \in Nat /\ cleanDpd \in Int /\ lastSeen \in [Hashes -> Int] /\ DOMAIN m_dups \subseteq Hashes
  /\ \A h \in Hashes : lastSeen[h] <= dupNow
  /\ \A h \in DOMAIN m_dups : lastSeen[h] >= 0 /\ m_dups[h] = lastSeen[h] + m_expire
  /\ \A h \in Hashes \ DOMAIN m_dups : lastSeen[h] >= 0 => lastSeen[h] + m_expire <= dupNow
  /\ cleanDpd = -1 \/ (m_purge > 0 /\ dupNow <= cleanDpd /\ cleanDpd <= dupNow + PurgeGap)
  /\ DOMAIN m_dups # {} /\ m_purge > 0 => cleanDpd # -1
  /\ \A h \in DOMAIN m_dups : cleanDpd <= m_dups[h] + PurgeGap

LEMMA DupConstants ==
  /\ m_expire \in Nat /\ m_purge \in Nat /\ PurgeGap \in Nat
  /\ m_expire <= PurgeGap /\ m_purge <= PurgeGap
BY DupAssumption DEF DupAssumption, PurgeGap

LEMMA DupInitInv == DupInit => DupInv
<1> SUFFICES ASSUME DupInit PROVE DupInv
  OBVIOUS
<1>1. DOMAIN m_dups = {} /\ cleanDpd = -1 /\ dupNow = 0 /\ lastSeen = [h \in Hashes |-> -1]
  BY DEF DupInit
<1> QED
  BY <1>1 DEF DupInv

LEMMA DupStepInv == DupInv /\ [DupNext]_dupVars => DupInv'
<1> SUFFICES ASSUME DupInv, [DupNext]_dupVars PROVE DupInv'
  OBVIOUS
<1>c. /\ m_expire \in Nat /\ m_purge \in Nat /\ PurgeGap \in Nat
      /\ m_expire <= PurgeGap /\ m_purge <= PurgeGap
  BY DupConstants
<1>t. /\ dupNow \in Nat /\ cleanDpd \in Int /\ lastSeen \in [Hashes -> Int]
      /\ DOMAIN m_dups \subseteq Hashes /\ \A h \in Hashes : lastSeen[h] \in Int
      /\ \A h \in DOMAIN m_dups : m_dups[h] \in Int
  BY <1>c DEF DupInv
<1>1. ASSUME NEW h \in Hashes, UpdateDuplicate(h) PROVE DupInv'
  <2>1. /\ DOMAIN m_dups' = DOMAIN m_dups \cup {h} /\ m_dups'[h] = dupNow + m_expire
        /\ \A k \in DOMAIN m_dups : k # h => m_dups'[k] = m_dups[k]
        /\ lastSeen' = [lastSeen EXCEPT ![h] = dupNow] /\ dupNow' = dupNow
        /\ cleanDpd' = IF cleanDpd = -1 /\ m_purge > 0 THEN dupNow + m_expire ELSE cleanDpd
    BY <1>1 DEF UpdateDuplicate
  <2>2. /\ lastSeen' \in [Hashes -> Int] /\ lastSeen'[h] = dupNow
        /\ \A k \in Hashes : k # h => lastSeen'[k] = lastSeen[k]
    BY <1>t, <2>1
  <2>3. /\ cleanDpd' = -1 \/ (m_purge > 0 /\ dupNow <= cleanDpd' /\ cleanDpd' <= dupNow + PurgeGap)
        /\ cleanDpd' \in Int /\ (m_purge > 0 => cleanDpd' # -1)
        /\ cleanDpd' # cleanDpd => DOMAIN m_dups = {}
    <3>1. /\ cleanDpd = -1 \/ (m_purge > 0 /\ dupNow <= cleanDpd /\ cleanDpd <= dupNow + PurgeGap)
          /\ cleanDpd = -1 /\ m_purge > 0 => DOMAIN m_dups = {}
      BY DEF DupInv
    <3>2. CASE cleanDpd = -1 /\ m_purge > 0
      BY <1>c, <1>t, <2>1, <3>1, <3>2
    <3>3. CASE ~(cleanDpd = -1 /\ m_purge > 0)
      BY <1>c, <1>t, <2>1, <3>1, <3>3
    <3> QED
      BY <3>2, <3>3
  <2>4. \A k \in DOMAIN m_dups' : cleanDpd' <= m_dups'[k] + PurgeGap
    BY <1>c, <1>t, <2>1, <2>3 DEF DupInv
  <2> QED
    BY <1>c, <1>t, <2>1, <2>2, <2>3, <2>4 DEF DupInv
<1>2. ASSUME RemoveDuplicates PROVE DupInv'
  <2>1. /\ cleanDpd = dupNow /\ UNCHANGED <<dupNow, lastSeen>>
        /\ DOMAIN m_dups' = {k \in DOMAIN m_dups : m_dups[k] >= dupNow}
        /\ \A k \in DOMAIN m_dups' : m_dups'[k] = m_dups[k]
        /\ cleanDpd' = IF DOMAIN m_dups' # {} /\ m_purge > 0 THEN dupNow + m_purge ELSE -1
    BY <1>2 DEF RemoveDuplicates
  <2>2. \A k \in DOMAIN m_dups' : cleanDpd' <= m_dups'[k] + PurgeGap
    BY <1>c, <1>t, <2>1
  <2>3. \A k \in Hashes \ DOMAIN m_dups' : lastSeen[k] >= 0 => lastSeen[k] + m_expire <= dupNow
    BY <1>c, <1>t, <2>1 DEF DupInv
  <2>4. /\ cleanDpd' \in Int /\ (DOMAIN m_dups' # {} /\ m_purge > 0 => cleanDpd' # -1)
        /\ cleanDpd' = -1 \/ (m_purge > 0 /\ dupNow <= cleanDpd' /\ cleanDpd' <= dupNow + PurgeGap)
    BY <1>c, <1>t, <2>1
  <2> QED
    BY <1>t, <2>1, <2>2, <2>3, <2>4 DEF DupInv
<1>3. ASSUME DupTick PROVE DupInv'
  BY <1>c, <1>t, <1>3 DEF DupTick, DupInv
<1>4. CASE UNCHANGED dupVars
  BY <1>4 DEF dupVars, DupInv
<1> QED
  BY <1>1, <1>2, <1>3, <1>4 DEF DupNext

\* A multicast packet is taken for a duplicate exactly when UpdateDuplicate saw
\* its key less than m_expire before, however RemoveDuplicates comes in
\* between, and no entry outlives the gap between two purges.
THEOREM DuplicatesFoundHolds == DupSpec => []DuplicatesFound
<1>1. DupInv => DuplicatesFound
  <2> SUFFICES ASSUME DupInv PROVE DuplicateIfRecent /\ TablePurged
    BY DEF DuplicatesFound
  <2>1. DuplicateIfRecent
    BY DupConstants DEF DupInv, DuplicateIfRecent, IsDup
  <2>2. TablePurged
    <3> SUFFICES ASSUME m_purge > 0
                 PROVE  /\ DOMAIN m_dups # {} => cleanDpd >= dupNow
                        /\ \A h \in DOMAIN m_dups : dupNow <= lastSeen[h] + m_expire + PurgeGap
      BY DEF TablePurged, PurgeGap
    <3>1. DOMAIN m_dups # {} => cleanDpd >= dupNow
      BY DupConstants DEF DupInv
    <3>2. ASSUME NEW h \in DOMAIN m_dups PROVE dupNow <= lastSeen[h] + m_expire + PurgeGap
      BY <3>1, DupConstants DEF DupInv
    <3> QED
      BY <3>1, <3>2
  <2> QED
    BY <2>1, <2>2
<1> QED
  BY DupInitInv, DupStepInv, <1>1, PTL DEF DupSpec

----------------------------------------------------------------------------
(* The ARP cache: types.                                                   *)

EntryStates == {"NONE", "ALIVE", "WAIT_REPLY", "DEAD", "STATIC"}
Outcomes == {"none", "pending", "sent", "dropped", "flushed"}
ArpEntries == [state : EntryStates, age : 0 .. LongestTimeout + 1, retries : 0 .. m_maxRetries,
               pending : Seq(IpPackets)]

ArpTyped ==
  /\ cache \in [Neighbours -> ArpEntries]
  /\ waitReplyTimer \in {NotRunning} \cup 0 .. WaitReplyTimeout
  /\ jitter \subseteq Neighbours /\ requests \subseteq Neighbours /\ replies \subseteq Neighbours
  /\ packetTo \in Seq(Neighbours) /\ Len(packetTo) <= MaxIpPackets
  /\ outcome \in [IpPackets -> Outcomes] /\ waited \in [Neighbours -> Nat]
\* No queue is longer than PendingQueueSize.
QueuesBounded == \A d \in Neighbours : Len(cache[d].pending) <= m_pendingQueueSize

LEMMA ArpConstants ==
  /\ AliveTimeout \in Nat /\ DeadTimeout \in Nat /\ WaitReplyTimeout \in Nat /\ WaitReplyTimeout > 0
  /\ m_maxRetries \in Nat /\ m_pendingQueueSize \in Nat /\ m_pendingQueueSize >= 1
  /\ MaxIpPackets \in Nat
BY ArpAssumption DEF ArpAssumption

LEMMA Longest == LongestTimeout \in Nat /\ WaitReplyTimeout <= LongestTimeout
<1>1. \E m \in {AliveTimeout, DeadTimeout, WaitReplyTimeout} :
        m >= AliveTimeout /\ m >= DeadTimeout /\ m >= WaitReplyTimeout
  BY ArpConstants
<1>2. /\ LongestTimeout \in {AliveTimeout, DeadTimeout, WaitReplyTimeout}
      /\ LongestTimeout >= WaitReplyTimeout
  BY <1>1 DEF LongestTimeout
<1> QED
  BY <1>2, ArpConstants

\* What the entries are, field by field.
LEMMA EntriesTyped == ASSUME ArpTyped, NEW d \in Neighbours
  PROVE  /\ cache[d].state \in EntryStates /\ cache[d].age \in 0 .. LongestTimeout + 1
         /\ cache[d].retries \in 0 .. m_maxRetries /\ cache[d].pending \in Seq(IpPackets)
         /\ PendingIn(cache[d]) \subseteq IpPackets
         /\ (PendingIn(cache[d]) = {} => cache[d].pending = <<>>)
<1>1. cache[d] \in ArpEntries
  BY DEF ArpTyped
<1>2. /\ cache[d].state \in EntryStates /\ cache[d].age \in 0 .. LongestTimeout + 1
      /\ cache[d].retries \in 0 .. m_maxRetries /\ cache[d].pending \in Seq(IpPackets)
  BY <1>1 DEF ArpEntries
<1> DEFINE s == cache[d].pending
<1>3. s \in Seq(IpPackets) /\ PendingIn(cache[d]) = {s[i] : i \in DOMAIN s}
  BY <1>2 DEF PendingIn
<1> HIDE DEF s
<1>4. Len(s) \in Nat /\ DOMAIN s = 1 .. Len(s) /\ \A i \in 1 .. Len(s) : s[i] \in IpPackets
  BY <1>3, LenProperties, ElementOfSeq
<1>5. s # <<>> => Len(s) >= 1
  BY <1>3, <1>4, EmptySeq
<1>6. s # <<>> => s[1] \in {s[i] : i \in DOMAIN s}
  BY <1>4, <1>5
<1> QED
  BY <1>2, <1>3, <1>4, <1>6 DEF s

\* An entry that is made, or changed in part, is one.
LEMMA EntryMade ==
  ASSUME NEW st \in EntryStates, NEW a \in 0 .. LongestTimeout + 1, NEW r \in 0 .. m_maxRetries,
         NEW q \in Seq(IpPackets)
  PROVE  [state |-> st, age |-> a, retries |-> r, pending |-> q] \in ArpEntries
BY DEF ArpEntries

LEMMA NoEntryTyped ==
  /\ NoEntry.state = "NONE" /\ NoEntry.age = 0 /\ NoEntry.retries = 0
  /\ NoEntry.pending = <<>> /\ PendingIn(NoEntry) = {} /\ NoEntry \in ArpEntries
  /\ [NoEntry EXCEPT !.state = "DEAD"] \in ArpEntries
<1>1. <<>> \in Seq(IpPackets) /\ DOMAIN <<>> = {} /\ 0 \in 0 .. LongestTimeout + 1
      /\ 0 \in 0 .. m_maxRetries
  BY EmptySeq, Longest, ArpConstants
<1>2. [state |-> "NONE", age |-> 0, retries |-> 0, pending |-> <<>>] \in ArpEntries
      /\ [state |-> "DEAD", age |-> 0, retries |-> 0, pending |-> <<>>] \in ArpEntries
  BY <1>1, EntryMade DEF EntryStates
<1>3. [NoEntry EXCEPT !.state = "DEAD"] = [state |-> "DEAD", age |-> 0, retries |-> 0, pending |-> <<>>]
  BY DEF NoEntry
<1>4. NoEntry = [state |-> "NONE", age |-> 0, retries |-> 0, pending |-> <<>>]
  BY DEF NoEntry
<1>5. PendingIn(NoEntry) = {}
  BY <1>1, <1>4 DEF PendingIn
<1> QED
  BY <1>2, <1>3, <1>4, <1>5

\* A packet at the end of a queue.
LEMMA Joined ==
  ASSUME NEW s \in Seq(IpPackets), NEW n \in IpPackets
  PROVE  /\ Append(s, n) \in Seq(IpPackets) /\ Len(Append(s, n)) = Len(s) + 1
         /\ {Append(s, n)[i] : i \in DOMAIN Append(s, n)} = {s[i] : i \in DOMAIN s} \cup {n}
<1> DEFINE r == Append(s, n)
<1>1. r \in Seq(IpPackets) /\ Len(r) = Len(s) + 1 /\ Len(s) \in Nat
      /\ \A i \in 1 .. Len(s) : r[i] = s[i]
  BY AppendProperties, LenProperties
<1>2. r[Len(s) + 1] = n
  BY AppendProperties
<1> HIDE DEF r
<1>3. DOMAIN s = 1 .. Len(s) /\ DOMAIN r = 1 .. Len(s) + 1
  BY <1>1, LenProperties
<1>4. {r[i] : i \in DOMAIN r} = {s[i] : i \in DOMAIN s} \cup {n}
  <2>1. \A i \in DOMAIN r : i \in DOMAIN s \/ i = Len(s) + 1
    BY <1>1, <1>3
  <2>2. \A i \in DOMAIN s : i \in DOMAIN r /\ r[i] = s[i]
    BY <1>1, <1>3
  <2>3. Len(s) + 1 \in DOMAIN r
    BY <1>1, <1>3
  <2> QED
    BY <1>2, <2>1, <2>2, <2>3
<1> QED
  BY <1>1, <1>4 DEF r

\* A new packet for d, whatever becomes of it.
LEMMA NewPacketTyped ==
  ASSUME ArpTyped, NEW d \in Neighbours, NEW what \in Outcomes, NewIpPacket(d, what)
  PROVE  /\ Len(packetTo) + 1 \in IpPackets
         /\ packetTo' \in Seq(Neighbours) /\ Len(packetTo') <= MaxIpPackets
         /\ outcome' \in [IpPackets -> Outcomes]
         /\ DOMAIN packetTo' = DOMAIN packetTo \cup {Len(packetTo) + 1}
         /\ Len(packetTo) + 1 \notin DOMAIN packetTo /\ packetTo'[Len(packetTo) + 1] = d
         /\ \A p \in DOMAIN packetTo : packetTo'[p] = packetTo[p] /\ p < Len(packetTo) + 1
         /\ \A p \in IpPackets : outcome'[p] = IF p = Len(packetTo) + 1 THEN what ELSE outcome[p]
<1>1. /\ packetTo \in Seq(Neighbours) /\ packetTo' = Append(packetTo, d)
      /\ Len(packetTo) < MaxIpPackets /\ outcome \in [IpPackets -> Outcomes]
      /\ outcome' = Settle({Len(packetTo) + 1}, what)
  BY DEF NewIpPacket, ArpTyped
<1>2. /\ packetTo' \in Seq(Neighbours) /\ Len(packetTo') = Len(packetTo) + 1
      /\ Len(packetTo) \in Nat /\ DOMAIN packetTo = 1 .. Len(packetTo)
      /\ DOMAIN packetTo' = 1 .. Len(packetTo) + 1
      /\ \A p \in 1 .. Len(packetTo) : packetTo'[p] = packetTo[p]
      /\ packetTo'[Len(packetTo) + 1] = d
  BY <1>1, LenProperties, AppendProperties
<1>3. Len(packetTo) + 1 \in IpPackets /\ Len(packetTo') <= MaxIpPackets
  BY <1>1, <1>2, ArpConstants DEF IpPackets
<1>4. \A p \in IpPackets : outcome'[p] = IF p = Len(packetTo) + 1 THEN what ELSE outcome[p]
  BY <1>1 DEF Settle
<1>5. outcome' \in [IpPackets -> Outcomes]
  BY <1>1 DEF Settle
<1> QED
  BY <1>2, <1>3, <1>4, <1>5

LEMMA SettleTyped ==
  ASSUME ArpTyped, NEW P, NEW what \in Outcomes, outcome' = Settle(P, what)
  PROVE  outcome' \in [IpPackets -> Outcomes]
BY DEF Settle, ArpTyped

\* One entry changes.
LEMMA OneChanged ==
  ASSUME ArpTyped, QueuesBounded, NEW d \in Neighbours, NEW e \in ArpEntries,
         Len(e.pending) <= m_pendingQueueSize, cache' = [cache EXCEPT ![d] = e]
  PROVE  /\ cache' \in [Neighbours -> ArpEntries] /\ QueuesBounded' /\ cache'[d] = e
         /\ \A c \in Neighbours : c # d => cache'[c] = cache[c]
<1>1. /\ cache' \in [Neighbours -> ArpEntries] /\ cache'[d] = e
      /\ \A c \in Neighbours : c # d => cache'[c] = cache[c]
  BY DEF ArpTyped
<1> QED
  BY <1>1 DEF QueuesBounded

\* A packet comes to the end of the queue of d.
LEMMA JoinTyped ==
  ASSUME ArpTyped, QueuesBounded, NEW d \in Neighbours, NEW n \in IpPackets,
         NEW e \in ArpEntries, e.pending = Append(cache[d].pending, n),
         Len(cache[d].pending) < m_pendingQueueSize, cache' = [cache EXCEPT ![d] = e]
  PROVE  /\ cache' \in [Neighbours -> ArpEntries] /\ QueuesBounded' /\ cache'[d] = e
         /\ PendingIn(cache'[d]) = PendingIn(cache[d]) \cup {n}
         /\ \A c \in Neighbours : c # d => cache'[c] = cache[c]
<1> DEFINE s == cache[d].pending
           q == Append(s, n)
<1>1. s \in Seq(IpPackets)
  BY EntriesTyped
<1>2. Len(q) = Len(s) + 1 /\ {q[i] : i \in DOMAIN q} = {s[i] : i \in DOMAIN s} \cup {n}
  BY <1>1, Joined
<1>3. Len(s) \in Nat /\ Len(s) < m_pendingQueueSize
  BY <1>1, LenProperties
<1>4. e.pending = q /\ cache[d].pending = s
  OBVIOUS
<1> HIDE DEF s, q
<1>5. Len(e.pending) <= m_pendingQueueSize
  BY <1>2, <1>3, <1>4, ArpConstants
<1>6. /\ cache' \in [Neighbours -> ArpEntries] /\ QueuesBounded' /\ cache'[d] = e
      /\ \A c \in Neighbours : c # d => cache'[c] = cache[c]
  BY <1>5, OneChanged
<1>7. PendingIn(e) = PendingIn(cache[d]) \cup {n}
  BY ZenonT(40), ZenonT(40), <1>2, <1>4 DEF PendingIn
<1> QED
  BY <1>6, <1>7

\* The entries that an action makes of an entry.
LEMMA ChangedEntries ==
  ASSUME NEW e \in ArpEntries, NEW n \in IpPackets
  PROVE  /\ [e EXCEPT !.pending = Append(@, n)] \in ArpEntries
         /\ [[[e EXCEPT !.state = "WAIT_REPLY"] EXCEPT !.age = 0] EXCEPT !.pending = Append(@, n)]
              \in ArpEntries
<1>1. e.pending \in Seq(IpPackets) /\ 0 \in 0 .. LongestTimeout + 1 /\ "WAIT_REPLY" \in EntryStates
  BY Longest DEF ArpEntries, EntryStates
<1>2. Append(e.pending, n) \in Seq(IpPackets)
  BY <1>1, Joined
<1> QED
  BY <1>1, <1>2 DEF ArpEntries

----------------------------------------------------------------------------
(* The ARP cache: the timer and the packets that wait.                     *)

\* An entry that waits is never older than the time the one timer has run, and
\* waited no longer than its retries account for.
TimerInv == \A d \in Neighbours : cache[d].state = "WAIT_REPLY" =>
  /\ waitReplyTimer # NotRunning /\ cache[d].age + waitReplyTimer <= WaitReplyTimeout
  /\ waited[d] + waitReplyTimer <= cache[d].retries * WaitReplyTimeout + WaitReplyTimeout

\* The packets without an outcome are those queued, each in the entry of its
\* next hop; only an entry that waits, or did before it was made static, has any.
QueuesInv ==
  /\ \A p \in IpPackets : outcome[p] = "pending" =>
       p \in DOMAIN packetTo /\ p \in PendingIn(cache[packetTo[p]])
  /\ \A d \in Neighbours : PendingIn(cache[d]) # {} => cache[d].state \in {"WAIT_REPLY", "STATIC"}
  /\ \A d \in Neighbours : \A p \in PendingIn(cache[d]) :
       p \in IpPackets /\ p \in DOMAIN packetTo /\ packetTo[p] = d /\ outcome[p] = "pending"
  /\ \A p, q \in DOMAIN packetTo :
       p < q /\ packetTo[p] = packetTo[q] /\ outcome[p] = "pending"
         /\ cache[packetTo[p]].state # "STATIC" => outcome[q] # "sent"

ArpInv == ArpTyped /\ QueuesBounded /\ TimerInv /\ QueuesInv

\* The packets of the entries D are settled, those of the others stay.
LEMMA SettleStep ==
  ASSUME ArpTyped, QueuesInv, NEW D \in SUBSET Neighbours, NEW what \in {"sent", "dropped", "flushed"},
         packetTo' = packetTo,
         \A d \in D : PendingIn(cache'[d]) = {},
         \A d \in Neighbours \ D : PendingIn(cache'[d]) = PendingIn(cache[d]),
         \A d \in Neighbours \ D : PendingIn(cache[d]) # {} =>
           cache'[d].state = cache[d].state \/ cache'[d].state = "STATIC",
         \A p \in IpPackets : outcome'[p] =
           IF \E d \in D : p \in PendingIn(cache[d]) THEN what ELSE outcome[p]
  PROVE  QueuesInv'
<1>t. /\ DOMAIN packetTo' = DOMAIN packetTo /\ \A p \in DOMAIN packetTo : p \in IpPackets
      /\ \A p \in DOMAIN packetTo : packetTo[p] \in Neighbours
  <2>1. packetTo \in Seq(Neighbours) /\ Len(packetTo) <= MaxIpPackets
    BY DEF ArpTyped
  <2>2. DOMAIN packetTo = 1 .. Len(packetTo) /\ Len(packetTo) \in Nat
    BY <2>1, LenProperties
  <2> QED
    BY <2>1, <2>2, ElementOfSeq, ArpConstants DEF IpPackets
<1>1. \A p \in IpPackets : outcome'[p] = "pending" =>
        /\ outcome[p] = "pending" /\ p \in DOMAIN packetTo /\ packetTo[p] \notin D
        /\ p \in PendingIn(cache[packetTo[p]])
  BY <1>t DEF QueuesInv
<1>2. \A p \in IpPackets : outcome'[p] = "pending" =>
        p \in DOMAIN packetTo' /\ p \in PendingIn(cache'[packetTo'[p]])
  BY <1>t, <1>1
<1>3. \A d \in Neighbours : PendingIn(cache'[d]) # {} => cache'[d].state \in {"WAIT_REPLY", "STATIC"}
  BY DEF QueuesInv
<1>4. ASSUME NEW d \in Neighbours, NEW p \in PendingIn(cache'[d])
      PROVE  p \in IpPackets /\ p \in DOMAIN packetTo' /\ packetTo'[p] = d /\ outcome'[p] = "pending"
  <2>1. d \notin D /\ p \in PendingIn(cache[d])
    BY <1>4
  <2>2. p \in IpPackets /\ p \in DOMAIN packetTo /\ packetTo[p] = d /\ outcome[p] = "pending"
    BY <2>1 DEF QueuesInv
  <2>3. \A c \in D : p \notin PendingIn(cache[c])
    BY <2>1, <2>2 DEF QueuesInv
  <2> QED
    BY <2>2, <2>3
<1>5. ASSUME NEW p \in DOMAIN packetTo, NEW q \in DOMAIN packetTo, p < q, packetTo[p] = packetTo[q],
             outcome'[p] = "pending", cache'[packetTo[p]].state # "STATIC"
      PROVE  outcome'[q] # "sent"
  <2>1. outcome[p] = "pending" /\ packetTo[p] \notin D /\ PendingIn(cache[packetTo[p]]) # {}
    BY <1>t, <1>1, <1>5
  <2>2. cache[packetTo[p]].state # "STATIC"
    BY <1>t, <1>5, <2>1
  <2>3. outcome[q] # "sent"
    BY <1>5, <2>1, <2>2 DEF QueuesInv
  <2>4. \A c \in D : q \notin PendingIn(cache[c])
    BY <1>5, <2>1 DEF QueuesInv
  <2> QED
    BY <1>t, <2>3, <2>4
<1> QED
  BY <1>t, <1>2, <1>3, <1>4, <1>5 DEF QueuesInv

\* A new packet that is sent at once, or dropped.
LEMMA SettledStep ==
  ASSUME ArpTyped, QueuesInv, NEW d \in Neighbours, NEW what \in {"sent", "dropped"},
         NewIpPacket(d, what), cache' = cache,
         what = "sent" => cache[d].state \in {"ALIVE", "STATIC"}
  PROVE  QueuesInv'
<1> PICK n \in IpPackets : n = Len(packetTo) + 1
  BY NewPacketTyped DEF Outcomes
<1>t. /\ DOMAIN packetTo' = DOMAIN packetTo \cup {n} /\ n \notin DOMAIN packetTo /\ packetTo'[n] = d
      /\ \A p \in DOMAIN packetTo : packetTo'[p] = packetTo[p] /\ p < n
      /\ \A p \in IpPackets : outcome'[p] = IF p = n THEN what ELSE outcome[p]
  BY NewPacketTyped DEF Outcomes
<1>d. \A p \in DOMAIN packetTo : p \in IpPackets /\ packetTo[p] \in Neighbours /\ p \in Int
  <2>1. packetTo \in Seq(Neighbours) /\ Len(packetTo) <= MaxIpPackets
    BY DEF ArpTyped
  <2>2. DOMAIN packetTo = 1 .. Len(packetTo) /\ Len(packetTo) \in Nat
    BY <2>1, LenProperties
  <2> QED
    BY <2>1, <2>2, ElementOfSeq, ArpConstants DEF IpPackets
<1>1. \A p \in IpPackets : outcome'[p] = "pending" =>
        p \in DOMAIN packetTo' /\ p \in PendingIn(cache'[packetTo'[p]])
  BY <1>t DEF QueuesInv
<1>2. \A c \in Neighbours : \A p \in PendingIn(cache'[c]) :
        p \in IpPackets /\ p \in DOMAIN packetTo' /\ packetTo'[p] = c /\ outcome'[p] = "pending"
  BY <1>t, SMTT(60) DEF QueuesInv
<1>3. ASSUME NEW p \in DOMAIN packetTo', NEW q \in DOMAIN packetTo', p < q, packetTo'[p] = packetTo'[q],
             outcome'[p] = "pending", cache'[packetTo'[p]].state # "STATIC"
      PROVE  outcome'[q] # "sent"
  <2>1. p \in DOMAIN packetTo /\ outcome[p] = "pending" /\ packetTo'[p] = packetTo[p]
    BY <1>3, <1>t, <1>d
  <2>2. CASE q = n
    <3>1. packetTo[p] = d
      BY <1>3, <1>t, <2>1, <2>2
    <3>2. PendingIn(cache[d]) # {}
      BY <1>d, <2>1, <3>1 DEF QueuesInv
    <3>3. cache[d].state = "WAIT_REPLY"
      BY <1>3, <2>1, <3>1, <3>2 DEF QueuesInv
    <3> QED
      BY <1>t, <2>2, <3>3
  <2>3. CASE q # n
    <3>1. q \in DOMAIN packetTo /\ packetTo[q] = packetTo[p]
      BY <1>3, <1>t, <2>1, <2>3
    <3>2. outcome[q] # "sent"
      BY <1>3, <2>1, <3>1 DEF QueuesInv
    <3> QED
      BY <1>t, <1>d, <2>3, <3>1, <3>2
  <2> QED
    BY <2>2, <2>3
<1>4. \A c \in Neighbours : PendingIn(cache'[c]) # {} => cache'[c].state \in {"WAIT_REPLY", "STATIC"}
  BY DEF QueuesInv
<1> QED
  BY <1>1, <1>2, <1>3, <1>4 DEF QueuesInv

\* A new packet that joins those that wait.
LEMMA QueuedStep ==
  ASSUME ArpTyped, QueuesInv, NEW d \in Neighbours, NewIpPacket(d, "pending"),
         cache[d].state # "STATIC", cache'[d].state = "WAIT_REPLY",
         PendingIn(cache'[d]) = PendingIn(cache[d]) \cup {Len(packetTo) + 1},
         \A c \in Neighbours : c # d => cache'[c] = cache[c]
  PROVE  QueuesInv'
<1> PICK n \in IpPackets : n = Len(packetTo) + 1
  BY NewPacketTyped DEF Outcomes
<1>t. /\ DOMAIN packetTo' = DOMAIN packetTo \cup {n} /\ n \notin DOMAIN packetTo /\ packetTo'[n] = d
      /\ \A p \in DOMAIN packetTo : packetTo'[p] = packetTo[p] /\ p < n
      /\ \A p \in IpPackets : outcome'[p] = IF p = n THEN "pending" ELSE outcome[p]
      /\ PendingIn(cache'[d]) = PendingIn(cache[d]) \cup {n} /\ n \in Int
  <2>1. "pending" \in Outcomes /\ n \in Int
    BY DEF Outcomes, IpPackets
  <2> QED
    BY ZenonT(40), ZenonT(40), <2>1, NewPacketTyped
<1>d. \A p \in DOMAIN packetTo : p \in IpPackets /\ packetTo[p] \in Neighbours /\ p \in Int
  <2>1. packetTo \in Seq(Neighbours) /\ Len(packetTo) <= MaxIpPackets
    BY DEF ArpTyped
  <2>2. DOMAIN packetTo = 1 .. Len(packetTo) /\ Len(packetTo) \in Nat
    BY <2>1, LenProperties
  <2> QED
    BY <2>1, <2>2, ElementOfSeq, ArpConstants DEF IpPackets
<1>1. ASSUME NEW p \in IpPackets, outcome'[p] = "pending"
      PROVE  p \in DOMAIN packetTo' /\ p \in PendingIn(cache'[packetTo'[p]])
  <2>1. CASE p = n
    BY <1>t, <2>1
  <2>2. CASE p # n
    <3>1. p \in DOMAIN packetTo /\ p \in PendingIn(cache[packetTo[p]])
      BY <1>1, <1>t, <2>2 DEF QueuesInv
    <3> QED
      BY <1>t, <1>d, <3>1
  <2> QED
    BY <2>1, <2>2
<1>2. ASSUME NEW c \in Neighbours, NEW p \in PendingIn(cache'[c])
      PROVE  p \in IpPackets /\ p \in DOMAIN packetTo' /\ packetTo'[p] = c /\ outcome'[p] = "pending"
  <2>1. CASE p = n /\ c = d
    BY <1>t, <2>1
  <2>2. CASE ~(p = n /\ c = d)
    <3>1. p \in PendingIn(cache[c])
      BY <1>2, <1>t, <2>2
    <3>2. p \in IpPackets /\ p \in DOMAIN packetTo /\ packetTo[p] = c /\ outcome[p] = "pending"
      BY <3>1 DEF QueuesInv
    <3> QED
      BY <1>t, <3>2
  <2> QED
    BY <2>1, <2>2
<1>3. ASSUME NEW p \in DOMAIN packetTo', NEW q \in DOMAIN packetTo', p < q, packetTo'[p] = packetTo'[q],
             outcome'[p] = "pending", cache'[packetTo'[p]].state # "STATIC"
      PROVE  outcome'[q] # "sent"
  <2>1. p \in DOMAIN packetTo /\ outcome[p] = "pending" /\ packetTo'[p] = packetTo[p]
    BY <1>3, <1>t, <1>d
  <2>2. CASE q = n
    BY <1>t, <2>2
  <2>3. CASE q # n
    <3>1. q \in DOMAIN packetTo /\ packetTo[q] = packetTo[p] /\ packetTo[p] \in Neighbours
      BY <1>3, <1>t, <1>d, <2>1, <2>3
    <3>2. cache[packetTo[p]].state # "STATIC"
      BY <1>3, <2>1, <3>1
    <3>3. outcome[q] # "sent"
      BY <1>3, <2>1, <3>1, <3>2 DEF QueuesInv
    <3> QED
      BY <1>t, <1>d, <2>3, <3>1, <3>3
  <2> QED
    BY <2>2, <2>3
<1>4. \A c \in Neighbours : PendingIn(cache'[c]) # {} => cache'[c].state \in {"WAIT_REPLY", "STATIC"}
  BY DEF QueuesInv
<1> QED
  BY <1>1, <1>2, <1>3, <1>4 DEF QueuesInv

\* Nothing but what is on the link changes.
LEMMA QuietStep ==
  ASSUME ArpInv, UNCHANGED <<cache, waitReplyTimer, packetTo, outcome, waited>>,
         jitter' \subseteq Neighbours, requests' \subseteq Neighbours, replies' \subseteq Neighbours
  PROVE  ArpInv'
BY DEF ArpInv, ArpTyped, QueuesBounded, TimerInv, QueuesInv

LEMMA LookupAskInv == ASSUME ArpInv, NEW d \in Neighbours, LookupAsk(d) PROVE ArpInv'
<1> USE DEF ArpInv
<1> DEFINE n == Len(packetTo) + 1
           e == [[[cache[d] EXCEPT !.state = "WAIT_REPLY"] EXCEPT !.age = 0] EXCEPT !.pending = Append(@, n)]
<1>1. /\ NewIpPacket(d, "pending") /\ MustAsk(cache[d]) /\ StartTimer
      /\ cache' = [cache EXCEPT ![d] = e]
      /\ jitter' = jitter \cup {d} /\ waited' = [waited EXCEPT ![d] = 0]
      /\ UNCHANGED <<requests, replies>>
  BY DEF LookupAsk, ArpTyped, ArpEntries
<1>2. /\ cache[d] \in ArpEntries /\ cache[d].state \in {"NONE", "DEAD", "ALIVE"}
      /\ "pending" \in Outcomes
  BY <1>1 DEF MustAsk, ArpTyped, Outcomes
<1>3. n \in IpPackets
  BY <1>1, <1>2, NewPacketTyped
<1>4. e.state = "WAIT_REPLY" /\ e.age = 0 /\ e.pending = Append(cache[d].pending, n)
      /\ e.retries = cache[d].retries
  BY <1>2 DEF ArpEntries
<1>5. e \in ArpEntries
  BY <1>2, <1>3, ChangedEntries
<1>6. PendingIn(cache[d]) = {}
  BY <1>2 DEF QueuesInv
<1>7. Len(cache[d].pending) < m_pendingQueueSize
  <2>1. cache[d].pending = <<>>
    BY <1>6, EntriesTyped
  <2> QED
    BY <2>1, EmptySeq, ArpConstants
<1> HIDE DEF e
<1>8. /\ cache' \in [Neighbours -> ArpEntries] /\ QueuesBounded' /\ cache'[d] = e
      /\ PendingIn(cache'[d]) = PendingIn(cache[d]) \cup {n}
      /\ \A c \in Neighbours : c # d => cache'[c] = cache[c]
  BY <1>1, <1>3, <1>4, <1>5, <1>7, JoinTyped
<1>9. QueuesInv'
  BY <1>1, <1>2, <1>4, <1>8, QueuedStep
<1>10. /\ waitReplyTimer' \in 0 .. WaitReplyTimeout /\ waitReplyTimer' # NotRunning
       /\ waitReplyTimer # NotRunning => waitReplyTimer' = waitReplyTimer
  BY <1>1, ArpConstants DEF StartTimer, ArpTyped, NotRunning
<1>11. ArpTyped'
  <2>1. /\ packetTo' \in Seq(Neighbours) /\ Len(packetTo') <= MaxIpPackets
        /\ outcome' \in [IpPackets -> Outcomes]
    BY <1>1, <1>2, NewPacketTyped
  <2> QED
    BY <1>1, <1>8, <1>10, <2>1 DEF ArpTyped
<1>12. TimerInv'
  <2> SUFFICES ASSUME NEW c \in Neighbours, cache'[c].state = "WAIT_REPLY"
               PROVE  /\ waitReplyTimer' # NotRunning /\ cache'[c].age + waitReplyTimer' <= WaitReplyTimeout
                      /\ waited'[c] + waitReplyTimer' <= cache'[c].retries * WaitReplyTimeout + WaitReplyTimeout
    BY DEF TimerInv
  <2>1. CASE c = d
    <3>1. cache[d].retries \in Nat
      BY <1>2, ArpConstants DEF ArpEntries
    <3>2. \A r \in Nat : r * WaitReplyTimeout \in Nat
      BY ArpConstants
    <3>3. cache'[c].age = 0 /\ waited'[c] = 0 /\ cache'[c].retries * WaitReplyTimeout \in Nat
      BY <1>1, <1>4, <1>8, <2>1, <3>1, <3>2 DEF ArpTyped
    <3>4. PICK m \in Nat : m = cache'[c].retries * WaitReplyTimeout
      BY <3>3
    <3>5. /\ waitReplyTimer' # NotRunning /\ cache'[c].age + waitReplyTimer' <= WaitReplyTimeout
          /\ waited'[c] + waitReplyTimer' <= m + WaitReplyTimeout
      <4>1. cache'[c].age = 0 /\ waited'[c] = 0
        BY <3>3
      <4>2. waitReplyTimer' \in Nat /\ waitReplyTimer' <= WaitReplyTimeout
        BY <1>10, ArpConstants
      <4>3. waited'[c] + waitReplyTimer' = waitReplyTimer' /\ cache'[c].age + waitReplyTimer' = waitReplyTimer'
        <5>1. PICK t \in Nat : t = waitReplyTimer'
          BY <4>2
        <5>2. 0 + t = t
          OBVIOUS
        <5> QED
          BY <4>1, <5>1, <5>2, Zenon
      <4>4. waitReplyTimer' <= m + WaitReplyTimeout
        BY <4>2, ArpConstants
      <4> QED
        BY <1>10, <4>2, <4>3, <4>4
    <3> QED
      BY <3>4, <3>5
  <2>2. CASE c # d
    BY <1>1, <1>8, <1>10, <2>2 DEF TimerInv, ArpTyped
  <2> QED
    BY <2>1, <2>2
<1> QED
  BY <1>8, <1>9, <1>11, <1>12

\* LookupKnown, LookupDead, and LookupWaiting when the queue is full.
LEMMA LookupSettledInv ==
  ASSUME ArpInv, NEW d \in Neighbours, NEW what \in {"sent", "dropped"}, NewIpPacket(d, what),
         UNCHANGED <<cache, waitReplyTimer, jitter, requests, replies, waited>>,
         what = "sent" => cache[d].state \in {"ALIVE", "STATIC"}
  PROVE  ArpInv'
<1> USE DEF ArpInv
<1>1. QueuesInv'
  BY SettledStep
<1>2. /\ packetTo' \in Seq(Neighbours) /\ Len(packetTo') <= MaxIpPackets
      /\ outcome' \in [IpPackets -> Outcomes]
  <2>1. what \in Outcomes
    BY DEF Outcomes
  <2> QED
    BY <2>1, NewPacketTyped
<1> QED
  BY <1>1, <1>2 DEF ArpTyped, QueuesBounded, TimerInv

LEMMA LookupWaitingInv == ASSUME ArpInv, NEW d \in Neighbours, LookupWaiting(d) PROVE ArpInv'
<1> USE DEF ArpInv
<1>1. CASE ~HasRoom(cache[d])
  BY <1>1, LookupSettledInv DEF LookupWaiting
<1>2. CASE HasRoom(cache[d])
  <2> DEFINE n == Len(packetTo) + 1
             e == [cache[d] EXCEPT !.pending = Append(@, n)]
  <2>1. /\ NewIpPacket(d, "pending") /\ cache[d].state = "WAIT_REPLY"
        /\ cache' = [cache EXCEPT ![d] = e] /\ Len(cache[d].pending) < m_pendingQueueSize
        /\ UNCHANGED <<waitReplyTimer, jitter, requests, replies, waited>>
    BY <1>2 DEF LookupWaiting, HasRoom
  <2>2. cache[d] \in ArpEntries /\ "pending" \in Outcomes
    BY DEF ArpTyped, Outcomes
  <2>3. n \in IpPackets /\ packetTo' \in Seq(Neighbours) /\ Len(packetTo') <= MaxIpPackets
        /\ outcome' \in [IpPackets -> Outcomes]
    BY <2>1, <2>2, NewPacketTyped
  <2>4. e.state = "WAIT_REPLY" /\ e.age = cache[d].age /\ e.pending = Append(cache[d].pending, n)
        /\ e.retries = cache[d].retries
    BY <2>1, <2>2 DEF ArpEntries
  <2>5. e \in ArpEntries
    BY <2>2, <2>3, ChangedEntries
  <2> HIDE DEF e
  <2>6. /\ cache' \in [Neighbours -> ArpEntries] /\ QueuesBounded' /\ cache'[d] = e
        /\ PendingIn(cache'[d]) = PendingIn(cache[d]) \cup {n}
        /\ \A c \in Neighbours : c # d => cache'[c] = cache[c]
    BY <2>1, <2>3, <2>4, <2>5, JoinTyped
  <2>7. QueuesInv'
    BY <2>1, <2>4, <2>6, QueuedStep
  <2>8. ArpTyped'
    BY <2>1, <2>3, <2>6 DEF ArpTyped
  <2>9. \A c \in Neighbours : /\ cache'[c].state = cache[c].state /\ cache'[c].age = cache[c].age
                              /\ cache'[c].retries = cache[c].retries
    BY <2>1, <2>4, <2>6
  <2>10. TimerInv'
    BY <2>1, <2>9 DEF TimerInv
  <2> QED
    BY <2>6, <2>7, <2>8, <2>10
<1> QED
  BY <1>1, <1>2

LEMMA ReceiveReplyInv == ASSUME ArpInv, NEW d \in Neighbours, ReceiveReply(d) PROVE ArpInv'
<1> USE DEF ArpInv
<1>1. CASE cache[d].state # "WAIT_REPLY"
  <2>1. replies' \subseteq Neighbours
    BY DEF ReceiveReply, ArpTyped
  <2> QED
    BY <1>1, <2>1, QuietStep DEF ReceiveReply, ArpTyped
<1>2. CASE cache[d].state = "WAIT_REPLY"
  <2> DEFINE e == MarkAlive(cache[d])
  <2>1. /\ cache' = [cache EXCEPT ![d] = e] /\ replies' \subseteq Neighbours
        /\ outcome' = Settle(PendingIn(cache[d]) \ PendingIn(e), "sent")
        /\ UNCHANGED <<waitReplyTimer, jitter, requests, packetTo, waited>>
    BY <1>2 DEF ReceiveReply, ArpTyped
  <2>2. cache[d] \in ArpEntries /\ <<>> \in Seq(IpPackets) /\ Len(<<>>) = 0 /\ DOMAIN <<>> = {}
    BY EmptySeq DEF ArpTyped
  <2>3. e.state = "ALIVE" /\ e.pending = <<>> /\ e \in ArpEntries
    <3>1. 0 \in 0 .. LongestTimeout + 1 /\ 0 \in 0 .. m_maxRetries /\ "ALIVE" \in EntryStates
      BY Longest, ArpConstants DEF EntryStates
    <3>2. e.state = "ALIVE" /\ e.pending = <<>>
      BY <2>2 DEF ArpEntries, MarkAlive
    <3>3. <<>> \in Seq(IpPackets)
      BY <2>2
    <3>4. e \in ArpEntries
      BY <2>2, <3>1, <3>3 DEF ArpEntries, MarkAlive
    <3> QED
      BY <3>2, <3>4
  <2> HIDE DEF e
  <2>4. PendingIn(e) = {}
    BY <2>2, <2>3 DEF PendingIn
  <2>5. /\ cache' \in [Neighbours -> ArpEntries] /\ QueuesBounded' /\ cache'[d] = e
        /\ \A c \in Neighbours : c # d => cache'[c] = cache[c]
    <3>1. Len(e.pending) <= m_pendingQueueSize
      BY <2>2, <2>3, ArpConstants
    <3> QED
      BY <2>1, <2>3, <3>1, OneChanged
  <2>6. QueuesInv'
    <3>1. \A p \in IpPackets : outcome'[p] =
            IF \E c \in {d} : p \in PendingIn(cache[c]) THEN "sent" ELSE outcome[p]
      BY <2>1, <2>4 DEF Settle
    <3>2. /\ \A c \in {d} : PendingIn(cache'[c]) = {}
          /\ \A c \in Neighbours \ {d} : cache'[c] = cache[c]
      BY <2>4, <2>5
    <3> QED
      BY ZenonT(40), <2>1, <3>1, <3>2, SettleStep, ZenonT(60)
  <2>7. ArpTyped'
    <3>1. outcome' \in [IpPackets -> Outcomes]
      BY <2>1, SettleTyped DEF Outcomes
    <3> QED
      BY <2>1, <2>5, <3>1 DEF ArpTyped
  <2>8. TimerInv'
    BY <2>1, <2>3, <2>5 DEF TimerInv
  <2> QED
    BY <2>5, <2>6, <2>7, <2>8
<1> QED
  BY <1>1, <1>2

LEMMA MarkStaticInv == ASSUME ArpInv, NEW d \in Neighbours, MarkStatic(d) PROVE ArpInv'
<1> USE DEF ArpInv
<1> DEFINE e == [[[cache[d] EXCEPT !.state = "STATIC"] EXCEPT !.age = 0] EXCEPT !.retries = 0]
<1>1. /\ cache' = [cache EXCEPT ![d] = e]
      /\ UNCHANGED <<waitReplyTimer, jitter, requests, replies, packetTo, outcome, waited>>
  BY DEF MarkStatic, arpHist, ArpTyped, ArpEntries
<1>2. cache[d] \in ArpEntries
  BY DEF ArpTyped
<1>3. e.state = "STATIC" /\ e.pending = cache[d].pending /\ e \in ArpEntries
  <2>1. 0 \in 0 .. LongestTimeout + 1 /\ 0 \in 0 .. m_maxRetries /\ "STATIC" \in EntryStates
    BY Longest, ArpConstants DEF EntryStates
  <2>2. cache[d].pending \in Seq(IpPackets)
    BY EntriesTyped
  <2>3. e.state = "STATIC" /\ e.pending = cache[d].pending
    BY <1>2 DEF ArpEntries
  <2>4. e \in ArpEntries
    BY <1>2, <2>1 DEF ArpEntries
  <2> QED
    BY <2>3, <2>4
<1> HIDE DEF e
<1>4. PendingIn(e) = PendingIn(cache[d]) /\ Len(e.pending) <= m_pendingQueueSize
  BY <1>3 DEF PendingIn, QueuesBounded
<1>5. /\ cache' \in [Neighbours -> ArpEntries] /\ QueuesBounded' /\ cache'[d] = e
      /\ \A c \in Neighbours : c # d => cache'[c] = cache[c]
  BY <1>1, <1>3, <1>4, OneChanged
<1>6. QueuesInv'
  <2>1. \A c \in Neighbours : /\ PendingIn(cache'[c]) = PendingIn(cache[c])
                              /\ cache'[c].state = cache[c].state \/ cache'[c].state = "STATIC"
    BY <1>3, <1>4, <1>5
  <2>2. \A p \in IpPackets : outcome'[p] =
          IF \E c \in {} : p \in PendingIn(cache[c]) THEN "dropped" ELSE outcome[p]
    BY <1>1
  <2>3. \A c \in {} : PendingIn(cache'[c]) = {}
    OBVIOUS
  <2>4. Neighbours \ {} = Neighbours /\ {} \in SUBSET Neighbours
    OBVIOUS
  <2> QED
    BY <1>1, <2>1, <2>2, <2>3, <2>4, SettleStep
<1>7. ArpTyped'
  BY <1>1, <1>5 DEF ArpTyped
<1>8. TimerInv'
  BY <1>1, <1>3, <1>5 DEF TimerInv
<1> QED
  BY <1>5, <1>6, <1>7, <1>8

LEMMA RemoveEntryInv == ASSUME ArpInv, NEW d \in Neighbours, RemoveEntry(d) PROVE ArpInv'
<1> USE DEF ArpInv
<1>1. /\ cache' = [cache EXCEPT ![d] = NoEntry] /\ outcome' = Settle(PendingIn(cache[d]), "flushed")
      /\ UNCHANGED <<waitReplyTimer, jitter, requests, replies, packetTo, waited>>
  BY DEF RemoveEntry
<1>2. /\ NoEntry.state = "NONE" /\ NoEntry \in ArpEntries /\ PendingIn(NoEntry) = {}
      /\ Len(NoEntry.pending) <= m_pendingQueueSize
  BY NoEntryTyped, EmptySeq, ArpConstants
<1>3. /\ cache' \in [Neighbours -> ArpEntries] /\ QueuesBounded' /\ cache'[d] = NoEntry
      /\ \A c \in Neighbours : c # d => cache'[c] = cache[c]
  BY <1>1, <1>2, OneChanged
<1>4. QueuesInv'
  <2>1. \A p \in IpPackets : outcome'[p] =
          IF \E c \in {d} : p \in PendingIn(cache[c]) THEN "flushed" ELSE outcome[p]
    BY <1>1 DEF Settle
  <2>2. /\ \A c \in {d} : PendingIn(cache'[c]) = {}
        /\ \A c \in Neighbours \ {d} : cache'[c] = cache[c]
    BY <1>2, <1>3
  <2> QED
    BY <1>1, <2>1, <2>2, SettleStep
<1>5. ArpTyped'
  <2>1. outcome' \in [IpPackets -> Outcomes]
    BY <1>1, SettleTyped DEF Outcomes
  <2> QED
    BY <1>1, <1>3, <2>1 DEF ArpTyped
<1>6. TimerInv'
  BY <1>1, <1>2, <1>3 DEF TimerInv
<1> QED
  BY <1>3, <1>4, <1>5, <1>6

LEMMA FlushInv == ASSUME ArpInv, Flush PROVE ArpInv'
<1> USE DEF ArpInv
<1>1. /\ \A d \in Neighbours : cache'[d] = NoEntry
      /\ cache' = [d \in Neighbours |-> NoEntry] /\ waitReplyTimer' = NotRunning
      /\ outcome' = Settle(UNION {PendingIn(cache[d]) : d \in Neighbours}, "flushed")
      /\ UNCHANGED <<jitter, requests, replies, packetTo, waited>>
  BY DEF Flush
<1>2. /\ NoEntry.state = "NONE" /\ NoEntry \in ArpEntries /\ PendingIn(NoEntry) = {}
      /\ Len(NoEntry.pending) <= m_pendingQueueSize
  BY NoEntryTyped, EmptySeq, ArpConstants
<1>3. QueuesInv'
  <2>1. \A p \in IpPackets : outcome'[p] =
          IF \E c \in Neighbours : p \in PendingIn(cache[c]) THEN "flushed" ELSE outcome[p]
    BY <1>1 DEF Settle
  <2>2. \A c \in Neighbours : PendingIn(cache'[c]) = {}
    BY <1>1, <1>2
  <2> QED
    BY <1>1, <2>1, <2>2, SettleStep
<1>4. ArpTyped'
  <2>1. outcome' \in [IpPackets -> Outcomes]
    BY <1>1, SettleTyped DEF Outcomes
  <2>2. cache' \in [Neighbours -> ArpEntries]
    BY <1>1, <1>2
  <2> QED
    BY <1>1, <2>1, <2>2 DEF ArpTyped
<1>5. TimerInv' /\ QueuesBounded'
  BY <1>1, <1>2 DEF TimerInv, QueuesBounded
<1> QED
  BY <1>3, <1>4, <1>5

\* The retries of an entry and the time they take.
LEMMA RetryTime == ASSUME NEW r \in Nat
  PROVE  /\ r * WaitReplyTimeout \in Nat
         /\ (r + 1) * WaitReplyTimeout = r * WaitReplyTimeout + WaitReplyTimeout
BY ArpConstants

LEMMA RetriesBounded == ASSUME NEW r \in 0 .. m_maxRetries
  PROVE  r * WaitReplyTimeout <= m_maxRetries * WaitReplyTimeout
BY ArpConstants

LEMMA TimeoutInv == ASSUME ArpInv, HandleWaitReplyTimeout PROVE ArpInv'
<1> USE DEF ArpInv
<1> DEFINE dead == [NoEntry EXCEPT !.state = "DEAD"]
<1>1. /\ waitReplyTimer = 0
      /\ cache' = [d \in Neighbours |->
           IF d \in Again THEN Retried(cache[d]) ELSE IF d \in GivenUp THEN dead ELSE cache[d]]
      /\ requests' = requests \cup Again
      /\ outcome' = Settle(UNION {PendingIn(cache[d]) : d \in GivenUp}, "dropped")
      /\ waitReplyTimer' = IF Again # {} THEN WaitReplyTimeout ELSE NotRunning
      /\ UNCHANGED <<jitter, replies, packetTo, waited>>
  BY DEF HandleWaitReplyTimeout, Restarts
<1>2. /\ Again \subseteq Neighbours /\ GivenUp \subseteq Neighbours
      /\ \A d \in Neighbours : cache[d].state = "WAIT_REPLY" <=> d \in Again \/ d \in GivenUp
      /\ \A d \in Again : d \notin GivenUp /\ cache[d].retries < m_maxRetries
  <2>1. \A d \in Neighbours : cache[d].retries \in Int
    BY EntriesTyped
  <2> QED
    BY <2>1, ArpConstants DEF Again, GivenUp
<1>3. dead.state = "DEAD" /\ dead \in ArpEntries /\ dead.pending = <<>> /\ PendingIn(dead) = {}
  <2>1. dead.state = "DEAD" /\ dead.pending = <<>>
    BY DEF NoEntry
  <2>2. PendingIn(dead) = {}
    BY <2>1, EmptySeq DEF PendingIn
  <2> QED
    BY <2>1, <2>2, NoEntryTyped
<1>4. ASSUME NEW d \in Again
      PROVE  /\ Retried(cache[d]) \in ArpEntries /\ Retried(cache[d]).state = "WAIT_REPLY"
             /\ Retried(cache[d]).age = 0 /\ Retried(cache[d]).retries = cache[d].retries + 1
             /\ Retried(cache[d]).pending = cache[d].pending
  <2>1. cache[d] \in ArpEntries /\ cache[d].state = "WAIT_REPLY" /\ cache[d].retries < m_maxRetries
    BY <1>2 DEF ArpTyped
  <2>2. cache[d].retries + 1 \in 0 .. m_maxRetries /\ 0 \in 0 .. LongestTimeout + 1
    BY <2>1, Longest, ArpConstants DEF ArpEntries
  <2>3. Retried(cache[d]) \in ArpEntries
    BY <2>1, <2>2 DEF ArpEntries, Retried
  <2> QED
    BY <2>1, <2>3 DEF ArpEntries, Retried
<1> HIDE DEF dead
<1>5. /\ \A d \in Again : cache'[d] = Retried(cache[d])
      /\ \A d \in GivenUp : cache'[d] = dead
      /\ \A d \in Neighbours \ (Again \cup GivenUp) : cache'[d] = cache[d]
  BY <1>1, <1>2
<1>6. cache' \in [Neighbours -> ArpEntries]
  <2>1. \A d \in Neighbours : cache'[d] \in ArpEntries
    BY <1>3, <1>4, <1>5 DEF ArpTyped
  <2> QED
    BY <1>1, <2>1
<1>7. QueuesBounded'
  <2>1. Len(dead.pending) <= m_pendingQueueSize
    BY <1>3, EmptySeq, ArpConstants
  <2>2. ASSUME NEW d \in Neighbours PROVE Len(cache'[d].pending) <= m_pendingQueueSize
    BY <1>4, <1>5, <2>1 DEF QueuesBounded
  <2> QED
    BY <2>2 DEF QueuesBounded
<1>8. QueuesInv'
  <2>1. \A p \in IpPackets : outcome'[p] =
          IF \E c \in GivenUp : p \in PendingIn(cache[c]) THEN "dropped" ELSE outcome[p]
    BY <1>1 DEF Settle
  <2>2. \A c \in GivenUp : PendingIn(cache'[c]) = {}
    BY <1>3, <1>5
  <2>3. ASSUME NEW c \in Neighbours \ GivenUp
        PROVE  PendingIn(cache'[c]) = PendingIn(cache[c]) /\ cache'[c].state = cache[c].state
    <3>1. CASE c \in Again
      BY <1>2, <1>4, <1>5, <3>1 DEF PendingIn
    <3>2. CASE c \notin Again
      BY <1>5, <2>3, <3>2
    <3> QED
      BY <3>1, <3>2
  <2>4. packetTo' = packetTo /\ GivenUp \in SUBSET Neighbours
    BY <1>1, <1>2
  <2> QED
    BY ZenonT(40), <2>1, <2>2, <2>3, <2>4, SettleStep
<1>9. ArpTyped'
  <2>1. outcome' \in [IpPackets -> Outcomes]
    BY <1>1, SettleTyped DEF Outcomes
  <2>2. waitReplyTimer' \in {NotRunning} \cup 0 .. WaitReplyTimeout
    BY <1>1, ArpConstants
  <2>3. requests' \subseteq Neighbours
    BY <1>1, <1>2 DEF ArpTyped
  <2> QED
    BY <1>1, <1>6, <2>1, <2>2, <2>3 DEF ArpTyped
<1>10. TimerInv'
  <2> SUFFICES ASSUME NEW c \in Neighbours, cache'[c].state = "WAIT_REPLY"
               PROVE  /\ waitReplyTimer' # NotRunning /\ cache'[c].age + waitReplyTimer' <= WaitReplyTimeout
                      /\ waited'[c] + waitReplyTimer' <= cache'[c].retries * WaitReplyTimeout + WaitReplyTimeout
    BY DEF TimerInv
  <2>1. c \in Again
    BY <1>2, <1>3, <1>5
  <2>2. waitReplyTimer' = WaitReplyTimeout /\ waitReplyTimer' # NotRunning
    BY <1>1, <2>1, ArpConstants DEF NotRunning
  <2>3. /\ cache[c].retries \in Nat /\ waited[c] \in Nat /\ waited'[c] = waited[c]
        /\ cache'[c].retries = cache[c].retries + 1 /\ cache'[c].age = 0
    BY <1>1, <1>4, <1>5, <2>1, EntriesTyped, ArpConstants DEF ArpTyped
  <2>4. waited[c] + waitReplyTimer <= cache[c].retries * WaitReplyTimeout + WaitReplyTimeout
    BY <1>2, <2>1 DEF TimerInv
  <2>5. PICK m \in Nat : m = cache[c].retries * WaitReplyTimeout
    BY <2>3, RetryTime
  <2>6. cache'[c].retries * WaitReplyTimeout = m + WaitReplyTimeout
    BY <2>3, <2>5, RetryTime
  <2>7. waited[c] <= m + WaitReplyTimeout
    <3>1. waited[c] + waitReplyTimer <= m + WaitReplyTimeout
      BY <2>4, <2>5
    <3> QED
      BY <1>1, <2>3, <3>1, ArpConstants
  <2>8. waited'[c] + waitReplyTimer' <= (m + WaitReplyTimeout) + WaitReplyTimeout
    BY <2>2, <2>3, <2>7, ArpConstants
  <2>9. cache'[c].age + waitReplyTimer' <= WaitReplyTimeout
    BY <2>2, <2>3, ArpConstants
  <2> QED
    BY <2>2, <2>6, <2>8, <2>9
<1> QED
  BY <1>7, <1>8, <1>9, <1>10

LEMMA ArpTickInv == ASSUME ArpInv, ArpTick PROVE ArpInv'
<1> USE DEF ArpInv
<1> DEFINE Old(d) == cache[d].state \in {"NONE", "STATIC"} \/ cache[d].age > LongestTimeout
<1>1. /\ waitReplyTimer # 0
      /\ waitReplyTimer' = IF waitReplyTimer = NotRunning THEN NotRunning ELSE waitReplyTimer - 1
      /\ cache' = [d \in Neighbours |-> IF Old(d) THEN cache[d] ELSE [cache[d] EXCEPT !.age = @ + 1]]
      /\ waited' = [d \in Neighbours |-> IF cache[d].state = "WAIT_REPLY" THEN waited[d] + 1 ELSE 0]
      /\ UNCHANGED <<jitter, requests, replies, packetTo, outcome>>
  BY DEF ArpTick
<1>2. ASSUME NEW d \in Neighbours
      PROVE  /\ cache'[d] \in ArpEntries /\ cache'[d].state = cache[d].state
             /\ cache'[d].retries = cache[d].retries /\ cache'[d].pending = cache[d].pending
             /\ cache'[d].age = IF Old(d) THEN cache[d].age ELSE cache[d].age + 1
  <2>1. cache[d] \in ArpEntries /\ cache[d].age \in Nat /\ cache[d].age <= LongestTimeout + 1
    BY Longest DEF ArpTyped, ArpEntries
  <2>2. CASE Old(d)
    BY <1>1, <2>1, <2>2
  <2>3. CASE ~Old(d)
    <3>1. cache'[d] = [cache[d] EXCEPT !.age = @ + 1]
      BY <1>1, <2>3
    <3>2. cache[d].age + 1 \in 0 .. LongestTimeout + 1
      BY <2>1, <2>3, Longest
    <3>3. cache'[d] \in ArpEntries
      BY <2>1, <3>1, <3>2 DEF ArpEntries
    <3>4. /\ cache'[d].state = cache[d].state /\ cache'[d].age = cache[d].age + 1
          /\ cache'[d].retries = cache[d].retries /\ cache'[d].pending = cache[d].pending
      BY <2>1, <3>1 DEF ArpEntries
    <3> QED
      BY <2>3, <3>3, <3>4
  <2> QED
    BY <2>2, <2>3
<1>3. \A d \in Neighbours : PendingIn(cache'[d]) = PendingIn(cache[d])
  BY <1>2 DEF PendingIn
<1>4. QueuesInv'
  <2>1. \A p \in IpPackets : outcome'[p] =
          IF \E c \in {} : p \in PendingIn(cache[c]) THEN "dropped" ELSE outcome[p]
    BY <1>1
  <2>2. \A c \in {} : PendingIn(cache'[c]) = {}
    OBVIOUS
  <2>3. Neighbours \ {} = Neighbours /\ {} \in SUBSET Neighbours
    OBVIOUS
  <2> QED
    BY <1>1, <1>2, <1>3, <2>1, <2>2, <2>3, SettleStep
<1>5. waitReplyTimer' \in {NotRunning} \cup 0 .. WaitReplyTimeout
  BY <1>1, ArpConstants DEF ArpTyped, NotRunning
<1>6. waited' \in [Neighbours -> Nat]
  <2>1. \A d \in Neighbours : waited'[d] \in Nat
    BY <1>1 DEF ArpTyped
  <2> QED
    BY <1>1, <2>1
<1>7. ArpTyped'
  <2>1. cache' \in [Neighbours -> ArpEntries]
    BY <1>1, <1>2
  <2> QED
    BY <1>1, <1>5, <1>6, <2>1 DEF ArpTyped
<1>8. QueuesBounded'
  BY <1>2 DEF QueuesBounded
<1>9. TimerInv'
  <2> SUFFICES ASSUME NEW c \in Neighbours, cache'[c].state = "WAIT_REPLY"
               PROVE  /\ waitReplyTimer' # NotRunning /\ cache'[c].age + waitReplyTimer' <= WaitReplyTimeout
                      /\ waited'[c] + waitReplyTimer' <= cache'[c].retries * WaitReplyTimeout + WaitReplyTimeout
    BY DEF TimerInv
  <2>1. /\ cache[c].state = "WAIT_REPLY" /\ waitReplyTimer # NotRunning
        /\ cache[c].age + waitReplyTimer <= WaitReplyTimeout
        /\ waited[c] + waitReplyTimer <= cache[c].retries * WaitReplyTimeout + WaitReplyTimeout
    BY <1>2 DEF TimerInv
  <2>2. waitReplyTimer \in Nat /\ waitReplyTimer >= 1 /\ waitReplyTimer' = waitReplyTimer - 1
    BY <1>1, <2>1, ArpConstants DEF ArpTyped
  <2>3. cache[c].age \in Nat /\ cache[c].retries \in Nat /\ waited[c] \in Nat
    BY EntriesTyped, Longest, ArpConstants DEF ArpTyped
  <2>4. cache'[c].age \in Nat /\ cache'[c].age <= cache[c].age + 1 /\ waited'[c] = waited[c] + 1
    BY <1>1, <1>2, <2>1, <2>3
  <2>5. PICK m \in Nat : m = cache[c].retries * WaitReplyTimeout
    BY <2>3, RetryTime
  <2>6. waited[c] + waitReplyTimer <= m + WaitReplyTimeout
    BY <2>1, <2>5
  <2>7. waited'[c] + waitReplyTimer' <= m + WaitReplyTimeout
    BY <2>2, <2>3, <2>4, <2>6, ArpConstants
  <2>8. cache'[c].age + waitReplyTimer' <= WaitReplyTimeout /\ waitReplyTimer' # NotRunning
    <3>1. cache[c].age + waitReplyTimer <= WaitReplyTimeout
      BY <2>1
    <3> QED
      BY <2>2, <2>3, <2>4, <3>1, ArpConstants DEF NotRunning
  <2>9. cache'[c].retries * WaitReplyTimeout = m
    BY <1>2, <2>5
  <2> QED
    BY <2>7, <2>8, <2>9
<1> QED
  BY <1>4, <1>7, <1>8, <1>9

LEMMA ArpInitInv == ArpInit => ArpInv
<1> SUFFICES ASSUME ArpInit PROVE ArpInv
  OBVIOUS
<1>1. /\ cache = [d \in Neighbours |-> NoEntry] /\ waitReplyTimer = NotRunning
      /\ jitter = {} /\ requests = {} /\ replies = {} /\ packetTo = <<>>
      /\ outcome = [p \in IpPackets |-> "none"] /\ waited = [d \in Neighbours |-> 0]
  BY DEF ArpInit
<1>2. /\ \A d \in Neighbours : cache[d] = NoEntry
      /\ NoEntry.state = "NONE" /\ NoEntry \in ArpEntries /\ PendingIn(NoEntry) = {}
      /\ Len(NoEntry.pending) = 0
  BY <1>1, NoEntryTyped, EmptySeq
<1>3. ArpTyped
  <2>1. packetTo \in Seq(Neighbours) /\ Len(packetTo) <= MaxIpPackets
    BY <1>1, EmptySeq, ArpConstants
  <2> QED
    BY <1>1, <1>2, <2>1 DEF ArpTyped, Outcomes
<1>4. QueuesBounded /\ TimerInv
  BY <1>2, ArpConstants DEF QueuesBounded, TimerInv
<1>5. QueuesInv
  <2>1. DOMAIN packetTo = {} /\ \A p \in IpPackets : outcome[p] = "none"
    BY <1>1
  <2> QED
    BY <1>2, <2>1 DEF QueuesInv
<1> QED
  BY <1>3, <1>4, <1>5 DEF ArpInv

LEMMA ArpStepInv == ArpInv /\ [ArpNext]_arpVars => ArpInv'
<1> SUFFICES ASSUME ArpInv, [ArpNext]_arpVars PROVE ArpInv'
  OBVIOUS
<1>1. ASSUME NEW d \in Neighbours, LookupAsk(d) PROVE ArpInv'
  BY <1>1, LookupAskInv
<1>2. ASSUME NEW d \in Neighbours, LookupKnown(d) PROVE ArpInv'
  BY <1>2, LookupSettledInv DEF LookupKnown
<1>3. ASSUME NEW d \in Neighbours, LookupDead(d) PROVE ArpInv'
  BY <1>3, LookupSettledInv DEF LookupDead
<1>4. ASSUME NEW d \in Neighbours, LookupWaiting(d) PROVE ArpInv'
  BY <1>4, LookupWaitingInv
<1>5. ASSUME NEW d \in Neighbours, SendArpRequest(d) PROVE ArpInv'
  BY <1>5, QuietStep DEF SendArpRequest, arpHist, ArpInv, ArpTyped
<1>6. ASSUME NEW d \in Neighbours, ReceiveReply(d) PROVE ArpInv'
  BY <1>6, ReceiveReplyInv
<1>7. ASSUME NEW d \in Neighbours, MarkStatic(d) PROVE ArpInv'
  BY <1>7, MarkStaticInv
<1>8. ASSUME NEW d \in Neighbours, RemoveEntry(d) PROVE ArpInv'
  BY <1>8, RemoveEntryInv
<1>9. ASSUME NEW d \in Neighbours, Answer(d) \/ LoseArp(d) PROVE ArpInv'
  BY <1>9, QuietStep DEF Answer, LoseArp, arpHist, ArpInv, ArpTyped
<1>10. CASE HandleWaitReplyTimeout
  BY <1>10, TimeoutInv
<1>11. CASE Flush
  BY <1>11, FlushInv
<1>12. CASE ArpTick
  BY <1>12, ArpTickInv
<1>13. CASE UNCHANGED arpVars
  BY <1>13, QuietStep DEF arpVars, arpHist, ArpInv, ArpTyped
<1> QED
  BY <1>1, <1>2, <1>3, <1>4, <1>5, <1>6, <1>7, <1>8, <1>9, <1>10, <1>11, <1>12, <1>13 DEF ArpNext

LEMMA ArpInvariant == ArpSpec => []ArpInv
BY ArpInitInv, ArpStepInv, PTL DEF ArpSpec

\* Types of the ARP cache; no pending queue exceeds PendingQueueSize, although
\* UpdateWaitReply tests the size before it adds, and no entry is asked for
\* more than MaxRetries times again.
THEOREM ArpTypeCorrect == ArpSpec => []ArpTypeOK
<1>1. ArpInv => ArpTypeOK
  <2> SUFFICES ASSUME ArpInv PROVE ArpTypeOK
    OBVIOUS
  <2>1. ASSUME NEW d \in Neighbours
        PROVE  /\ cache[d].state \in {"NONE", "ALIVE", "WAIT_REPLY", "DEAD", "STATIC"}
               /\ cache[d].age \in 0 .. LongestTimeout + 1 /\ cache[d].retries \in 0 .. m_maxRetries
               /\ PendingIn(cache[d]) \subseteq IpPackets /\ Len(cache[d].pending) <= m_pendingQueueSize
    BY EntriesTyped DEF ArpInv, QueuesBounded, EntryStates
  <2> QED
    BY <2>1 DEF ArpInv, ArpTyped, ArpTypeOK
<1> QED
  BY ArpInvariant, <1>1, PTL

\* A packet that waits for an address is in the entry of its next hop until it
\* is sent, in its turn, or dropped; the one timer of the cache keeps every
\* entry that waits from expiring, and gives it up after MaxRetries retries.
THEOREM EveryWaitEndsHolds == ArpSpec => []EveryWaitEnds
<1>1. ArpInv => EveryWaitEnds
  <2> SUFFICES ASSUME ArpInv PROVE EveryWaitEnds
    OBVIOUS
  <2>1. WaitingNeverExpired
    <3> SUFFICES ASSUME NEW d \in Neighbours, cache[d].state = "WAIT_REPLY"
                 PROVE  ~EntryExpired(cache[d]) /\ waitReplyTimer # NotRunning
      BY DEF WaitingNeverExpired
    <3>1. waitReplyTimer # NotRunning /\ cache[d].age + waitReplyTimer <= WaitReplyTimeout
      BY DEF ArpInv, TimerInv
    <3>2. waitReplyTimer \in Nat /\ cache[d].age \in Nat
      BY <3>1, EntriesTyped, Longest, ArpConstants DEF ArpInv, ArpTyped
    <3>3. cache[d].age <= WaitReplyTimeout
      BY <3>1, <3>2, ArpConstants
    <3>4. GetTimeout(cache[d].state) = WaitReplyTimeout
      BY DEF GetTimeout
    <3> QED
      BY <3>1, <3>2, <3>3, <3>4, ArpConstants DEF EntryExpired
  <2>2. WaitIsBounded
    <3> SUFFICES ASSUME NEW d \in Neighbours, cache[d].state = "WAIT_REPLY"
                 PROVE  waited[d] <= (m_maxRetries + 1) * WaitReplyTimeout
      BY DEF WaitIsBounded
    <3>1. /\ waitReplyTimer # NotRunning
          /\ waited[d] + waitReplyTimer <= cache[d].retries * WaitReplyTimeout + WaitReplyTimeout
      BY DEF ArpInv, TimerInv
    <3>2. /\ waitReplyTimer \in Nat /\ waited[d] \in Nat /\ cache[d].retries \in 0 .. m_maxRetries
          /\ cache[d].retries \in Nat
      BY <3>1, EntriesTyped, ArpConstants DEF ArpInv, ArpTyped
    <3>3. PICK m \in Nat : m = cache[d].retries * WaitReplyTimeout
      BY <3>2, RetryTime
    <3>4. PICK k \in Nat : k = m_maxRetries * WaitReplyTimeout
      BY RetryTime, ArpConstants
    <3>5. m <= k
      BY <3>2, <3>3, <3>4, RetriesBounded
    <3>6. waited[d] + waitReplyTimer <= m + WaitReplyTimeout
      BY <3>1, <3>3
    <3>7. waited[d] <= k + WaitReplyTimeout
      BY <3>2, <3>5, <3>6, ArpConstants
    <3>8. (m_maxRetries + 1) * WaitReplyTimeout = k + WaitReplyTimeout
      BY <3>4, RetryTime, ArpConstants
    <3> QED
      BY <3>7, <3>8
  <2>3. PendingMeansWaiting
    BY DEF ArpInv, QueuesInv, PendingMeansWaiting
  <2>4. PacketsKeepOrder
    BY DEF ArpInv, QueuesInv, PacketsKeepOrder
  <2> QED
    BY <2>1, <2>2, <2>3, <2>4 DEF EveryWaitEnds
<1> QED
  BY ArpInvariant, <1>1, PTL
----------------------------------------------------------------------------
(* Neighbour unreachability detection: types.                              *)

NdStates == {"NONE", "INCOMPLETE", "REACHABLE", "STALE", "DELAY", "PROBE", "STATIC"}
NdTimers == {"none", "reachable", "retransmit", "delay", "probe"}
NdEntries == [state : NdStates, mac : Macs \cup {NoMac}, waiting : Seq(Ip6Packets), nud : NdTimers,
              nsRetransmit : Nat]
NdTyped ==
  /\ nd \in NdEntries /\ Len(nd.waiting) <= m_unresQlen
  /\ looked \in 0 .. MaxIp6Packets /\ freed \subseteq Ip6Packets
  /\ timesSent \in [Ip6Packets -> Nat] /\ solicits \in Nat
  /\ nd.state = "NONE" => nd = NoNeighbour

\* Packets wait in the order in which they were looked up.
NdInTurn ==
  /\ \A i, j \in DOMAIN nd.waiting : i < j => nd.waiting[i] < nd.waiting[j]
  /\ \A i \in DOMAIN nd.waiting : nd.waiting[i] <= looked

NdTimer == RetransmitHasWaiting /\ IncompleteIsAsked /\ ProbesEnd
NdPackets == NdInTurn /\ SentOnce /\ WaitOnlyUnresolved
NdInv == NdTyped /\ NdTimer /\ NdPackets

LEMMA NdConstants ==
  /\ MaxIp6Packets \in Nat /\ m_maxMulticastSolicit \in Nat /\ m_maxUnicastSolicit \in Nat
  /\ m_unresQlen \in Nat /\ m_unresQlen > 0 /\ NoMac \notin Macs
BY NdiscAssumption DEF NdiscAssumption

\* What the operators on entries do to each field.
LEMMA TimerStarted ==
  ASSUME NEW x \in NdEntries, NEW k \in NdTimers
  PROVE  /\ StartNudTimer(x, k) \in NdEntries
         /\ StartNudTimer(x, k).state = x.state /\ StartNudTimer(x, k).mac = x.mac
         /\ StartNudTimer(x, k).waiting = x.waiting /\ StartNudTimer(x, k).nud = k
         /\ StartNudTimer(x, k).nsRetransmit = x.nsRetransmit
BY DEF StartNudTimer, NdEntries

LEMMA TimerStopped ==
  ASSUME NEW x \in NdEntries
  PROVE  /\ StopNudTimer(x) \in NdEntries
         /\ StopNudTimer(x).state = x.state /\ StopNudTimer(x).mac = x.mac
         /\ StopNudTimer(x).waiting = x.waiting /\ StopNudTimer(x).nud = "none"
         /\ StopNudTimer(x).nsRetransmit = 0
BY DEF StopNudTimer, NdEntries, NdTimers

LEMMA MadeReachable ==
  ASSUME NEW x \in NdEntries, NEW m \in Macs
  PROVE  /\ ToReachable(x, m) \in NdEntries
         /\ ToReachable(x, m).state = "REACHABLE" /\ ToReachable(x, m).mac = m
         /\ ToReachable(x, m).waiting = x.waiting /\ ToReachable(x, m).nud = "reachable"
         /\ ToReachable(x, m).nsRetransmit = x.nsRetransmit
BY DEF ToReachable, StartNudTimer, NdEntries, NdTimers, NdStates

LEMMA MadeStale ==
  ASSUME NEW x \in NdEntries, NEW m \in Macs
  PROVE  /\ ToStale(x, m) \in NdEntries
         /\ ToStale(x, m).state = "STALE" /\ ToStale(x, m).mac = m
         /\ ToStale(x, m).waiting = x.waiting /\ ToStale(x, m).nud = x.nud
         /\ ToStale(x, m).nsRetransmit = x.nsRetransmit
BY DEF ToStale, NdEntries, NdStates

LEMMA Emptied ==
  ASSUME NEW x \in NdEntries
  PROVE  /\ [x EXCEPT !.waiting = <<>>] \in NdEntries
         /\ [x EXCEPT !.waiting = <<>>].state = x.state /\ [x EXCEPT !.waiting = <<>>].mac = x.mac
         /\ [x EXCEPT !.waiting = <<>>].waiting = <<>> /\ [x EXCEPT !.waiting = <<>>].nud = x.nud
         /\ [x EXCEPT !.waiting = <<>>].nsRetransmit = x.nsRetransmit
<1>1. <<>> \in Seq(Ip6Packets)
  BY EmptySeq
<1> QED
  BY <1>1 DEF NdEntries

LEMMA NoneTyped == NoNeighbour \in NdEntries /\ NoNeighbour.waiting = <<>> /\ NoNeighbour.state = "NONE"
                   /\ NoNeighbour.nud = "none" /\ Waiting(NoNeighbour) = {} /\ Len(<<>>) = 0
<1>1. <<>> \in Seq(Ip6Packets) /\ Len(<<>>) = 0 /\ DOMAIN <<>> = {}
  BY EmptySeq
<1> QED
  BY <1>1 DEF NoNeighbour, NdEntries, NdStates, NdTimers, Waiting

\* A packet joins the queue, and the oldest may leave it.
LEMMA QueuedIs ==
  ASSUME NEW q \in Seq(Ip6Packets), NEW n \in Ip6Packets, Len(q) <= m_unresQlen,
         \A i, j \in DOMAIN q : i < j => q[i] < q[j], \A i \in DOMAIN q : q[i] < n
  PROVE  /\ Queued(q, n) \in Seq(Ip6Packets) /\ Queued(q, n) # <<>> /\ Len(Queued(q, n)) <= m_unresQlen
         /\ \A i, j \in DOMAIN Queued(q, n) : i < j => Queued(q, n)[i] < Queued(q, n)[j]
         /\ \A i \in DOMAIN Queued(q, n) : Queued(q, n)[i] <= n
         /\ n \in {Queued(q, n)[i] : i \in DOMAIN Queued(q, n)}
         /\ {Queued(q, n)[i] : i \in DOMAIN Queued(q, n)} \subseteq {q[i] : i \in DOMAIN q} \cup {n}
<1>0. Len(q) \in Nat /\ DOMAIN q = 1 .. Len(q) /\ q \in [1 .. Len(q) -> Ip6Packets]
  BY LenProperties
<1>1. PICK s \in Seq(Ip6Packets) :
        /\ s = IF Len(q) >= m_unresQlen THEN Tail(q) ELSE q
        /\ Len(s) < m_unresQlen
        /\ \A i, j \in DOMAIN s : i < j => s[i] < s[j]
        /\ \A i \in DOMAIN s : s[i] < n /\ \E j \in DOMAIN q : s[i] = q[j]
  <2>1. CASE Len(q) >= m_unresQlen
    <3>1. q # <<>>
      BY <2>1, NdConstants, EmptySeq
    <3>2. Tail(q) \in Seq(Ip6Packets) /\ Len(Tail(q)) = Len(q) - 1
          /\ \A i \in 1 .. Len(Tail(q)) : Tail(q)[i] = q[i + 1]
      BY <3>1, HeadTailProperties
    <3>3. PICK s \in Seq(Ip6Packets) : s = Tail(q)
      BY <3>2
    <3>4. DOMAIN s = 1 .. Len(q) - 1 /\ Len(s) = Len(q) - 1 /\ \A i \in 1 .. Len(q) - 1 : s[i] = q[i + 1]
      BY <3>2, <3>3, LenProperties
    <3>5. \A i \in DOMAIN s : i + 1 \in DOMAIN q /\ s[i] = q[i + 1]
      BY <1>0, <3>4
    <3>6. /\ Len(s) < m_unresQlen
          /\ \A i, j \in DOMAIN s : i < j => s[i] < s[j]
          /\ \A i \in DOMAIN s : s[i] < n /\ \E j \in DOMAIN q : s[i] = q[j]
      <4>1. Len(s) < m_unresQlen
        BY <1>0, <3>4, NdConstants
      <4>2. ASSUME NEW i \in DOMAIN s, NEW j \in DOMAIN s, i < j PROVE s[i] < s[j]
        <5>1. i + 1 < j + 1 /\ i + 1 \in DOMAIN q /\ j + 1 \in DOMAIN q
          BY <1>0, <3>4, <3>5, <4>2
        <5> QED
          BY <3>5, <5>1
      <4>3. \A i \in DOMAIN s : s[i] < n /\ \E j \in DOMAIN q : s[i] = q[j]
        BY <3>5
      <4> QED
        BY <4>1, <4>2, <4>3
    <3> QED
      BY <2>1, <3>3, <3>6
  <2>2. CASE ~(Len(q) >= m_unresQlen)
    BY <1>0, <2>2, NdConstants
  <2> QED
    BY <2>1, <2>2
<1>2. PICK r : r = Append(s, n)
  OBVIOUS
<1>3. Queued(q, n) = r
  BY <1>1, <1>2 DEF Queued
<1>4. /\ r \in Seq(Ip6Packets) /\ r # <<>> /\ Len(r) = Len(s) + 1
      /\ \A i \in 1 .. Len(s) : r[i] = s[i]
      /\ r[Len(s) + 1] = n
  BY <1>2, AppendProperties
<1>5. Len(s) \in Nat /\ DOMAIN s = 1 .. Len(s) /\ DOMAIN r = 1 .. Len(s) + 1
  BY <1>4, LenProperties
<1>6. \A i \in DOMAIN r : (i \in DOMAIN s /\ r[i] = s[i]) \/ (i = Len(s) + 1 /\ r[i] = n)
  BY <1>4, <1>5
<1>7. Len(r) <= m_unresQlen
  BY <1>1, <1>4, <1>5, NdConstants
<1>8. \A i \in DOMAIN s : s[i] \in Nat /\ s[i] < n
  <2>1. s \in [DOMAIN s -> Ip6Packets] /\ Ip6Packets \subseteq Nat
    BY <1>5, LenProperties, NdConstants DEF Ip6Packets
  <2> QED
    BY <1>1, <2>1
<1>9. n \in Nat
  BY NdConstants DEF Ip6Packets
<1>10. \A i, j \in DOMAIN r : i < j => r[i] < r[j]
  <2> SUFFICES ASSUME NEW i \in DOMAIN r, NEW j \in DOMAIN r, i < j PROVE r[i] < r[j]
    OBVIOUS
  <2>1. i \in DOMAIN s /\ r[i] = s[i]
    BY <1>5, <1>6
  <2>2. CASE j \in DOMAIN s /\ r[j] = s[j]
    BY <1>1, <2>1, <2>2
  <2>3. CASE j = Len(s) + 1 /\ r[j] = n
    BY <1>1, <2>1, <2>3
  <2> QED
    BY <1>6, <2>2, <2>3
<1>11. \A i \in DOMAIN r : r[i] <= n
  BY <1>6, <1>8, <1>9
<1>12. n \in {r[i] : i \in DOMAIN r}
  BY <1>4, <1>5
<1>13. {r[i] : i \in DOMAIN r} \subseteq {q[i] : i \in DOMAIN q} \cup {n}
  BY <1>1, <1>6
<1> QED
  BY <1>3, <1>4, <1>7, <1>10, <1>11, <1>12, <1>13

----------------------------------------------------------------------------
(* What a step may do to the packets.                                      *)

\* Everything that SentOnce and WaitOnlyUnresolved count, for one packet.
LEMMA NdCounts ==
  ASSUME NdTyped, NEW p \in Ip6Packets
  PROVE  p \in Nat /\ looked \in Nat /\ timesSent[p] \in Nat
BY NdConstants DEF NdTyped, Ip6Packets

\* The queue stays.
LEMMA QueueKept ==
  ASSUME NdPackets, nd'.waiting = nd.waiting, UNCHANGED <<looked, timesSent, freed>>, heard \subseteq heard',
         heard' \subseteq {"answer"} /\ nd.waiting # <<>> => nd'.state \in {"INCOMPLETE", "PROBE"}
  PROVE  NdPackets'
<1>1. Waiting(nd') = Waiting(nd)
  BY DEF Waiting
<1>2. NdInTurn'
  BY DEF NdPackets, NdInTurn
<1>3. SentOnce'
  BY <1>1 DEF NdPackets, SentOnce
<1>4. WaitOnlyUnresolved'
  BY <1>1 DEF NdPackets, WaitOnlyUnresolved
<1> QED
  BY <1>2, <1>3, <1>4 DEF NdPackets

\* The queue is sent, or freed.
LEMMA QueueGone ==
  ASSUME NdTyped, NdPackets, nd'.waiting = <<>>, looked' = looked, heard \subseteq heard',
         \/ SendAll(Waiting(nd)) /\ freed' = freed
         \/ freed' = freed \cup Waiting(nd) /\ timesSent' = timesSent
  PROVE  NdPackets'
<1>1. Waiting(nd') = {} /\ DOMAIN nd'.waiting = {}
  BY EmptySeq DEF Waiting
<1>2. NdInTurn'
  BY <1>1 DEF NdInTurn
<1>3. ASSUME "router" \notin heard', NEW p \in Ip6Packets
      PROVE  timesSent'[p] + (IF p \in freed' THEN 1 ELSE 0) + (IF p \in Waiting(nd') THEN 1 ELSE 0)
               = IF p <= looked' THEN 1 ELSE 0
  <2>1. timesSent[p] + (IF p \in freed THEN 1 ELSE 0) + (IF p \in Waiting(nd) THEN 1 ELSE 0)
          = IF p <= looked THEN 1 ELSE 0
    BY <1>3 DEF NdPackets, SentOnce
  <2>2. timesSent[p] \in Nat /\ looked \in Nat /\ p \in Nat
    BY NdCounts
  <2>3. CASE SendAll(Waiting(nd)) /\ freed' = freed
    <3>1. timesSent'[p] = timesSent[p] + IF p \in Waiting(nd) THEN 1 ELSE 0
      BY <2>3 DEF SendAll
    <3> QED
      BY <1>1, <2>1, <2>2, <2>3, <3>1
  <2>4. CASE freed' = freed \cup Waiting(nd) /\ timesSent' = timesSent
    <3>1. p \in freed \cup Waiting(nd) <=> p \in freed \/ p \in Waiting(nd)
      OBVIOUS
    <3>2. ~(p \in freed /\ p \in Waiting(nd))
      BY <2>1, <2>2
    <3> QED
      BY <1>1, <2>1, <2>2, <2>4, <3>1, <3>2
  <2> QED
    BY <2>3, <2>4
<1>4. WaitOnlyUnresolved'
  BY <1>1 DEF WaitOnlyUnresolved
<1> QED
  BY <1>2, <1>3, <1>4 DEF NdPackets, SentOnce

\* A packet is sent at once.
LEMMA SentAtOnce ==
  ASSUME NdTyped, NdPackets, nd'.waiting = nd.waiting, looked' = looked + 1, looked < MaxIp6Packets,
         SendAll({looked + 1}), UNCHANGED <<freed, heard>>, heard \subseteq {"answer"} => nd.waiting = <<>>
  PROVE  NdPackets'
<1>1. Waiting(nd') = Waiting(nd)
  BY DEF Waiting
<1>0. looked \in Nat
  BY NdConstants DEF NdTyped
<1>2. NdInTurn'
  <2>1. DOMAIN nd.waiting = 1 .. Len(nd.waiting) /\ \A i \in DOMAIN nd.waiting : nd.waiting[i] \in Nat
    <3>1. nd.waiting \in Seq(Ip6Packets) /\ Ip6Packets \subseteq Nat
      BY NdConstants DEF NdTyped, NdEntries, Ip6Packets
    <3> QED
      BY ZenonT(40), ZenonT(40), <3>1, LenProperties
  <2>2. \A i \in DOMAIN nd.waiting : nd.waiting[i] <= looked + 1
    BY <1>0, <2>1 DEF NdPackets, NdInTurn
  <2> QED
    BY <2>2 DEF NdPackets, NdInTurn
<1>3. ASSUME "router" \notin heard', NEW p \in Ip6Packets
      PROVE  timesSent'[p] + (IF p \in freed' THEN 1 ELSE 0) + (IF p \in Waiting(nd') THEN 1 ELSE 0)
               = IF p <= looked' THEN 1 ELSE 0
  <2>1. timesSent[p] + (IF p \in freed THEN 1 ELSE 0) + (IF p \in Waiting(nd) THEN 1 ELSE 0)
          = IF p <= looked THEN 1 ELSE 0
    BY <1>3 DEF NdPackets, SentOnce
  <2>2. timesSent[p] \in Nat /\ looked \in Nat /\ p \in Nat
    BY NdCounts
  <2>3. timesSent'[p] = timesSent[p] + IF p = looked + 1 THEN 1 ELSE 0
    BY DEF SendAll
  <2> QED
    BY <1>1, <2>1, <2>2, <2>3
<1>4. WaitOnlyUnresolved'
  <2>1. heard' \subseteq {"answer"} => nd'.waiting = <<>> /\ Waiting(nd') = {}
    BY EmptySeq DEF Waiting
  <2> QED
    BY <2>1 DEF WaitOnlyUnresolved
<1> QED
  BY <1>2, <1>3, <1>4 DEF NdPackets, SentOnce

\* A packet joins those that wait.
LEMMA JoinsQueue ==
  ASSUME NdTyped, NdPackets, looked' = looked + 1, looked < MaxIp6Packets,
         nd'.waiting = Queued(nd.waiting, looked + 1),
         freed' = freed \cup (Waiting(nd) \ Waiting(nd')), UNCHANGED <<timesSent, heard>>,
         nd'.state \in {"INCOMPLETE", "PROBE"}
  PROVE  NdPackets' /\ nd'.waiting # <<>> /\ nd'.waiting \in Seq(Ip6Packets)
         /\ Len(nd'.waiting) <= m_unresQlen /\ Waiting(nd') \subseteq Ip6Packets
<1>1. PICK n : n = looked + 1
  OBVIOUS
<1>2. looked \in Nat /\ n \in Nat /\ n \in Ip6Packets /\ n = looked + 1
  BY <1>1, NdConstants DEF NdTyped, Ip6Packets
<1>3. nd.waiting \in Seq(Ip6Packets) /\ Len(nd.waiting) <= m_unresQlen
  BY DEF NdTyped, NdEntries
<1>4. \A i \in DOMAIN nd.waiting : nd.waiting[i] \in Nat
  <2>1. DOMAIN nd.waiting = 1 .. Len(nd.waiting) /\ nd.waiting \in [1 .. Len(nd.waiting) -> Ip6Packets]
        /\ Ip6Packets \subseteq Nat
    BY <1>3, NdConstants, LenProperties DEF Ip6Packets
  <2> QED
    BY <2>1
<1>5. /\ \A i, j \in DOMAIN nd.waiting : i < j => nd.waiting[i] < nd.waiting[j]
      /\ \A i \in DOMAIN nd.waiting : nd.waiting[i] < n
  BY <1>2, <1>4 DEF NdPackets, NdInTurn
<1>6. nd'.waiting = Queued(nd.waiting, n)
  BY <1>2
<1>7. /\ nd'.waiting \in Seq(Ip6Packets) /\ nd'.waiting # <<>> /\ Len(nd'.waiting) <= m_unresQlen
      /\ \A i, j \in DOMAIN nd'.waiting : i < j => nd'.waiting[i] < nd'.waiting[j]
      /\ \A i \in DOMAIN nd'.waiting : nd'.waiting[i] <= n
      /\ n \in Waiting(nd') /\ Waiting(nd') \subseteq Waiting(nd) \cup {n}
  <2>1. PICK q \in Seq(Ip6Packets) : q = nd.waiting
    BY <1>3
  <2>2. PICK r : r = Queued(q, n)
    OBVIOUS
  <2>3. /\ r \in Seq(Ip6Packets) /\ r # <<>> /\ Len(r) <= m_unresQlen
        /\ \A i, j \in DOMAIN r : i < j => r[i] < r[j]
        /\ \A i \in DOMAIN r : r[i] <= n
        /\ n \in {r[i] : i \in DOMAIN r}
        /\ {r[i] : i \in DOMAIN r} \subseteq {q[i] : i \in DOMAIN q} \cup {n}
    <3>1. /\ Len(q) <= m_unresQlen /\ \A i, j \in DOMAIN q : i < j => q[i] < q[j]
          /\ \A i \in DOMAIN q : q[i] < n
      BY <1>3, <1>5, <2>1
    <3>2. /\ Queued(q, n) \in Seq(Ip6Packets) /\ Queued(q, n) # <<>> /\ Len(Queued(q, n)) <= m_unresQlen
          /\ \A i, j \in DOMAIN Queued(q, n) : i < j => Queued(q, n)[i] < Queued(q, n)[j]
          /\ \A i \in DOMAIN Queued(q, n) : Queued(q, n)[i] <= n
          /\ n \in {Queued(q, n)[i] : i \in DOMAIN Queued(q, n)}
          /\ {Queued(q, n)[i] : i \in DOMAIN Queued(q, n)} \subseteq {q[i] : i \in DOMAIN q} \cup {n}
      <4>1. n \in Ip6Packets
        BY <1>2
      <4> QED
        BY ONLY <3>1, <4>1, QueuedIs, q \in Seq(Ip6Packets)
    <3> QED
      BY <2>2, <3>2
  <2>4. nd'.waiting = r
    BY <1>6, <2>1, <2>2
  <2>5. Waiting(nd') = {r[i] : i \in DOMAIN r} /\ Waiting(nd) = {q[i] : i \in DOMAIN q}
    BY <2>1, <2>4 DEF Waiting
  <2> QED
    BY <2>3, <2>4, <2>5
<1>8. NdInTurn'
  BY <1>2, <1>7 DEF NdInTurn
<1>9. \A p \in Waiting(nd) : p < n
  BY <1>5 DEF Waiting
<1>10. ASSUME "router" \notin heard', NEW p \in Ip6Packets
       PROVE  timesSent'[p] + (IF p \in freed' THEN 1 ELSE 0) + (IF p \in Waiting(nd') THEN 1 ELSE 0)
                = IF p <= looked' THEN 1 ELSE 0
  <2>1. timesSent[p] + (IF p \in freed THEN 1 ELSE 0) + (IF p \in Waiting(nd) THEN 1 ELSE 0)
          = IF p <= looked THEN 1 ELSE 0
    BY <1>10 DEF NdPackets, SentOnce
  <2>2. timesSent[p] \in Nat /\ p \in Nat
    BY NdCounts
  <2>3. CASE p = n
    <3>1. timesSent[p] = 0 /\ p \notin freed /\ p \notin Waiting(nd)
      BY <1>2, <2>1, <2>2, <2>3
    <3>2. p \notin freed' /\ p \in Waiting(nd')
      BY <1>7, <2>3, <3>1
    <3> QED
      BY <1>2, <2>2, <2>3, <3>1, <3>2
  <2>4. CASE p # n
    <3>1. /\ p \in Waiting(nd') => p \in Waiting(nd)
          /\ p \in freed' <=> p \in freed \/ (p \in Waiting(nd) /\ p \notin Waiting(nd'))
      BY <1>7, <2>4
    <3>2. ~(p \in freed /\ p \in Waiting(nd))
      BY <2>1, <2>2
    <3>3. p <= looked' <=> p <= looked
      BY <1>2, <2>2, <2>4
    <3> QED
      BY <2>1, <2>2, <3>1, <3>2, <3>3
  <2> QED
    BY <2>3, <2>4
<1>11. WaitOnlyUnresolved'
  <2> SUFFICES ASSUME heard' \subseteq {"answer"}, NEW p \in Ip6Packets, NEW q \in Ip6Packets, p < q,
                      timesSent'[q] > 0, p \in Waiting(nd')
               PROVE  FALSE
    BY DEF WaitOnlyUnresolved
  <2>1. p \notin Waiting(nd)
    BY DEF NdPackets, WaitOnlyUnresolved
  <2>2. p = n
    BY <1>7, <2>1
  <2>3. timesSent[q] + (IF q \in freed THEN 1 ELSE 0) + (IF q \in Waiting(nd) THEN 1 ELSE 0)
          = IF q <= looked THEN 1 ELSE 0
    BY DEF NdPackets, SentOnce
  <2>4. timesSent[q] \in Nat /\ q \in Nat
    BY NdCounts
  <2> QED
    BY <1>2, <2>2, <2>3, <2>4
<1>12. Waiting(nd') \subseteq Ip6Packets
  <2>1. DOMAIN nd'.waiting = 1 .. Len(nd'.waiting) /\ nd'.waiting \in [1 .. Len(nd'.waiting) -> Ip6Packets]
    BY <1>7, LenProperties
  <2> QED
    BY <2>1 DEF Waiting
<1> QED
  BY <1>7, <1>8, <1>10, <1>11, <1>12 DEF NdPackets, SentOnce

----------------------------------------------------------------------------
(* Neighbour unreachability detection: the steps.                          *)

LEMMA NdInitInv == NdInit => NdInv
<1> SUFFICES ASSUME NdInit PROVE NdInv
  OBVIOUS
<1>1. nd = NoNeighbour /\ nd \in NdEntries /\ nd.waiting = <<>> /\ nd.state = "NONE" /\ nd.nud = "none"
      /\ Waiting(nd) = {} /\ Len(nd.waiting) = 0 /\ DOMAIN nd.waiting = {}
  BY NoneTyped, EmptySeq DEF NdInit
<1>2. NdTyped
  BY <1>1, NdConstants DEF NdInit, NdTyped
<1>3. NdTimer
  BY <1>1 DEF NdTimer, RetransmitHasWaiting, IncompleteIsAsked, ProbesEnd
<1>4. NdInTurn /\ WaitOnlyUnresolved
  BY <1>1 DEF NdInTurn, WaitOnlyUnresolved
<1>5. SentOnce
  BY <1>1 DEF SentOnce, NdInit, Ip6Packets
<1> QED
  BY <1>2, <1>3, <1>4, <1>5 DEF NdInv, NdPackets

\* A timer that is not that of an entry asked for.
LEMMA TimerQuiet ==
  ASSUME nd'.state # "INCOMPLETE", nd'.nud # "retransmit",
         "stray" \notin heard' /\ nd'.state \in {"DELAY", "PROBE"} => nd'.nud \in {"delay", "probe"}
  PROVE  NdTimer'
BY DEF NdTimer, RetransmitHasWaiting, IncompleteIsAsked, ProbesEnd

LEMMA SendAllTyped ==
  ASSUME timesSent \in [Ip6Packets -> Nat], NEW P, SendAll(P) PROVE timesSent' \in [Ip6Packets -> Nat]
BY DEF SendAll

LEMMA SendNone ==
  ASSUME timesSent \in [Ip6Packets -> Nat], SendAll({}) PROVE timesSent' = timesSent
BY DEF SendAll

\* The entry is removed, with what waits in it.
LEMMA RemoveKeeps == ASSUME NdInv, Remove6, heard' = heard PROVE NdInv'
<1>1. /\ nd' = NoNeighbour /\ freed' = freed \cup Waiting(nd)
      /\ UNCHANGED <<looked, timesSent, solicits>>
  BY DEF Remove6
<1>2. nd' \in NdEntries /\ nd'.waiting = <<>> /\ nd'.state = "NONE" /\ nd'.nud = "none" /\ Len(nd'.waiting) = 0
  BY <1>1, NoneTyped
<1>3. Waiting(nd) \subseteq Ip6Packets
  <2>1. nd.waiting \in Seq(Ip6Packets)
    BY DEF NdInv, NdTyped, NdEntries
  <2>2. DOMAIN nd.waiting = 1 .. Len(nd.waiting) /\ nd.waiting \in [1 .. Len(nd.waiting) -> Ip6Packets]
    BY <2>1, LenProperties
  <2> QED
    BY <2>2 DEF Waiting
<1>4. NdTyped'
  BY <1>1, <1>2, <1>3, NdConstants DEF NdInv, NdTyped
<1>5. NdPackets'
  BY <1>1, <1>2, QueueGone DEF NdInv
<1>6. NdTimer'
  BY <1>2, TimerQuiet
<1> QED
  BY <1>4, <1>5, <1>6 DEF NdInv

LEMMA NdLookupKeeps ==
  ASSUME NdInv, LookupNone \/ LookupResolved \/ LookupUnresolved PROVE NdInv'
<1>t. NdTyped /\ NdTimer /\ NdPackets /\ nd \in NdEntries /\ looked \in Nat
  BY NdConstants DEF NdInv, NdTyped
<1>l. looked < MaxIp6Packets /\ looked' = looked + 1 /\ looked' \in 0 .. MaxIp6Packets
      /\ looked + 1 \in Ip6Packets /\ heard' = heard
  BY <1>t, NdConstants DEF LookupNone, LookupResolved, LookupUnresolved, Ip6Packets
<1>1. CASE LookupNone
  <2>1. nd = NoNeighbour /\ nd.waiting = <<>> /\ Waiting(nd) = {} /\ nd.mac = NoMac /\ nd.nsRetransmit = 0
    BY <1>1, <1>t, NoneTyped DEF LookupNone, NdTyped, NoNeighbour
  <2>2. PICK n \in Ip6Packets : n = looked + 1
    BY <1>l
  <2>3. <<n>> \in Seq(Ip6Packets) /\ Queued(<<>>, n) = <<n>>
    BY NdConstants DEF Queued
  <2>4. PICK x \in NdEntries : x = [nd EXCEPT !.state = "INCOMPLETE", !.waiting = <<n>>]
    BY <1>t, <2>3 DEF NdEntries, NdStates
  <2>5. x.state = "INCOMPLETE" /\ x.waiting = <<n>> /\ x.mac = NoMac /\ x.nsRetransmit = 0
    BY <1>t, <2>1, <2>4 DEF NdEntries
  <2>6. nd' = StartNudTimer(x, "retransmit") /\ solicits' = 1 /\ UNCHANGED <<timesSent, freed>>
    BY <1>1, <2>2, <2>4 DEF LookupNone
  <2>7. /\ nd' \in NdEntries /\ nd'.state = "INCOMPLETE" /\ nd'.waiting = <<n>> /\ nd'.mac = NoMac
        /\ nd'.nud = "retransmit" /\ nd'.nsRetransmit = 0
    BY <2>5, <2>6, TimerStarted DEF NdTimers
  <2>8. freed' = freed \cup (Waiting(nd) \ Waiting(nd'))
    BY <2>1, <2>6
  <2>9. nd'.waiting = Queued(nd.waiting, looked + 1)
    BY <2>1, <2>2, <2>3, <2>7
  <2>10. NdPackets' /\ nd'.waiting # <<>> /\ Len(nd'.waiting) <= m_unresQlen
    BY <1>t, <1>l, <2>6, <2>7, <2>8, <2>9, JoinsQueue
  <2>11. NdTyped'
    BY <1>t, <1>l, <2>6, <2>7, <2>10 DEF NdTyped
  <2>12. NdTimer'
    BY <2>6, <2>7, <2>10, NdConstants DEF NdTimer, RetransmitHasWaiting, IncompleteIsAsked, ProbesEnd
  <2> QED
    BY <2>10, <2>11, <2>12 DEF NdInv
<1>2. CASE LookupResolved
  <2>1. /\ nd.state \in {"REACHABLE", "DELAY", "STALE", "STATIC"} /\ SendAll({looked + 1})
        /\ UNCHANGED <<freed, solicits, heard>>
    BY <1>2 DEF LookupResolved
  <2>2. \/ nd' = nd
        \/ nd' \in NdEntries /\ nd'.state = "DELAY" /\ nd'.nud = "delay" /\ nd'.waiting = nd.waiting
    <3>1. CASE nd.state = "STALE"
      <4>0. PICK x \in NdEntries : x = [nd EXCEPT !.state = "DELAY"]
        BY <1>t DEF NdEntries, NdStates
      <4>1. x = [nd EXCEPT !.state = "DELAY"] /\ x.state = "DELAY" /\ x.waiting = nd.waiting
        BY <1>t, <4>0 DEF NdEntries
      <4>2. nd' = StartNudTimer(x, "delay")
        BY <1>2, <3>1, <4>1 DEF LookupResolved
      <4> QED
        BY <4>1, <4>2, TimerStarted DEF NdTimers
    <3>2. CASE nd.state # "STALE"
      BY <1>2, <3>2 DEF LookupResolved
    <3> QED
      BY <3>1, <3>2
  <2>3. nd' \in NdEntries /\ nd'.waiting = nd.waiting /\ nd'.state \in {"REACHABLE", "DELAY", "STATIC", "STALE"}
    BY <1>t, <2>1, <2>2
  <2>4. heard \subseteq {"answer"} => nd.waiting = <<>>
    BY <1>t, <2>1 DEF NdPackets, WaitOnlyUnresolved
  <2>5. NdPackets'
    BY <1>t, <1>l, <2>1, <2>3, <2>4, SentAtOnce
  <2>6. timesSent' \in [Ip6Packets -> Nat]
    BY <1>t, <2>1, SendAllTyped DEF NdTyped
  <2>7. NdTyped'
    BY <1>t, <1>l, <2>1, <2>3, <2>6 DEF NdTyped
  <2>8. NdTimer'
    BY <1>t, <2>1, <2>2 DEF NdTimer, RetransmitHasWaiting, IncompleteIsAsked, ProbesEnd
  <2> QED
    BY <2>5, <2>7, <2>8 DEF NdInv
<1>3. CASE LookupUnresolved
  <2>1. PICK w : w = Queued(nd.waiting, looked + 1)
    OBVIOUS
  <2>2. /\ nd.state \in {"INCOMPLETE", "PROBE"} /\ nd' = [nd EXCEPT !.waiting = w]
        /\ freed' = freed \cup (Waiting(nd) \ Waiting(nd')) /\ UNCHANGED <<timesSent, solicits, heard>>
    BY <1>3, <2>1 DEF LookupUnresolved
  <2>3. /\ nd'.waiting = w /\ nd'.state = nd.state /\ nd'.mac = nd.mac /\ nd'.nud = nd.nud
        /\ nd'.nsRetransmit = nd.nsRetransmit
    BY <1>t, <2>2 DEF NdEntries
  <2>4. NdPackets' /\ w # <<>> /\ w \in Seq(Ip6Packets) /\ Len(w) <= m_unresQlen
    BY <1>t, <1>l, <2>1, <2>2, <2>3, JoinsQueue
  <2>5. nd' \in NdEntries
    BY <1>t, <2>2, <2>4 DEF NdEntries
  <2>6. Waiting(nd) \subseteq Ip6Packets
    <3>1. nd.waiting \in Seq(Ip6Packets)
      BY <1>t DEF NdEntries
    <3>2. DOMAIN nd.waiting = 1 .. Len(nd.waiting) /\ nd.waiting \in [1 .. Len(nd.waiting) -> Ip6Packets]
      BY <3>1, LenProperties
    <3> QED
      BY <3>2 DEF Waiting
  <2>7. NdTyped'
    BY <1>t, <1>l, <2>2, <2>3, <2>4, <2>5, <2>6 DEF NdTyped
  <2>8. NdTimer'
    BY <1>t, <2>2, <2>3, <2>4 DEF NdTimer, RetransmitHasWaiting, IncompleteIsAsked, ProbesEnd
  <2> QED
    BY <2>4, <2>7, <2>8 DEF NdInv
<1> QED
  BY <1>1, <1>2, <1>3

\* The timer of an entry expires.
LEMMA NudTimeoutKeeps ==
  ASSUME NdInv, ReachableTimeout \/ RetransmitTimeout \/ DelayTimeout \/ ProbeTimeout PROVE NdInv'
<1>t. NdTyped /\ NdTimer /\ NdPackets /\ nd \in NdEntries
  BY DEF NdInv, NdTyped
<1>h. heard' = heard
  BY DEF ReachableTimeout, RetransmitTimeout, DelayTimeout, ProbeTimeout, ndHist
<1>n. nd.nud # "none" => nd.state # "NONE"
  BY <1>t, NoneTyped DEF NdTyped
<1>1. CASE ReachableTimeout
  <2>1. /\ nd.nud = "reachable" /\ nd' = [nd EXCEPT !.state = "STALE", !.nud = "none"]
        /\ UNCHANGED <<looked, timesSent, freed, solicits, heard>>
    BY <1>1 DEF ReachableTimeout, ndHist
  <2>2. nd' \in NdEntries /\ nd'.state = "STALE" /\ nd'.nud = "none" /\ nd'.waiting = nd.waiting
    BY <1>t, <2>1 DEF NdEntries, NdStates, NdTimers
  <2>3. heard \subseteq {"answer"} => nd.waiting = <<>>
    BY <1>t, <2>1 DEF NdPackets, WaitOnlyUnresolved, NdTimer, IncompleteIsAsked, ProbesEnd
  <2>4. NdPackets'
    BY <1>t, <2>1, <2>2, <2>3, QueueKept
  <2>5. NdTyped'
    BY <1>t, <2>1, <2>2 DEF NdTyped
  <2>6. NdTimer'
    BY <2>2, TimerQuiet
  <2> QED
    BY <2>4, <2>5, <2>6 DEF NdInv
<1>2. CASE RetransmitTimeout
  <2>1. CASE Remove6
    BY <1>h, <2>1, RemoveKeeps
  <2>2. CASE ~Remove6
    <3>1. /\ nd.nud = "retransmit" /\ nd.nsRetransmit < m_maxMulticastSolicit /\ solicits' = solicits + 1
          /\ nd' = [nd EXCEPT !.nsRetransmit = @ + 1] /\ UNCHANGED <<looked, timesSent, freed, heard>>
      BY <1>2, <2>2 DEF RetransmitTimeout, MayRetransmit
    <3>2. /\ nd' \in NdEntries /\ nd'.state = nd.state /\ nd'.nud = nd.nud /\ nd'.mac = nd.mac
          /\ nd'.waiting = nd.waiting /\ nd'.nsRetransmit = nd.nsRetransmit + 1 /\ nd.nsRetransmit \in Nat
      BY <1>t, <3>1 DEF NdEntries
    <3>3. NdPackets'
      <4>1. heard \subseteq {"answer"} /\ nd.waiting # <<>> => nd.state \in {"INCOMPLETE", "PROBE"}
        BY <1>t DEF NdPackets, WaitOnlyUnresolved
      <4> QED
        BY <1>t, <3>1, <3>2, <4>1, QueueKept
    <3>4. solicits \in Nat /\ solicits' \in Nat
      BY <1>t, <3>1 DEF NdTyped
    <3>5. NdTyped'
      BY <1>t, <1>n, <3>1, <3>2, <3>4 DEF NdTyped
    <3>6. NdTimer'
      <4>1. solicits' = nd'.nsRetransmit + 1 /\ solicits' <= m_maxMulticastSolicit + 1
        BY <1>t, <3>1, <3>2, <3>4, NdConstants DEF NdTimer, IncompleteIsAsked
      <4> QED
        BY <1>t, <3>1, <3>2, <4>1 DEF NdTimer, RetransmitHasWaiting, IncompleteIsAsked, ProbesEnd
    <3> QED
      BY <3>3, <3>5, <3>6 DEF NdInv
  <2> QED
    BY <2>1, <2>2
<1>3. CASE DelayTimeout
  <2>1. CASE Remove6
    BY <1>h, <2>1, RemoveKeeps
  <2>2. CASE ~Remove6
    <3>0. PICK x \in NdEntries : x = [nd EXCEPT !.state = "PROBE", !.nsRetransmit = 1]
      BY <1>t DEF NdEntries, NdStates
    <3>1. /\ x = [nd EXCEPT !.state = "PROBE", !.nsRetransmit = 1]
          /\ x.state = "PROBE" /\ x.waiting = nd.waiting
      BY <1>t, <3>0 DEF NdEntries
    <3>2. nd' = StartNudTimer(x, "probe") /\ UNCHANGED <<looked, timesSent, freed, solicits, heard>>
      BY <1>3, <2>2, <3>1 DEF DelayTimeout
    <3>3. nd' \in NdEntries /\ nd'.state = "PROBE" /\ nd'.nud = "probe" /\ nd'.waiting = nd.waiting
      BY <3>1, <3>2, TimerStarted DEF NdTimers
    <3>4. NdPackets'
      BY <1>t, <3>2, <3>3, QueueKept
    <3>5. NdTyped'
      BY <1>t, <3>2, <3>3 DEF NdTyped
    <3>6. NdTimer'
      BY <3>3, TimerQuiet
    <3> QED
      BY <3>4, <3>5, <3>6 DEF NdInv
  <2> QED
    BY <2>1, <2>2
<1>4. CASE ProbeTimeout
  <2>1. CASE Remove6
    BY <1>h, <2>1, RemoveKeeps
  <2>2. CASE ~Remove6
    <3>1. /\ nd.nud = "probe" /\ nd' = [nd EXCEPT !.nsRetransmit = @ + 1]
          /\ UNCHANGED <<looked, timesSent, freed, solicits, heard>>
      BY <1>4, <2>2 DEF ProbeTimeout
    <3>2. /\ nd' \in NdEntries /\ nd'.state = nd.state /\ nd'.nud = nd.nud /\ nd'.mac = nd.mac
          /\ nd'.waiting = nd.waiting
      BY <1>t, <3>1 DEF NdEntries
    <3>3. NdPackets'
      <4>1. heard \subseteq {"answer"} /\ nd.waiting # <<>> => nd.state \in {"INCOMPLETE", "PROBE"}
        BY <1>t DEF NdPackets, WaitOnlyUnresolved
      <4> QED
        BY <1>t, <3>1, <3>2, <4>1, QueueKept
    <3>4. NdTyped'
      BY <1>t, <1>n, <3>1, <3>2 DEF NdTyped
    <3>5. NdTimer'
      BY <1>t, <3>1, <3>2 DEF NdTimer, RetransmitHasWaiting, IncompleteIsAsked, ProbesEnd
    <3> QED
      BY <3>3, <3>4, <3>5 DEF NdInv
  <2> QED
    BY <2>1, <2>2
<1> QED
  BY <1>1, <1>2, <1>3, <1>4

\* What HandleNA makes of an entry.
LEMMA AdvertisedIs ==
  ASSUME NEW x \in NdEntries, NEW m \in Macs, NEW S \in BOOLEAN, NEW O \in BOOLEAN, x.state # "NONE",
         NEW y, y = Advertised(x, m, S, O)
  PROVE  /\ y \in NdEntries /\ y.state \notin {"NONE", "INCOMPLETE"} /\ y.nud \in {"none", "reachable"}
         /\ IF x.state \in {"INCOMPLETE", "PROBE"} /\ y.state = "REACHABLE"
            THEN y.waiting = <<>> ELSE y.waiting = x.waiting
         /\ S /\ (O \/ m = x.mac \/ x.state = "INCOMPLETE") /\ x.state # "STATIC" => y.state = "REACHABLE"
         /\ y.state = "PROBE" => ~(S /\ (O \/ m = x.mac \/ x.state = "INCOMPLETE"))
         /\ y.state = "DELAY" => ~(S /\ (O \/ m = x.mac \/ x.state = "INCOMPLETE"))
<1>x. x.state \in NdStates
  BY DEF NdEntries
<1>0. PICK z \in NdEntries : z = StopNudTimer(x)
  BY TimerStopped
<1>z. z.state = x.state /\ z.mac = x.mac /\ z.waiting = x.waiting /\ z.nud = "none"
  BY <1>0, TimerStopped
<1>r. PICK r \in NdEntries : r = ToReachable(z, m)
  BY MadeReachable
<1>1. r.state = "REACHABLE" /\ r.waiting = x.waiting /\ r.nud = "reachable"
  BY <1>r, <1>z, MadeReachable
<1>e. PICK e \in NdEntries : e = [r EXCEPT !.waiting = <<>>]
  BY Emptied
<1>2. e.state = "REACHABLE" /\ e.waiting = <<>> /\ e.nud = "reachable"
  BY <1>e, <1>1, Emptied
<1>s. PICK s \in NdEntries : s = ToStale(z, m)
  BY MadeStale
<1>3. s.state = "STALE" /\ s.waiting = x.waiting /\ s.nud = "none"
  BY <1>s, <1>z, MadeStale
<1>m. PICK a \in NdEntries : a = [z EXCEPT !.mac = m]
  BY DEF NdEntries
<1>4. a.state = x.state /\ a.waiting = x.waiting /\ a.nud = "none"
  BY <1>m, <1>z DEF NdEntries
<1>b. PICK b \in NdEntries : b = [z EXCEPT !.state = "STALE"]
  BY DEF NdEntries, NdStates
<1>5. b.state = "STALE" /\ b.waiting = x.waiting /\ b.nud = "none"
  BY <1>b, <1>z DEF NdEntries
<1>6. CASE x.state = "INCOMPLETE"
  <2>1. y = IF S THEN e ELSE s
    BY <1>6, <1>0, <1>r, <1>e, <1>s DEF Advertised
  <2> QED
    BY <1>6, <1>2, <1>3, <2>1
<1>7. CASE x.state = "REACHABLE"
  <2>1. y = IF ~(O \/ m = x.mac) THEN b ELSE IF S THEN r ELSE a
    BY <1>7, <1>0, <1>r, <1>m, <1>b DEF Advertised
  <2> QED
    BY <1>7, <1>1, <1>4, <1>5, <2>1
<1>8. CASE x.state = "PROBE"
  <2>1. y = IF ~(O \/ m = x.mac) THEN z ELSE IF S THEN e ELSE a
    BY <1>8, <1>0, <1>r, <1>e, <1>m DEF Advertised
  <2> QED
    BY <1>8, <1>z, <1>2, <1>4, <2>1
<1>9. CASE x.state \in {"STALE", "DELAY"}
  <2>1. PICK f \in NdEntries : f = [r EXCEPT !.waiting = r.waiting]
    BY DEF NdEntries
  <2>2. f.state = "REACHABLE" /\ f.waiting = x.waiting /\ f.nud = "reachable"
    BY <1>1, <2>1 DEF NdEntries
  <2>3. y = IF ~(O \/ m = x.mac) THEN z ELSE IF S THEN f ELSE a
    BY <1>9, <1>0, <1>r, <1>m, <2>1 DEF Advertised
  <2> QED
    BY <1>9, <1>z, <1>4, <2>2, <2>3
<1>10. CASE x.state = "STATIC"
  <2>1. y = IF O \/ m = x.mac THEN a ELSE z
    BY <1>10, <1>0, <1>m DEF Advertised
  <2> QED
    BY <1>10, <1>z, <1>4, <2>1
<1> QED
  BY <1>x, <1>6, <1>7, <1>8, <1>9, <1>10 DEF NdStates

LEMMA HandleNAKeeps ==
  ASSUME NdInv, NEW m \in Macs, NEW S \in BOOLEAN, NEW O \in BOOLEAN, HandleNA(m, S, O) PROVE NdInv'
<1>t. NdTyped /\ NdTimer /\ NdPackets /\ nd \in NdEntries
  BY DEF NdInv, NdTyped
<1>0. /\ nd.state # "NONE" /\ nd' = Advertised(nd, m, S, O) /\ UNCHANGED <<looked, freed, solicits>>
      /\ SendAll(IF nd.state \in {"INCOMPLETE", "PROBE"} /\ nd'.state = "REACHABLE"
                 THEN Waiting(nd) ELSE {})
      /\ heard' = heard \cup {IF S /\ (O \/ m = nd.mac \/ nd.state = "INCOMPLETE") THEN "answer" ELSE "stray"}
  BY DEF HandleNA
<1>1. /\ nd' \in NdEntries /\ nd'.state \notin {"NONE", "INCOMPLETE"} /\ nd'.nud \in {"none", "reachable"}
      /\ IF nd.state \in {"INCOMPLETE", "PROBE"} /\ nd'.state = "REACHABLE"
         THEN nd'.waiting = <<>> ELSE nd'.waiting = nd.waiting
      /\ S /\ (O \/ m = nd.mac \/ nd.state = "INCOMPLETE") /\ nd.state # "STATIC" => nd'.state = "REACHABLE"
      /\ nd'.state \in {"DELAY", "PROBE"} => ~(S /\ (O \/ m = nd.mac \/ nd.state = "INCOMPLETE"))
  <2>1. PICK x \in NdEntries : x = nd
    BY <1>t
  <2>2. PICK y : y = Advertised(x, m, S, O)
    OBVIOUS
  <2>3. nd' = y
    BY <1>0, <2>1, <2>2
  <2> QED
    BY <1>0, <2>1, <2>2, <2>3, AdvertisedIs
<1>2. timesSent \in [Ip6Packets -> Nat] /\ timesSent' \in [Ip6Packets -> Nat]
  BY <1>t, <1>0, SendAllTyped DEF NdTyped
<1>3. Len(nd'.waiting) <= m_unresQlen
  BY <1>t, <1>1, NdConstants, EmptySeq DEF NdTyped
<1>4. NdTyped'
  BY <1>t, <1>0, <1>1, <1>2, <1>3 DEF NdTyped
<1>5. NdTimer'
  BY <1>0, <1>1, TimerQuiet
<1>6. CASE nd.state \in {"INCOMPLETE", "PROBE"} /\ nd'.state = "REACHABLE"
  BY <1>t, <1>0, <1>1, <1>4, <1>5, <1>6, QueueGone DEF NdInv
<1>7. CASE ~(nd.state \in {"INCOMPLETE", "PROBE"} /\ nd'.state = "REACHABLE")
  <2>1. nd'.waiting = nd.waiting /\ timesSent' = timesSent
    BY <1>0, <1>1, <1>2, <1>7, SendNone
  <2>2. heard' \subseteq {"answer"} => nd.waiting = <<>>
    <3>1. heard' \subseteq {"answer"} => S /\ (O \/ m = nd.mac \/ nd.state = "INCOMPLETE") /\ heard \subseteq {"answer"}
      BY <1>0
    <3>2. heard \subseteq {"answer"} /\ nd.waiting # <<>> => nd.state \in {"INCOMPLETE", "PROBE"}
      BY <1>t DEF NdPackets, WaitOnlyUnresolved
    <3> QED
      BY <1>1, <1>7, <3>1, <3>2
  <2>3. heard \subseteq heard'
    BY <1>0
  <2>4. NdPackets'
    BY <1>t, <1>0, <2>1, <2>2, <2>3, QueueKept
  <2> QED
    BY <1>4, <1>5, <2>4 DEF NdInv
<1> QED
  BY <1>6, <1>7

LEMMA HearAddressKeeps == ASSUME NdInv, NEW m \in Macs, HearAddress(m) PROVE NdInv'
<1>t. NdTyped /\ NdTimer /\ NdPackets /\ nd \in NdEntries
  BY DEF NdInv, NdTyped
<1>0. /\ nd' = IF m # nd.mac THEN ToStale(nd, m) ELSE nd
      /\ heard' = heard \cup {"address"} /\ UNCHANGED <<looked, timesSent, freed, solicits>>
  BY DEF HearAddress
<1>1. /\ nd' \in NdEntries /\ nd'.waiting = nd.waiting /\ nd'.nud = nd.nud
      /\ nd'.nsRetransmit = nd.nsRetransmit /\ (nd' = nd \/ nd'.state = "STALE")
  BY <1>t, <1>0, MadeStale
<1>2. NdTyped'
  BY <1>t, <1>0, <1>1 DEF NdTyped
<1>3. NdTimer'
  BY <1>t, <1>0, <1>1 DEF NdTimer, RetransmitHasWaiting, IncompleteIsAsked, ProbesEnd
<1>4. "address" \in heard' /\ heard \subseteq heard' /\ "address" # "answer"
  BY <1>0
<1>5. NdPackets'
  BY <1>t, <1>0, <1>1, <1>4, QueueKept
<1> QED
  BY <1>2, <1>3, <1>5 DEF NdInv

LEMMA ReceiveLLAKeeps == ASSUME NdInv, NEW m \in Macs, ReceiveLLA(m) PROVE NdInv'
<1>t. NdTyped /\ NdTimer /\ NdPackets /\ nd \in NdEntries /\ nd.state \in NdStates
  BY DEF NdInv, NdTyped, NdEntries
<1>0. heard' = heard \cup {"router"} /\ UNCHANGED <<looked, freed, solicits>>
  BY DEF ReceiveLLA
<1>2. timesSent' \in [Ip6Packets -> Nat]
  <2>1. \E P : SendAll(P)
    BY DEF ReceiveLLA
  <2> QED
    BY <1>t, <2>1, SendAllTyped DEF NdTyped
<1>z. PICK z \in NdEntries : z = StopNudTimer(nd)
  BY <1>t, TimerStopped
<1>z1. z.waiting = nd.waiting
  BY <1>t, <1>z, TimerStopped
<1>r. PICK r \in NdEntries : r = ToReachable(z, m)
  BY MadeReachable
<1>r1. r.state = "REACHABLE" /\ r.waiting = nd.waiting /\ r.nud = "reachable"
  BY <1>r, <1>z1, MadeReachable
<1>e. PICK e \in NdEntries : e = [r EXCEPT !.waiting = <<>>]
  BY Emptied
<1>e1. e.state = "REACHABLE" /\ e.waiting = <<>> /\ e.nud = "reachable"
  BY <1>e, <1>r1, Emptied
<1>s. PICK s \in NdEntries : s = ToStale(nd, m)
  BY <1>t, MadeStale
<1>s1. s.state = "STALE" /\ s.waiting = nd.waiting /\ s.nud = nd.nud /\ s.nsRetransmit = nd.nsRetransmit
  BY <1>t, <1>s, MadeStale
<1>n. PICK n \in NdEntries : n = ToReachable(nd, m)
  BY <1>t, MadeReachable
<1>n1. n.state = "REACHABLE" /\ n.waiting = nd.waiting /\ n.nud = "reachable"
  BY <1>t, <1>n, MadeReachable
<1>p. PICK p \in NdEntries : p = StartNudTimer(IF m # nd.mac THEN s ELSE nd, "reachable")
  BY <1>t, TimerStarted DEF NdTimers
<1>p1. p.state \in {"STALE", nd.state} /\ p.waiting = nd.waiting /\ p.nud = "reachable"
  BY <1>t, <1>p, <1>s1, TimerStarted DEF NdTimers
<1>1. /\ nd' \in NdEntries /\ nd'.state # "NONE"
      /\ nd'.waiting = nd.waiting \/ nd'.waiting = <<>>
      /\ \/ nd'.state \in {"REACHABLE", "STALE"} /\ nd'.nud = "reachable"
         \/ nd'.state = "STALE" /\ nd'.nud = nd.nud /\ nd'.waiting = nd.waiting
            /\ nd'.nsRetransmit = nd.nsRetransmit
         \/ nd' = nd /\ nd.state = "STATIC"
  <2>1. CASE nd.state = "NONE"
    BY <2>1, <1>n, <1>n1 DEF ReceiveLLA
  <2>2. CASE nd.state = "INCOMPLETE"
    <3>1. nd' = e
      BY <2>2, <1>z, <1>r, <1>e DEF ReceiveLLA
    <3> QED
      BY <3>1, <1>e1
  <2>3. CASE nd.state \in {"STALE", "DELAY", "PROBE"}
    <3>1. nd' = IF m # nd.mac THEN s ELSE r
      BY <2>3, <1>z, <1>r, <1>s DEF ReceiveLLA
    <3> QED
      BY <3>1, <1>r1, <1>s1
  <2>4. CASE nd.state = "REACHABLE"
    <3>1. nd' = p
      BY <2>4, <1>p, <1>s DEF ReceiveLLA
    <3> QED
      BY <2>4, <3>1, <1>p1
  <2>5. CASE nd.state = "STATIC"
    <3>1. nd' = IF m # nd.mac THEN s ELSE nd
      BY <2>5, <1>s DEF ReceiveLLA
    <3> QED
      BY <2>5, <3>1, <1>t, <1>s1
  <2> QED
    BY <1>t, <2>1, <2>2, <2>3, <2>4, <2>5 DEF NdStates
<1>3. Len(nd'.waiting) <= m_unresQlen
  BY <1>t, <1>1, NdConstants, EmptySeq DEF NdTyped
<1>4. NdTyped'
  BY <1>t, <1>0, <1>1, <1>2, <1>3 DEF NdTyped
<1>5. NdTimer'
  BY <1>t, <1>0, <1>1 DEF NdTimer, RetransmitHasWaiting, IncompleteIsAsked, ProbesEnd
<1>6. NdInTurn'
  BY <1>t, <1>0, <1>1, EmptySeq DEF NdPackets, NdInTurn
<1>7. "router" \in heard' /\ "router" # "answer"
  BY <1>0
<1>8. SentOnce' /\ WaitOnlyUnresolved'
  BY <1>7 DEF SentOnce, WaitOnlyUnresolved
<1> QED
  BY <1>4, <1>5, <1>6, <1>8 DEF NdInv, NdPackets

LEMMA MarkStatic6Keeps == ASSUME NdInv, NEW m \in Macs, MarkStatic6(m) PROVE NdInv'
<1>t. NdTyped /\ NdTimer /\ NdPackets /\ nd \in NdEntries
  BY DEF NdInv, NdTyped
<1>0. PICK z \in NdEntries : z = StopNudTimer(nd)
  BY <1>t, TimerStopped
<1>1. z.waiting = nd.waiting /\ z.nud = "none"
  BY <1>t, <1>0, TimerStopped
<1>2. /\ nd' = [z EXCEPT !.state = "STATIC", !.mac = m]
      /\ heard' = heard \cup {"static"} /\ UNCHANGED <<looked, timesSent, freed, solicits>>
  BY <1>0 DEF MarkStatic6
<1>3. nd' \in NdEntries
  BY <1>2 DEF NdEntries, NdStates
<1>4. nd'.waiting = nd.waiting /\ nd'.state = "STATIC" /\ nd'.nud = "none"
  BY <1>1, <1>2 DEF NdEntries
<1>5. NdTyped'
  BY <1>t, <1>2, <1>3, <1>4 DEF NdTyped
<1>6. NdTimer'
  BY <1>4, TimerQuiet
<1>7. "static" \in heard' /\ heard \subseteq heard' /\ "static" # "answer"
  BY <1>2
<1>8. NdPackets'
  BY <1>t, <1>2, <1>4, <1>7, QueueKept
<1> QED
  BY <1>5, <1>6, <1>8 DEF NdInv

LEMMA NdStepInv == NdInv /\ [NdNext]_ndVars => NdInv'
<1> SUFFICES ASSUME NdInv, [NdNext]_ndVars PROVE NdInv'
  OBVIOUS
<1>1. CASE LookupNone \/ LookupResolved \/ LookupUnresolved
  BY <1>1, NdLookupKeeps
<1>2. CASE ReachableTimeout \/ RetransmitTimeout \/ DelayTimeout \/ ProbeTimeout
  BY <1>2, NudTimeoutKeeps
<1>3. ASSUME NEW m \in Macs,
             (\E S, O \in BOOLEAN : HandleNA(m, S, O)) \/ HearAddress(m) \/ ReceiveLLA(m) \/ MarkStatic6(m)
      PROVE  NdInv'
  BY <1>3, HandleNAKeeps, HearAddressKeeps, ReceiveLLAKeeps, MarkStatic6Keeps
<1>4. CASE Flush6
  BY <1>4, RemoveKeeps DEF Flush6
<1>5. CASE UNCHANGED ndVars
  <2>1. UNCHANGED <<nd, looked, timesSent, freed, solicits, heard>>
    BY <1>5 DEF ndVars, ndHist
  <2>2. NdTyped'
    BY <2>1 DEF NdInv, NdTyped
  <2>3. NdTimer'
    BY <2>1 DEF NdInv, NdTimer, RetransmitHasWaiting, IncompleteIsAsked, ProbesEnd
  <2>4. NdInTurn'
    BY <2>1 DEF NdInv, NdPackets, NdInTurn
  <2>5. Waiting(nd') = Waiting(nd)
    BY <2>1
  <2>6. SentOnce' /\ WaitOnlyUnresolved'
    BY <2>1, <2>5 DEF NdInv, NdPackets, SentOnce, WaitOnlyUnresolved
  <2> QED
    BY <2>2, <2>3, <2>4, <2>6 DEF NdInv, NdPackets
<1> QED
  BY <1>1, <1>2, <1>3, <1>4, <1>5 DEF NdNext

\* The entry of a neighbour keeps its types, whatever messages the handlers of
\* Icmpv6L4Protocol hear and whenever m_nudTimer expires: the queue of packets
\* never exceeds UnresolvedQueueSize, and no packet is in it that was not
\* looked up.
THEOREM NdTypeCorrect == NdSpec => []NdTypeOK
<1>1. NdInv => NdTypeOK
  <2> SUFFICES ASSUME NdInv PROVE NdTypeOK
    OBVIOUS
  <2>1. nd \in NdEntries
    BY DEF NdInv, NdTyped
  <2>2. nd.waiting \in Seq(Ip6Packets)
    BY <2>1 DEF NdEntries
  <2>3. DOMAIN nd.waiting = 1 .. Len(nd.waiting) /\ nd.waiting \in [1 .. Len(nd.waiting) -> Ip6Packets]
    BY <2>2, LenProperties
  <2>4. Waiting(nd) \subseteq Ip6Packets
    BY <2>3 DEF Waiting
  <2> QED
    BY <2>1, <2>4 DEF NdInv, NdTyped, NdEntries, NdStates, NdTimers, NdTypeOK
<1> QED
  BY <1>1, NdInitInv, NdStepInv, PTL DEF NdSpec

\* Neighbour unreachability detection comes to an end for any numbers of
\* solicitations, packets and addresses: the timer fits the state of the
\* entry, FunctionRetransmitTimeout always finds a packet to solicit for, each
\* packet is sent once or freed, and none waits for an address that is known.
THEOREM ResolutionEndsHolds == NdSpec => []ResolutionEnds
<1>1. NdInv => ResolutionEnds
  BY DEF NdInv, NdTimer, NdPackets, ResolutionEnds
<1> QED
  BY <1>1, NdInitInv, NdStepInv, PTL DEF NdSpec

----------------------------------------------------------------------------
(* Sockets and endpoints.                                                  *)

Devs == NetIfs \cup {NoDev}
Addrs == {AnyAddr} \cup {Addr(d) : d \in NetIfs} \cup {Net(d) : d \in NetIfs}
Ports == m_portFirst .. m_portLast
EndPointRecords ==
  [owner : UdpSocks, dev : Devs, addr : Addrs, port : Nat \ {0}, peer : {NoPeer} \cup Peers, rx : BOOLEAN]
Sockets ==
  [bound : BOOLEAN, dev : Devs, shutSend : BOOLEAN, shutRecv : BOOLEAN, queue : Seq(Nat),
   rxAvailable : 0 .. UdpRcvBuf, moved : BOOLEAN]

\* What endpoints eps and sockets socks have in common.
OwnOf(eps, s) == {i \in DOMAIN eps : eps[i].owner = s /\ eps[i].peer = NoPeer}
Owners(eps, socks) == \A s \in UdpSocks :
  /\ socks[s].bound => \E i \in DOMAIN eps : OwnOf(eps, s) = {i}
  /\ ~socks[s].bound => OwnOf(eps, s) = {}
  /\ \A i \in OwnOf(eps, s) : eps[i].dev = socks[s].dev
Parted(e, f, socks) ==
  e.port = f.port /\ e.addr = f.addr /\ e.peer = f.peer /\ ~socks[e.owner].moved /\ ~socks[f.owner].moved
     => IF f.dev = NoDev THEN e.dev # NoDev ELSE e.dev \notin {NoDev, f.dev}
PartedAll(eps, socks) == \A i, j \in DOMAIN eps : i < j => Parted(eps[i], eps[j], socks)
\* An endpoint is on a device only if its socket is, as is one that was moved.
OnDevice(eps, socks) ==
  /\ \A i \in DOMAIN eps : eps[i].dev # NoDev => socks[eps[i].owner].dev # NoDev
  /\ \A s \in UdpSocks : socks[s].moved => socks[s].dev # NoDev

Kept(eps, socks) ==
  /\ eps \in Seq(EndPointRecords) /\ socks \in [UdpSocks -> Sockets]
  /\ Owners(eps, socks) /\ PartedAll(eps, socks) /\ OnDevice(eps, socks)

Counted(socks) == \A s \in UdpSocks : socks[s].rxAvailable = Total(socks[s].queue)

UdpInv ==
  /\ Kept(endPoints, udpSock) /\ Counted(udpSock)
  /\ m_ephemeral \in Ports /\ crashed \in BOOLEAN /\ udpOps \in 0 .. MaxUdpOps
  /\ CrashNeedsDevice

LEMMA OwnIs == \A s : Own(s) = OwnOf(endPoints, s)
BY Zenon DEF Own, OwnOf

LEMMA PortsArePorts == Ports \subseteq Nat \ {0} /\ m_portFirst \in Ports /\ m_portLast \in Ports
BY UdpAssumption DEF UdpAssumption, Ports

\* Sequences: what an element added or removed leaves in its place.
LEMMA RemovedAt ==
  ASSUME NEW T, NEW s \in Seq(T), NEW k \in 1 .. Len(s), NEW r, r = RemoveAt(s, k)
  PROVE  /\ r \in Seq(T) /\ Len(r) = Len(s) - 1
         /\ \A i \in 1 .. Len(s) - 1 : r[i] = IF i < k THEN s[i] ELSE s[i + 1]
<1> DEFINE a == SubSeq(s, 1, k - 1)
           b == SubSeq(s, k + 1, Len(s))
<1>1. Len(s) \in Nat /\ k \in Nat /\ k >= 1 /\ k <= Len(s)
  OBVIOUS
<1>2. /\ a \in Seq(T) /\ Len(a) = k - 1
      /\ \A i \in 1 .. k - 1 : a[i] = s[i]
  BY <1>1, SubSeqProperties
<1>3. /\ b \in Seq(T) /\ Len(b) = Len(s) - k
      /\ \A i \in 1 .. Len(s) - k : b[i] = s[k + i]
  BY <1>1, SubSeqProperties
<1>4. r = a \o b
  BY DEF RemoveAt
<1> HIDE DEF a, b
<1>5. /\ r \in Seq(T) /\ Len(r) = Len(a) + Len(b)
      /\ \A i \in 1 .. Len(a) + Len(b) : r[i] = IF i <= Len(a) THEN a[i] ELSE b[i - Len(a)]
  <2>1. /\ a \o b \in Seq(T) /\ Len(a \o b) = Len(a) + Len(b)
        /\ \A i \in 1 .. Len(a) + Len(b) : (a \o b)[i] = IF i <= Len(a) THEN a[i] ELSE b[i - Len(a)]
    <3>1. a \in Seq(T) /\ b \in Seq(T)
      BY <1>2, <1>3
    <3> QED
      BY <3>1, ConcatProperties, Zenon
  <2> QED
    BY <1>4, <2>1, Zenon
<1>6. Len(a) + Len(b) = Len(s) - 1
  BY <1>1, <1>2, <1>3
<1>7. ASSUME NEW i \in 1 .. Len(s) - 1
      PROVE  r[i] = IF i < k THEN s[i] ELSE s[i + 1]
  <2>1. r[i] = IF i <= Len(a) THEN a[i] ELSE b[i - Len(a)]
    BY <1>5, <1>6
  <2>2. CASE i < k
    BY <1>1, <1>2, <2>1, <2>2
  <2>3. CASE ~(i < k)
    <3>1. i - Len(a) \in 1 .. Len(s) - k /\ k + (i - Len(a)) = i + 1 /\ ~(i <= Len(a))
      BY <1>1, <1>2, <2>3
    <3> QED
      BY <1>3, <2>1, <2>3, <3>1
  <2> QED
    BY <2>2, <2>3
<1> QED
  BY <1>5, <1>6, <1>7

\* The smallest of a set of numbers is one of them.
LEMMA MinInSet ==
  ASSUME NEW S, S \subseteq Nat, S # {}
  PROVE  Min(S) \in S
<1> DEFINE R == OpToRel(<, Nat)
<1>1. PICK x \in S : \A y \in S : ~ (<<y, x>> \in R)
  <2>1. IsWellFoundedOn(R, Nat)
    BY NatLessThanWellFounded
  <2> HIDE DEF R
  <2> QED
    BY <2>1, WFMin
<1>2. ASSUME NEW y \in S
      PROVE  x =< y
  <2>1. x \in Nat /\ y \in Nat /\ ~(<<y, x>> \in R)
    BY <1>1
  <2>2. ~(y < x)
    BY <2>1 DEF OpToRel
  <2> HIDE DEF R
  <2> QED
    BY <2>1, <2>2
<1>3. \E z \in S : \A y \in S : z =< y
  BY <1>2
<1> QED
  BY <1>3, Zenon DEF Min

\* The ephemeral port is 0 or one that no endpoint has.
LEMMA EphemeralPortIsFree ==
  ASSUME AllocateEphemeralPort # 0
  PROVE  AllocateEphemeralPort \in Ports /\ ~LookupPortLocal(AllocateEphemeralPort)
<1> DEFINE free == {p \in m_portFirst .. m_portLast : ~LookupPortLocal(p)}
           later == {p \in free : p > m_ephemeral}
<1>1. free \subseteq Nat /\ later \subseteq Nat
  BY UdpAssumption DEF UdpAssumption
<1>2. AllocateEphemeralPort = IF free = {} THEN 0 ELSE IF later = {} THEN Min(free) ELSE Min(later)
  BY DEF AllocateEphemeralPort
<1>3. \A p \in free : p \in Ports /\ ~LookupPortLocal(p)
  BY DEF Ports
<1>4. later \subseteq free
  OBVIOUS
<1> HIDE DEF free, later
<1>5. free # {}
  BY <1>2
<1>6. Min(free) \in free
  BY <1>1, <1>5, MinInSet
<1>7. CASE later = {}
  BY <1>2, <1>3, <1>5, <1>6, <1>7, Zenon
<1>8. CASE later # {}
  <2>1. Min(later) \in later
    BY <1>1, <1>8, MinInSet
  <2> QED
    BY <1>2, <1>3, <1>4, <1>5, <1>8, <2>1, Zenon
<1> QED
  BY <1>7, <1>8

----------------------------------------------------------------------------
(* What the operations do with endpoints.                                  *)

LEMMA Fields ==
  ASSUME NEW eps, NEW socks, Kept(eps, socks)
  PROVE  /\ Len(eps) \in Nat /\ DOMAIN eps = 1 .. Len(eps)
         /\ \A i \in 1 .. Len(eps) :
              /\ eps[i] \in EndPointRecords /\ eps[i].owner \in UdpSocks /\ eps[i].dev \in Devs
              /\ eps[i].addr \in Addrs /\ eps[i].port \in Nat /\ eps[i].port # 0
              /\ eps[i].peer \in {NoPeer} \cup Peers
         /\ \A s \in UdpSocks :
              /\ socks[s] \in Sockets /\ socks[s].bound \in BOOLEAN /\ socks[s].moved \in BOOLEAN
              /\ socks[s].dev \in Devs /\ socks[s].queue \in Seq(Nat) /\ socks[s].rxAvailable \in 0 .. UdpRcvBuf
<1>1. eps \in Seq(EndPointRecords) /\ socks \in [UdpSocks -> Sockets]
  BY DEF Kept
<1>2. Len(eps) \in Nat /\ DOMAIN eps = 1 .. Len(eps) /\ \A i \in 1 .. Len(eps) : eps[i] \in EndPointRecords
  BY <1>1
<1>3. \A e \in EndPointRecords : /\ e.owner \in UdpSocks /\ e.dev \in Devs /\ e.addr \in Addrs
                                 /\ e.port \in Nat /\ e.port # 0 /\ e.peer \in {NoPeer} \cup Peers
  BY DEF EndPointRecords
<1>4. \A s \in UdpSocks : socks[s] \in Sockets
  BY <1>1
<1>5. \A r \in Sockets : /\ r.bound \in BOOLEAN /\ r.moved \in BOOLEAN /\ r.dev \in Devs
                         /\ r.queue \in Seq(Nat) /\ r.rxAvailable \in 0 .. UdpRcvBuf
  BY DEF Sockets
<1> QED
  BY <1>2, <1>3, <1>4, <1>5

\* No endpoint changes but in whether it receives; sockets change in what they
\* have received or may still do.
LEMMA Relabelled ==
  ASSUME NEW eps, NEW socks, Kept(eps, socks), NEW n, NEW r,
         n \in Seq(EndPointRecords), Len(n) = Len(eps), r \in [UdpSocks -> Sockets],
         \A i \in 1 .. Len(eps) : /\ n[i].owner = eps[i].owner /\ n[i].dev = eps[i].dev
                                  /\ n[i].addr = eps[i].addr /\ n[i].port = eps[i].port
                                  /\ n[i].peer = eps[i].peer,
         \A s \in UdpSocks : r[s].bound = socks[s].bound /\ r[s].dev = socks[s].dev /\ r[s].moved = socks[s].moved
  PROVE  Kept(n, r)
<1>1. DOMAIN n = 1 .. Len(eps) /\ DOMAIN eps = 1 .. Len(eps)
  BY Fields
<1>2. \A s \in UdpSocks : OwnOf(n, s) = OwnOf(eps, s)
  BY <1>1 DEF OwnOf
<1>3. Owners(eps, socks) /\ PartedAll(eps, socks) /\ OnDevice(eps, socks)
  BY DEF Kept
<1>4. Owners(n, r)
  <2>1. SUFFICES ASSUME NEW s \in UdpSocks
                 PROVE  /\ r[s].bound => \E i \in DOMAIN n : OwnOf(n, s) = {i}
                        /\ ~r[s].bound => OwnOf(n, s) = {}
                        /\ \A i \in OwnOf(n, s) : n[i].dev = r[s].dev
    BY Zenon DEF Owners
  <2>2. /\ socks[s].bound => \E i \in DOMAIN eps : OwnOf(eps, s) = {i}
        /\ ~socks[s].bound => OwnOf(eps, s) = {}
        /\ \A i \in OwnOf(eps, s) : eps[i].dev = socks[s].dev
    BY <1>3, Zenon DEF Owners
  <2>3. OwnOf(eps, s) \subseteq DOMAIN eps
    BY DEF OwnOf
  <2> QED
    BY <1>1, <1>2, <2>2, <2>3, Zenon
<1>5. PartedAll(n, r)
  <2>1. SUFFICES ASSUME NEW i \in 1 .. Len(eps), NEW j \in 1 .. Len(eps), i < j
                 PROVE  Parted(n[i], n[j], r)
    BY <1>1 DEF PartedAll
  <2>2. Parted(eps[i], eps[j], socks)
    BY <1>1, <1>3, <2>1 DEF PartedAll
  <2>3. eps[i].owner \in UdpSocks /\ eps[j].owner \in UdpSocks
    BY Fields
  <2> QED
    BY <2>2, <2>3, Zenon DEF Parted
<1>6. OnDevice(n, r)
  <2>1. \A i \in 1 .. Len(eps) : eps[i].owner \in UdpSocks
    BY Fields
  <2> QED
    BY ZenonT(40), <1>1, <1>3, <2>1, ZenonT(40) DEF OnDevice
<1> QED
  BY <1>4, <1>5, <1>6, Zenon DEF Kept

\* No endpoint at the same address and port with the same peer is on the device
\* of e or on any.
IsFree(eps, e) == \A i \in DOMAIN eps :
  eps[i].port = e.port /\ eps[i].addr = e.addr /\ eps[i].peer = e.peer => eps[i].dev \notin {NoDev, e.dev}

\* The first endpoint of a socket, or one with a peer.
LEMMA EndPointAdded ==
  ASSUME NEW eps, NEW socks, Kept(eps, socks), NEW e \in EndPointRecords, IsFree(eps, e),
         e.dev = socks[e.owner].dev, e.peer = NoPeer => ~socks[e.owner].bound,
         NEW r, r \in [UdpSocks -> Sockets],
         \A s \in UdpSocks : /\ r[s].dev = socks[s].dev /\ r[s].moved = socks[s].moved
                             /\ r[s].bound = (socks[s].bound \/ (s = e.owner /\ e.peer = NoPeer)),
         NEW n, n = Append(eps, e)
  PROVE  Kept(n, r)
<1>1. /\ Len(eps) \in Nat /\ DOMAIN eps = 1 .. Len(eps)
      /\ \A i \in 1 .. Len(eps) : eps[i].owner \in UdpSocks
  BY Fields
<1>2. eps \in Seq(EndPointRecords) /\ Owners(eps, socks) /\ PartedAll(eps, socks) /\ OnDevice(eps, socks)
  BY DEF Kept
<1>3. /\ n \in Seq(EndPointRecords) /\ Len(n) = Len(eps) + 1 /\ DOMAIN n = 1 .. Len(eps) + 1
      /\ n[Len(eps) + 1] = e /\ \A i \in 1 .. Len(eps) : n[i] = eps[i]
  BY <1>2
<1>4. e.owner \in UdpSocks /\ e.peer \in {NoPeer} \cup Peers
  BY DEF EndPointRecords
<1>5. PICK m \in Nat : m = Len(eps)
  BY <1>1
<1>6. \A i \in DOMAIN n : i \in 1 .. m \/ i = m + 1
  BY <1>3, <1>5
<1>7. ASSUME NEW s \in UdpSocks
      PROVE  OwnOf(n, s) = OwnOf(eps, s) \cup (IF s = e.owner /\ e.peer = NoPeer THEN {m + 1} ELSE {})
  BY <1>1, <1>3, <1>5, <1>6 DEF OwnOf
<1>8. Owners(n, r)
  <2>1. SUFFICES ASSUME NEW s \in UdpSocks
                 PROVE  /\ r[s].bound => \E i \in DOMAIN n : OwnOf(n, s) = {i}
                        /\ ~r[s].bound => OwnOf(n, s) = {}
                        /\ \A i \in OwnOf(n, s) : n[i].dev = r[s].dev
    BY Zenon DEF Owners
  <2>2. /\ socks[s].bound => \E i \in DOMAIN eps : OwnOf(eps, s) = {i}
        /\ ~socks[s].bound => OwnOf(eps, s) = {}
        /\ \A i \in OwnOf(eps, s) : eps[i].dev = socks[s].dev
    BY <1>2, Zenon DEF Owners
  <2>3. OwnOf(eps, s) \subseteq DOMAIN eps
    BY DEF OwnOf
  <2>4. CASE s = e.owner /\ e.peer = NoPeer
    <3>1. OwnOf(eps, s) = {} /\ OwnOf(n, s) = {m + 1}
      BY <1>7, <2>2, <2>4
    <3>2. m + 1 \in DOMAIN n /\ n[m + 1] = e
      BY <1>3, <1>5
    <3>3. e.dev = r[s].dev /\ r[s].bound
      BY <2>4, Zenon
    <3> QED
      BY <3>1, <3>2, <3>3
  <2>5. CASE ~(s = e.owner /\ e.peer = NoPeer)
    <3>1. OwnOf(n, s) = OwnOf(eps, s) /\ DOMAIN eps \subseteq DOMAIN n
      <4>1. OwnOf(n, s) = OwnOf(eps, s) \cup IF s = e.owner /\ e.peer = NoPeer THEN {m + 1} ELSE {}
        BY <1>7
      <4>2. OwnOf(n, s) = OwnOf(eps, s) \cup {}
        BY <2>5, <4>1, Zenon
      <4>3. DOMAIN eps \subseteq DOMAIN n
        BY <1>1, <1>3
      <4> QED
        BY <4>2, <4>3, Zenon
    <3>2. \A i \in DOMAIN eps : n[i] = eps[i]
      BY <1>1, <1>3
    <3>3. r[s].bound <=> socks[s].bound
      BY <2>5, Zenon
    <3> QED
      BY ZenonT(40), <2>2, <2>3, <3>1, <3>2, <3>3, ZenonT(40)
  <2> QED
    BY <2>4, <2>5
<1>9. PartedAll(n, r)
  <2>1. SUFFICES ASSUME NEW i \in DOMAIN n, NEW j \in DOMAIN n, i < j
                 PROVE  Parted(n[i], n[j], r)
    BY DEF PartedAll
  <2>2. i \in 1 .. m /\ n[i] = eps[i] /\ eps[i].owner \in UdpSocks
    BY <1>1, <1>3, <1>5, <1>6, <2>1
  <2>3. CASE j \in 1 .. m
    <3>1. Parted(eps[i], eps[j], socks) /\ n[j] = eps[j] /\ eps[j].owner \in UdpSocks
      BY <1>1, <1>2, <1>3, <1>5, <2>1, <2>2, <2>3 DEF PartedAll
    <3> QED
      BY <2>2, <3>1, Zenon DEF Parted
  <2>4. CASE j = m + 1
    <3>1. n[j] = e
      BY <1>3, <1>5, <2>4
    <3>2. eps[i].port = e.port /\ eps[i].addr = e.addr /\ eps[i].peer = e.peer => eps[i].dev \notin {NoDev, e.dev}
      BY <1>1, <1>5, <2>2 DEF IsFree
    <3> QED
      BY <2>2, <3>1, <3>2 DEF Parted
  <2> QED
    BY <1>6, <2>3, <2>4
<1>10. OnDevice(n, r)
  <2>1. ASSUME NEW i \in DOMAIN n
        PROVE  n[i].dev # NoDev => r[n[i].owner].dev # NoDev
    <3>1. CASE i \in 1 .. m
      BY <1>1, <1>2, <1>3, <1>5, <3>1 DEF OnDevice
    <3>2. CASE i = m + 1
      BY <1>3, <1>4, <1>5, <3>2
    <3> QED
      BY <1>6, <3>1, <3>2
  <2>2. \A s \in UdpSocks : r[s].moved => r[s].dev # NoDev
    BY <1>2 DEF OnDevice
  <2> QED
    BY <2>1, <2>2, Zenon DEF OnDevice
<1> QED
  BY <1>3, <1>8, <1>9, <1>10, Zenon DEF Kept

\* The device of a socket and that of its endpoint.
LEMMA EndPointMoved ==
  ASSUME NEW eps, NEW socks, Kept(eps, socks), NEW z \in UdpSocks, NEW d \in NetIfs,
         NEW r, r \in [UdpSocks -> Sockets],
         \A s \in UdpSocks : r[s].bound = socks[s].bound,
         \A s \in UdpSocks \ {z} : r[s].dev = socks[s].dev /\ r[s].moved = socks[s].moved,
         r[z].dev = d, r[z].moved = (socks[z].moved \/ socks[z].bound),
         NEW n, n \in Seq(EndPointRecords), Len(n) = Len(eps),
         \A i \in 1 .. Len(eps) : /\ n[i].owner = eps[i].owner /\ n[i].addr = eps[i].addr
                                  /\ n[i].port = eps[i].port /\ n[i].peer = eps[i].peer
                                  /\ n[i].dev = IF i \in OwnOf(eps, z) THEN d ELSE eps[i].dev
  PROVE  Kept(n, r)
<1>1. /\ Len(eps) \in Nat /\ DOMAIN eps = 1 .. Len(eps) /\ DOMAIN n = 1 .. Len(eps)
      /\ \A i \in 1 .. Len(eps) : eps[i].owner \in UdpSocks
  BY Fields
<1>2. Owners(eps, socks) /\ PartedAll(eps, socks) /\ OnDevice(eps, socks)
  BY DEF Kept
<1>3. \A s \in UdpSocks : OwnOf(n, s) = OwnOf(eps, s)
  BY <1>1 DEF OwnOf
<1>4. d # NoDev /\ d \in Devs
  BY UdpAssumption DEF UdpAssumption, Devs
<1>5. Owners(n, r)
  <2>1. SUFFICES ASSUME NEW s \in UdpSocks
                 PROVE  /\ r[s].bound => \E i \in DOMAIN n : OwnOf(n, s) = {i}
                        /\ ~r[s].bound => OwnOf(n, s) = {}
                        /\ \A i \in OwnOf(n, s) : n[i].dev = r[s].dev
    BY Zenon DEF Owners
  <2>2. /\ socks[s].bound => \E i \in DOMAIN eps : OwnOf(eps, s) = {i}
        /\ ~socks[s].bound => OwnOf(eps, s) = {}
        /\ \A i \in OwnOf(eps, s) : eps[i].dev = socks[s].dev
    BY <1>2, Zenon DEF Owners
  <2>3. OwnOf(eps, s) \subseteq DOMAIN eps /\ \A i \in OwnOf(eps, s) : i \in OwnOf(eps, z) => s = z
    BY DEF OwnOf
  <2>4. \A i \in OwnOf(n, s) : n[i].dev = r[s].dev
    BY <1>1, <1>3, <2>2, <2>3
  <2> QED
    BY <1>1, <1>3, <2>2, <2>4, Zenon
<1>6. PartedAll(n, r)
  <2>1. SUFFICES ASSUME NEW i \in 1 .. Len(eps), NEW j \in 1 .. Len(eps), i < j
                 PROVE  Parted(n[i], n[j], r)
    BY <1>1 DEF PartedAll
  <2>2. Parted(eps[i], eps[j], socks)
    BY <1>1, <1>2, <2>1 DEF PartedAll
  <2>3. eps[i].owner \in UdpSocks /\ eps[j].owner \in UdpSocks
    BY <1>1
  <2>4. ASSUME NEW k \in 1 .. Len(eps), ~r[n[k].owner].moved
        PROVE  n[k].dev = eps[k].dev /\ ~socks[eps[k].owner].moved
    <3>1. CASE eps[k].owner # z
      <4>1. k \notin OwnOf(eps, z)
        BY <3>1 DEF OwnOf
      <4> QED
        BY <1>1, <2>4, <3>1, <4>1
    <3>2. CASE eps[k].owner = z
      <4>1. ~socks[z].moved /\ ~socks[z].bound
        BY <2>4, <3>2
      <4>2. OwnOf(eps, z) = {}
        BY <1>2, <4>1, Zenon DEF Owners
      <4> QED
        BY <3>2, <4>1, <4>2
    <3> QED
      BY <3>1, <3>2
  <2>5. ~r[n[i].owner].moved => n[i].dev = eps[i].dev /\ ~socks[eps[i].owner].moved
    BY <2>4
  <2>6. ~r[n[j].owner].moved => n[j].dev = eps[j].dev /\ ~socks[eps[j].owner].moved
    BY <2>4
  <2>7. n[i].port = eps[i].port /\ n[i].addr = eps[i].addr /\ n[i].peer = eps[i].peer
    OBVIOUS
  <2>8. n[j].port = eps[j].port /\ n[j].addr = eps[j].addr /\ n[j].peer = eps[j].peer
    OBVIOUS
  <2> QED
    BY <2>2, <2>5, <2>6, <2>7, <2>8, Zenon DEF Parted
<1>7. OnDevice(n, r)
  <2>1. ASSUME NEW i \in 1 .. Len(eps), n[i].dev # NoDev
        PROVE  r[n[i].owner].dev # NoDev
    <3>1. CASE eps[i].owner = z
      BY <1>4, <3>1
    <3>2. CASE eps[i].owner # z
      <4>1. i \notin OwnOf(eps, z)
        BY <3>2 DEF OwnOf
      <4>2. socks[eps[i].owner].dev # NoDev
        BY <1>1, <1>2, <2>1, <4>1 DEF OnDevice
      <4> QED
        BY <1>1, <3>2, <4>2
    <3> QED
      BY <3>1, <3>2
  <2>2. \A s \in UdpSocks : r[s].moved => r[s].dev # NoDev
    BY <1>2, <1>4 DEF OnDevice
  <2> QED
    BY <1>1, <2>1, <2>2, Zenon DEF OnDevice
<1> QED
  BY <1>5, <1>6, <1>7, Zenon DEF Kept

\* The endpoint of a socket that is closed.
LEMMA EndPointRemoved ==
  ASSUME NEW eps, NEW socks, Kept(eps, socks), NEW z \in UdpSocks, NEW k, OwnOf(eps, z) = {k},
         NEW r, r \in [UdpSocks -> Sockets],
         \A s \in UdpSocks : /\ r[s].dev = socks[s].dev /\ r[s].moved = socks[s].moved
                             /\ r[s].bound = (socks[s].bound /\ s # z),
         NEW n, n = RemoveAt(eps, k)
  PROVE  Kept(n, r)
<1>1. /\ Len(eps) \in Nat /\ DOMAIN eps = 1 .. Len(eps)
      /\ \A i \in 1 .. Len(eps) : eps[i].owner \in UdpSocks
  BY Fields
<1>2. eps \in Seq(EndPointRecords) /\ Owners(eps, socks) /\ PartedAll(eps, socks) /\ OnDevice(eps, socks)
  BY DEF Kept
<1>3. k \in 1 .. Len(eps) /\ eps[k].owner = z /\ eps[k].peer = NoPeer
  BY <1>1 DEF OwnOf
<1>4. /\ n \in Seq(EndPointRecords) /\ Len(n) = Len(eps) - 1
      /\ \A i \in 1 .. Len(eps) - 1 : n[i] = IF i < k THEN eps[i] ELSE eps[i + 1]
  <2>1. eps \in Seq(EndPointRecords) /\ k \in 1 .. Len(eps) /\ n = RemoveAt(eps, k)
    BY <1>2, <1>3
  <2> QED
    BY ONLY SMTT(40), <2>1, RemovedAt
<1> DEFINE Old(i) == IF i < k THEN i ELSE i + 1
<1>5. DOMAIN n = 1 .. Len(eps) - 1
  BY <1>1, <1>4
<1>6. \A i \in DOMAIN n : Old(i) \in DOMAIN eps /\ Old(i) # k /\ n[i] = eps[Old(i)]
  BY <1>1, <1>3, <1>4, <1>5
<1>7. \A i, j \in DOMAIN n : i < j => Old(i) < Old(j)
  BY <1>3, <1>5
<1>8. \A i, j \in DOMAIN n : Old(i) = Old(j) => i = j
  BY <1>3, <1>5
<1>9. \A j \in DOMAIN eps : j # k => \E i \in DOMAIN n : Old(i) = j
  <2>1. SUFFICES ASSUME NEW j \in DOMAIN eps, j # k
                 PROVE  \E i \in DOMAIN n : Old(i) = j
    OBVIOUS
  <2>2. CASE j < k
    BY <1>1, <1>3, <1>5, <2>2
  <2>3. CASE j > k
    <3>1. j - 1 \in DOMAIN n /\ Old(j - 1) = j
      BY <1>1, <1>3, <1>5, <2>3
    <3> QED
      BY <3>1
  <2> QED
    BY <1>1, <1>3, <2>1, <2>2, <2>3
<1> HIDE DEF Old
<1>10. Owners(n, r)
  <2>1. SUFFICES ASSUME NEW s \in UdpSocks
                 PROVE  /\ r[s].bound => \E i \in DOMAIN n : OwnOf(n, s) = {i}
                        /\ ~r[s].bound => OwnOf(n, s) = {}
                        /\ \A i \in OwnOf(n, s) : n[i].dev = r[s].dev
    BY Zenon DEF Owners
  <2>2. /\ socks[s].bound => \E i \in DOMAIN eps : OwnOf(eps, s) = {i}
        /\ ~socks[s].bound => OwnOf(eps, s) = {}
        /\ \A i \in OwnOf(eps, s) : eps[i].dev = socks[s].dev
    BY <1>2, Zenon DEF Owners
  <2>3. \A i \in DOMAIN n : i \in OwnOf(n, s) <=> Old(i) \in OwnOf(eps, s)
    BY <1>6 DEF OwnOf
  <2>4. OwnOf(n, s) \subseteq DOMAIN n /\ OwnOf(eps, s) \subseteq DOMAIN eps
    BY DEF OwnOf
  <2>5. CASE s = z
    <3>1. OwnOf(n, s) = {}
      BY <1>6, <2>3, <2>4, <2>5
    <3> QED
      BY <2>5, <3>1
  <2>6. CASE s # z
    <3>1. k \notin OwnOf(eps, s)
      BY <1>3, <2>6 DEF OwnOf
    <3>2. (r[s].bound <=> socks[s].bound) /\ r[s].dev = socks[s].dev
      BY <2>6, Zenon
    <3>3. \A i \in OwnOf(n, s) : n[i].dev = r[s].dev
      BY <1>6, <2>2, <2>3, <2>4, <3>2
    <3>4. ASSUME socks[s].bound
          PROVE  \E i \in DOMAIN n : OwnOf(n, s) = {i}
      <4>1. PICK j \in DOMAIN eps : OwnOf(eps, s) = {j}
        BY <2>2, <3>4
      <4>2. j # k
        BY <3>1, <4>1
      <4>3. PICK i \in DOMAIN n : Old(i) = j
        BY <1>9, <4>2
      <4>4. OwnOf(n, s) = {i}
        BY <1>8, <2>3, <2>4, <4>1, <4>3
      <4> QED
        BY <4>4
    <3>5. ~socks[s].bound => OwnOf(n, s) = {}
      BY <2>2, <2>3, <2>4
    <3> QED
      BY <3>3, <3>4, <3>5, <3>2
  <2> QED
    BY <2>5, <2>6
<1>11. PartedAll(n, r)
  <2>1. SUFFICES ASSUME NEW i \in DOMAIN n, NEW j \in DOMAIN n, i < j
                 PROVE  Parted(n[i], n[j], r)
    BY DEF PartedAll
  <2>2. PICK a \in DOMAIN eps, b \in DOMAIN eps : a < b /\ n[i] = eps[a] /\ n[j] = eps[b]
    BY <1>6, <1>7, <2>1
  <2>3. Parted(eps[a], eps[b], socks) /\ eps[a].owner \in UdpSocks /\ eps[b].owner \in UdpSocks
    BY <1>1, <1>2, <2>2 DEF PartedAll
  <2> QED
    BY <2>2, <2>3, Zenon DEF Parted
<1>12. OnDevice(n, r)
  <2>1. \A i \in DOMAIN n : n[i].dev # NoDev => r[n[i].owner].dev # NoDev
    BY <1>1, <1>2, <1>6 DEF OnDevice
  <2>2. \A s \in UdpSocks : r[s].moved => r[s].dev # NoDev
    BY <1>2 DEF OnDevice
  <2> QED
    BY <2>1, <2>2, Zenon DEF OnDevice
<1> QED
  BY <1>4, <1>10, <1>11, <1>12, Zenon DEF Kept

----------------------------------------------------------------------------
(* Who receives.                                                           *)

Somewhere ==
  (\E s \in UdpSocks : udpSock[s].dev # NoDev) \/ (\E e \in EndPoints, d \in NetIfs : e.addr = Net(d))

\* Without devices and subnets, the endpoints that match best are one.
LEMMA OneReceiver ==
  ASSUME UdpInv, ~Somewhere, NEW daddr, NEW dport, NEW peer \in Peers, NEW dev \in NetIfs,
         NEW i \in LookupEndPoint(daddr, dport, peer, dev), NEW j \in LookupEndPoint(daddr, dport, peer, dev),
         i < j
  PROVE  FALSE
<1>1. Kept(endPoints, udpSock)
  BY DEF UdpInv
<1>2. PICK found : found = Matching(daddr, dport, peer, dev)
  OBVIOUS
<1>3. /\ i \in found /\ j \in found
      /\ Exactness(endPoints[i], daddr, peer) <= Exactness(endPoints[j], daddr, peer)
      /\ Exactness(endPoints[j], daddr, peer) <= Exactness(endPoints[i], daddr, peer)
  BY <1>2 DEF LookupEndPoint
<1>4. \A k \in found : /\ k \in DOMAIN endPoints /\ endPoints[k].port = dport
                       /\ endPoints[k].addr = daddr \/ endPoints[k].addr = AnyAddr
                       /\ endPoints[k].peer \in {NoPeer, peer} /\ endPoints[k].dev = NoDev
                       /\ ~udpSock[endPoints[k].owner].moved
  <2>1. SUFFICES ASSUME NEW k \in found
                 PROVE  /\ k \in DOMAIN endPoints /\ endPoints[k].port = dport
                        /\ endPoints[k].addr = daddr \/ endPoints[k].addr = AnyAddr
                        /\ endPoints[k].peer \in {NoPeer, peer} /\ endPoints[k].dev = NoDev
                        /\ ~udpSock[endPoints[k].owner].moved
    OBVIOUS
  <2>2. /\ k \in DOMAIN endPoints /\ endPoints[k].port = dport
        /\ AddressMatches(endPoints[k], daddr, dev) /\ endPoints[k].peer \in {NoPeer, peer}
    BY <1>2 DEF Matching
  <2>3. endPoints[k] \in EndPoints
    BY <2>2 DEF EndPoints
  <2>4. endPoints[k].addr # Net(dev)
    BY <2>3 DEF Somewhere
  <2>5. endPoints[k].addr = daddr \/ endPoints[k].addr = AnyAddr
    BY <2>2, <2>4, Zenon DEF AddressMatches
  <2>6. endPoints[k].owner \in UdpSocks
    BY <1>1, <2>2, Fields
  <2>7. udpSock[endPoints[k].owner].dev = NoDev
    BY <2>6, Zenon DEF Somewhere
  <2>8. OnDevice(endPoints, udpSock)
    BY <1>1 DEF Kept
  <2> QED
    BY <2>2, <2>5, <2>6, <2>7, <2>8, Zenon DEF OnDevice
<1>5. PICK e, f : e = endPoints[i] /\ f = endPoints[j]
  OBVIOUS
<1>6. /\ e.port = dport /\ f.port = dport /\ e.addr \in {daddr, AnyAddr} /\ f.addr \in {daddr, AnyAddr}
      /\ e.peer \in {NoPeer, peer} /\ f.peer \in {NoPeer, peer} /\ e.dev = NoDev /\ f.dev = NoDev
      /\ ~udpSock[e.owner].moved /\ ~udpSock[f.owner].moved
      /\ i \in DOMAIN endPoints /\ j \in DOMAIN endPoints
  BY <1>3, <1>4, <1>5
<1>7. /\ Exactness(e, daddr, peer) = (IF e.peer = peer THEN 2 ELSE 0) + (IF e.addr = daddr THEN 2 ELSE 1)
      /\ Exactness(f, daddr, peer) = (IF f.peer = peer THEN 2 ELSE 0) + (IF f.addr = daddr THEN 2 ELSE 1)
  BY Zenon DEF Exactness
<1>8. Exactness(e, daddr, peer) <= Exactness(f, daddr, peer) /\ Exactness(f, daddr, peer) <= Exactness(e, daddr, peer)
  BY <1>3, <1>5
<1>9. (e.peer = peer <=> f.peer = peer) /\ (e.addr = daddr <=> f.addr = daddr)
  BY <1>7, <1>8
<1>10. e.peer = f.peer /\ e.addr = f.addr
  BY <1>6, <1>9
<1>11. Parted(e, f, udpSock)
  BY <1>1, <1>5, <1>6 DEF Kept, PartedAll
<1> QED
  BY <1>6, <1>10, <1>11, Zenon DEF Parted

LEMMA CrashOnReceive ==
  ASSUME UdpInv, NEW daddr, NEW dport, NEW peer \in Peers, NEW dev \in NetIfs,
         Cardinality(LookupEndPoint(daddr, dport, peer, dev)) > 1
  PROVE  Somewhere
<1>1. SUFFICES ASSUME ~Somewhere
               PROVE  FALSE
  OBVIOUS
<1>2. PICK found : found = LookupEndPoint(daddr, dport, peer, dev)
  OBVIOUS
<1>3. found \subseteq Nat
  <2>1. DOMAIN endPoints \subseteq Nat
    BY Fields DEF UdpInv
  <2>2. found \subseteq DOMAIN endPoints
    BY <1>2 DEF LookupEndPoint, Matching
  <2> QED
    BY <2>1, <2>2
<1>4. \A i, j \in found : ~(i < j)
  BY <1>1, <1>2, OneReceiver, Zenon
<1>5. \A i, j \in found : i = j
  BY <1>3, <1>4
<1>6. CASE found = {}
  BY <1>2, <1>6, FS_EmptySet
<1>7. CASE found # {}
  <2>1. PICK i \in found : found = {i}
    BY <1>5, <1>7
  <2> QED
    BY <1>2, <2>1, FS_Singleton
<1> QED
  BY <1>6, <1>7

\* The one that receives is an endpoint.
LEMMA ReceiverIs ==
  ASSUME NEW found, Cardinality(found) = 1, found \subseteq DOMAIN endPoints
  PROVE  (CHOOSE i \in found : TRUE) \in DOMAIN endPoints
<1>1. found # {}
  BY FS_EmptySet
<1> QED
  BY <1>1

----------------------------------------------------------------------------
(* The operations.                                                         *)

LEMMA KeptNow ==
  ASSUME UdpInv
  PROVE  /\ Kept(endPoints, udpSock) /\ Counted(udpSock) /\ endPoints \in Seq(EndPointRecords)
         /\ udpSock \in [UdpSocks -> Sockets] /\ Owners(endPoints, udpSock)
BY DEF UdpInv, Kept

LEMMA CountsStay ==
  ASSUME NEW socks, Counted(socks), NEW r,
         \A s \in UdpSocks : r[s].queue = socks[s].queue /\ r[s].rxAvailable = socks[s].rxAvailable
  PROVE  Counted(r)
BY Zenon DEF Counted

LEMMA NewEndPoint ==
  ASSUME NEW s \in UdpSocks, NEW dev \in Devs, NEW addr \in Addrs, NEW port \in Nat \ {0}, NEW peer \in {NoPeer} \cup Peers,
         NEW e, e = EndPoint(s, dev, addr, port, peer)
  PROVE  /\ e \in EndPointRecords
         /\ e.owner = s /\ e.dev = dev /\ e.addr = addr /\ e.port = port /\ e.peer = peer
<1>1. e = [owner |-> s, dev |-> dev, addr |-> addr, port |-> port, peer |-> peer, rx |-> TRUE]
  BY Zenon DEF EndPoint
<1> QED
  BY <1>1 DEF EndPointRecords

\* A socket gets its endpoint.
LEMMA BoundKeeps ==
  ASSUME UdpInv, NEW s \in UdpSocks, ~udpSock[s].bound, NEW addr \in Addrs, NEW port \in Nat \ {0},
         NEW e, e = EndPoint(s, udpSock[s].dev, addr, port, NoPeer), IsFree(endPoints, e), Bound(s, e)
  PROVE  Kept(endPoints', udpSock') /\ Counted(udpSock')
<1>1. PICK eps, socks : eps = endPoints /\ socks = udpSock
  OBVIOUS
<1>2. PICK n, r : n = endPoints' /\ r = udpSock'
  OBVIOUS
<1>3. Kept(eps, socks) /\ Counted(socks) /\ socks \in [UdpSocks -> Sockets] /\ socks[s].dev \in Devs
  BY <1>1, KeptNow, Fields
<1>4. n = Append(eps, e) /\ r = [socks EXCEPT ![s].bound = TRUE]
  BY <1>1, <1>2, Zenon DEF Bound
<1>5. r \in [UdpSocks -> Sockets]
  BY ZenonT(40), ZenonT(40), <1>3, <1>4 DEF Sockets
<1>6. \A t \in UdpSocks : /\ r[t].dev = socks[t].dev /\ r[t].moved = socks[t].moved
                          /\ r[t].queue = socks[t].queue /\ r[t].rxAvailable = socks[t].rxAvailable
  BY <1>3, <1>4 DEF Sockets
<1>7. \A t \in UdpSocks : r[t].bound = (socks[t].bound \/ t = s)
  BY <1>3, <1>4 DEF Sockets
<1>8. /\ e \in EndPointRecords
      /\ e.owner = s /\ e.dev = socks[s].dev /\ e.peer = NoPeer
  BY <1>1, <1>3, NewEndPoint
<1>9. IsFree(eps, e) /\ ~socks[s].bound
  BY <1>1
<1>10. Kept(n, r)
  <2>1. \A t \in UdpSocks : /\ r[t].dev = socks[t].dev /\ r[t].moved = socks[t].moved
                            /\ r[t].bound = (socks[t].bound \/ (t = e.owner /\ e.peer = NoPeer))
    BY <1>6, <1>7, <1>8, Zenon
  <2>2. e.dev = socks[e.owner].dev /\ (e.peer = NoPeer => ~socks[e.owner].bound)
    BY <1>8, <1>9, Zenon
  <2> QED
    BY ZenonT(40), <1>3, <1>4, <1>5, <1>8, <1>9, <2>1, <2>2, EndPointAdded, ZenonT(40)
<1>11. Counted(r)
  BY <1>3, <1>6, CountsStay, Zenon
<1> QED
  BY <1>2, <1>10, <1>11, Zenon

LEMMA BindEphemeralKeeps ==
  ASSUME UdpInv, NEW s \in UdpSocks, ~udpSock[s].bound, NEW addr \in Addrs, BindEphemeral(s, addr)
  PROVE  Kept(endPoints', udpSock') /\ Counted(udpSock') /\ m_ephemeral' \in Ports
<1>1. Kept(endPoints, udpSock) /\ Counted(udpSock) /\ m_ephemeral \in Ports
  BY DEF UdpInv
<1>2. CASE AllocateEphemeralPort = 0
  <2>1. UNCHANGED <<endPoints, udpSock, m_ephemeral>>
    BY <1>2, Zenon DEF BindEphemeral
  <2> QED
    BY <1>1, <2>1, Zenon
<1>3. CASE AllocateEphemeralPort # 0
  <2>1. PICK p : p = AllocateEphemeralPort
    OBVIOUS
  <2>2. m_ephemeral' = p /\ Bound(s, EndPoint(s, udpSock[s].dev, addr, p, NoPeer))
    BY <1>3, <2>1, Zenon DEF BindEphemeral
  <2>3. p \in Ports /\ ~LookupPortLocal(p)
    BY <1>3, <2>1, EphemeralPortIsFree
  <2>4. PICK e : e = EndPoint(s, udpSock[s].dev, addr, p, NoPeer)
    OBVIOUS
  <2>5. p \in Nat \ {0}
    BY <2>3, PortsArePorts
  <2>6. udpSock[s].dev \in Devs
    BY KeptNow, Fields
  <2>7. e.port = p
    BY <2>4, <2>5, <2>6, NewEndPoint
  <2>8. \A i \in DOMAIN endPoints : endPoints[i].port # p
    BY <2>3 DEF LookupPortLocal, EndPoints
  <2>9. IsFree(endPoints, e)
    BY <2>7, <2>8 DEF IsFree
  <2>10. Bound(s, e)
    BY <2>2, <2>4, Zenon
  <2> QED
    BY <2>2, <2>3, <2>4, <2>5, <2>9, <2>10, BoundKeeps, Zenon
<1> QED
  BY <1>2, <1>3

LEMMA BindPortKeeps ==
  ASSUME UdpInv, NEW s \in UdpSocks, ~udpSock[s].bound, NEW addr \in Addrs, NEW port \in Nat \ {0}, BindPort(s, addr, port)
  PROVE  Kept(endPoints', udpSock') /\ Counted(udpSock') /\ m_ephemeral' \in Ports
<1>1. Kept(endPoints, udpSock) /\ Counted(udpSock) /\ m_ephemeral \in Ports /\ m_ephemeral' = m_ephemeral
  BY Zenon DEF UdpInv, BindPort
<1>2. CASE ~MayAllocate(udpSock[s].dev, addr, port)
  <2>1. UNCHANGED <<endPoints, udpSock>>
    BY <1>2, Zenon DEF BindPort
  <2> QED
    BY <1>1, <2>1, Zenon
<1>3. CASE MayAllocate(udpSock[s].dev, addr, port)
  <2>1. PICK e : e = EndPoint(s, udpSock[s].dev, addr, port, NoPeer)
    OBVIOUS
  <2>2. Bound(s, e)
    BY <1>3, <2>1, Zenon DEF BindPort
  <2>3. udpSock[s].dev \in Devs
    BY KeptNow, Fields
  <2>4. e.port = port /\ e.addr = addr /\ e.dev = udpSock[s].dev
    BY <2>1, <2>3, NewEndPoint
  <2>5. \A i \in DOMAIN endPoints : endPoints[i].port = port /\ endPoints[i].addr = addr
           => endPoints[i].dev # udpSock[s].dev /\ endPoints[i].dev # NoDev
    BY <1>3 DEF MayAllocate, LookupLocal, EndPoints
  <2>6. IsFree(endPoints, e)
    BY <2>4, <2>5 DEF IsFree
  <2> QED
    BY <1>1, <2>1, <2>2, <2>6, BoundKeeps, Zenon
<1> QED
  BY <1>2, <1>3

LEMMA BindToNetDeviceKeeps ==
  ASSUME UdpInv, NEW z \in UdpSocks, NEW d \in NetIfs, BindToNetDevice(z, d)
  PROVE  Kept(endPoints', udpSock') /\ Counted(udpSock')
<1>1. PICK eps, socks : eps = endPoints /\ socks = udpSock
  OBVIOUS
<1>2. PICK n, r : n = endPoints' /\ r = udpSock'
  OBVIOUS
<1>3. /\ Kept(eps, socks) /\ Counted(socks) /\ socks \in [UdpSocks -> Sockets] /\ eps \in Seq(EndPointRecords)
  BY <1>1, KeptNow
<1>4. r = [socks EXCEPT ![z].dev = d, ![z].moved = @ \/ socks[z].bound]
  BY <1>1, <1>2, Zenon DEF BindToNetDevice
<1>5. n = [i \in DOMAIN eps |-> IF i \in OwnOf(eps, z) THEN [eps[i] EXCEPT !.dev = d] ELSE eps[i]]
  BY <1>1, <1>2, OwnIs, Zenon DEF BindToNetDevice
<1>6. d \in Devs
  BY DEF Devs
<1>7. Len(eps) \in Nat /\ DOMAIN eps = 1 .. Len(eps) /\ \A i \in 1 .. Len(eps) : eps[i] \in EndPointRecords
  BY <1>3
<1>8. /\ n \in Seq(EndPointRecords) /\ Len(n) = Len(eps)
      /\ \A i \in 1 .. Len(eps) : /\ n[i].owner = eps[i].owner /\ n[i].addr = eps[i].addr
                                  /\ n[i].port = eps[i].port /\ n[i].peer = eps[i].peer
                                  /\ n[i].dev = IF i \in OwnOf(eps, z) THEN d ELSE eps[i].dev
  <2>1. ASSUME NEW e \in EndPointRecords, NEW f, f = [e EXCEPT !.dev = d]
        PROVE  f \in EndPointRecords /\ f.owner = e.owner /\ f.addr = e.addr /\ f.port = e.port /\ f.peer = e.peer /\ f.dev = d
    BY <1>6, <2>1 DEF EndPointRecords
  <2>2. \A i \in 1 .. Len(eps) : n[i] = IF i \in OwnOf(eps, z) THEN [eps[i] EXCEPT !.dev = d] ELSE eps[i]
    BY <1>5, <1>7
  <2>3. n \in [1 .. Len(eps) -> EndPointRecords]
    BY <1>5, <1>7, <2>1
  <2> QED
    BY <1>7, <2>1, <2>2, <2>3
<1>9. r \in [UdpSocks -> Sockets]
  BY ZenonT(40), ZenonT(40), <1>3, <1>4, <1>6 DEF Sockets
<1>10. /\ r[z].dev = d /\ r[z].bound = socks[z].bound
       /\ r[z].queue = socks[z].queue /\ r[z].rxAvailable = socks[z].rxAvailable
  BY <1>3, <1>4 DEF Sockets
<1>11. r[z].moved = (socks[z].moved \/ socks[z].bound)
  BY <1>3, <1>4 DEF Sockets
<1>12. \A t \in UdpSocks \ {z} : r[t] = socks[t]
  BY <1>3, <1>4
<1>13. Kept(n, r)
  <2>1. \A t \in UdpSocks : r[t].bound = socks[t].bound
    BY <1>10, <1>12, Zenon
  <2>2. \A t \in UdpSocks \ {z} : r[t].dev = socks[t].dev /\ r[t].moved = socks[t].moved
    BY <1>12
  <2> QED
    BY SMTT(40), <1>3, <1>8, <1>9, <1>10, <1>11, <2>1, <2>2, EndPointMoved
<1>14. Counted(r)
  BY <1>3, <1>10, <1>12, CountsStay, Zenon
<1> QED
  BY <1>2, <1>13, <1>14, Zenon

LEMMA ShutdownRecvKeeps ==
  ASSUME UdpInv, NEW z \in UdpSocks, UdpShutdownRecv(z)
  PROVE  Kept(endPoints', udpSock') /\ Counted(udpSock')
<1>1. PICK eps, socks : eps = endPoints /\ socks = udpSock
  OBVIOUS
<1>2. PICK n, r : n = endPoints' /\ r = udpSock'
  OBVIOUS
<1>3. /\ Kept(eps, socks) /\ Counted(socks) /\ socks \in [UdpSocks -> Sockets] /\ eps \in Seq(EndPointRecords)
  BY <1>1, KeptNow
<1>4. r = [socks EXCEPT ![z].shutRecv = TRUE]
  BY <1>1, <1>2, Zenon DEF UdpShutdownRecv
<1>5. n = [i \in DOMAIN eps |-> IF i \in OwnOf(eps, z) THEN [eps[i] EXCEPT !.rx = FALSE] ELSE eps[i]]
  BY <1>1, <1>2, OwnIs, Zenon DEF UdpShutdownRecv
<1>6. Len(eps) \in Nat /\ DOMAIN eps = 1 .. Len(eps) /\ \A i \in 1 .. Len(eps) : eps[i] \in EndPointRecords
  BY <1>3
<1>7. /\ n \in Seq(EndPointRecords) /\ Len(n) = Len(eps)
      /\ \A i \in 1 .. Len(eps) : /\ n[i].owner = eps[i].owner /\ n[i].dev = eps[i].dev
                                  /\ n[i].addr = eps[i].addr /\ n[i].port = eps[i].port
                                  /\ n[i].peer = eps[i].peer
  <2>1. ASSUME NEW e \in EndPointRecords, NEW f, f = [e EXCEPT !.rx = FALSE]
        PROVE  f \in EndPointRecords /\ f.owner = e.owner /\ f.addr = e.addr /\ f.port = e.port /\ f.peer = e.peer /\ f.dev = e.dev
    BY <2>1 DEF EndPointRecords
  <2>2. \A i \in 1 .. Len(eps) : n[i] = IF i \in OwnOf(eps, z) THEN [eps[i] EXCEPT !.rx = FALSE] ELSE eps[i]
    BY <1>5, <1>6
  <2>3. n \in [1 .. Len(eps) -> EndPointRecords]
    BY <1>5, <1>6, <2>1
  <2> QED
    BY <1>6, <2>1, <2>2, <2>3
<1>8. r \in [UdpSocks -> Sockets]
  BY <1>3, <1>4 DEF Sockets
<1>9. \A t \in UdpSocks : /\ r[t].bound = socks[t].bound /\ r[t].dev = socks[t].dev /\ r[t].moved = socks[t].moved
                          /\ r[t].queue = socks[t].queue /\ r[t].rxAvailable = socks[t].rxAvailable
  BY <1>3, <1>4 DEF Sockets
<1>10. Kept(n, r)
  BY <1>3, <1>7, <1>8, <1>9, Relabelled
<1>11. Counted(r)
  BY <1>3, <1>9, CountsStay, Zenon
<1> QED
  BY <1>2, <1>10, <1>11, Zenon

LEMMA CloseKeeps ==
  ASSUME UdpInv, NEW z \in UdpSocks, UdpClose(z)
  PROVE  Kept(endPoints', udpSock') /\ Counted(udpSock')
<1>1. PICK eps, socks : eps = endPoints /\ socks = udpSock
  OBVIOUS
<1>2. PICK n, r : n = endPoints' /\ r = udpSock'
  OBVIOUS
<1>3. /\ Kept(eps, socks) /\ Counted(socks) /\ socks \in [UdpSocks -> Sockets] /\ Owners(eps, socks)
      /\ eps \in Seq(EndPointRecords)
  BY <1>1, KeptNow
<1>4. CASE udpSock[z].shutRecv /\ udpSock[z].shutSend
  <2>1. n = eps /\ r = socks
    BY <1>1, <1>2, <1>4, Zenon DEF UdpClose
  <2> QED
    BY <1>2, <1>3, <2>1, Zenon
<1>5. CASE ~(udpSock[z].shutRecv /\ udpSock[z].shutSend)
  <2>1. r = [socks EXCEPT ![z].shutRecv = TRUE, ![z].shutSend = TRUE, ![z].bound = FALSE]
    BY <1>1, <1>2, <1>5, Zenon DEF UdpClose
  <2>2. n = IF OwnOf(eps, z) = {} THEN eps ELSE RemoveAt(eps, CHOOSE i \in OwnOf(eps, z) : TRUE)
    BY <1>1, <1>2, <1>5, OwnIs, Zenon DEF UdpClose
  <2>3. r \in [UdpSocks -> Sockets]
    BY ZenonT(40), ZenonT(40), <1>3, <2>1 DEF Sockets
  <2>4. \A t \in UdpSocks : /\ r[t].dev = socks[t].dev /\ r[t].moved = socks[t].moved
                            /\ r[t].queue = socks[t].queue /\ r[t].rxAvailable = socks[t].rxAvailable
    BY <1>3, <2>1 DEF Sockets
  <2>5. \A t \in UdpSocks : r[t].bound = (socks[t].bound /\ t # z)
    BY <1>3, <2>1 DEF Sockets
  <2>6. Counted(r)
    BY <1>3, <2>4, CountsStay, Zenon
  <2>7. CASE OwnOf(eps, z) = {}
    <3>1. n = eps
      BY <2>2, <2>7, Zenon
    <3>2. socks[z].bound = FALSE
      <4>1. socks[z].bound \in BOOLEAN
        BY <1>3, Fields
      <4>2. ~socks[z].bound
        <5>1. socks[z].bound => \E i \in DOMAIN eps : OwnOf(eps, z) = {i}
          BY <1>3, Zenon DEF Owners
        <5> QED
          BY <2>7, <5>1
      <4> QED
        BY <4>1, <4>2
    <3>3. \A t \in UdpSocks : r[t].bound = socks[t].bound
      BY <2>5, <3>2, Fields, <1>3
    <3>4. Kept(n, r)
      BY <1>3, <2>3, <2>4, <3>1, <3>3, Relabelled
    <3> QED
      BY <1>2, <2>6, <3>4, Zenon
  <2>8. CASE OwnOf(eps, z) # {}
    <3>1. PICK k : OwnOf(eps, z) = {k}
      BY <1>3, <2>8, Zenon DEF Owners
    <3>2. (CHOOSE i \in OwnOf(eps, z) : TRUE) = k
      BY <3>1
    <3>3. n = RemoveAt(eps, k)
      BY <2>2, <2>8, <3>2, Zenon
    <3>4. Kept(n, r)
      BY <1>3, <2>3, <2>4, <2>5, <3>1, <3>3, EndPointRemoved
    <3> QED
      BY <1>2, <2>6, <3>4, Zenon
  <2> QED
    BY <2>7, <2>8
<1> QED
  BY <1>4, <1>5

\* A packet is queued, or one is taken out.
LEMMA ForwardUpKeeps ==
  ASSUME UdpInv, NEW z \in UdpSocks, NEW size \in {1, 2}, UdpForwardUp(z, size), endPoints' = endPoints
  PROVE  Kept(endPoints', udpSock') /\ Counted(udpSock') /\ \A s \in UdpSocks : udpSock'[s].dev = udpSock[s].dev
<1>1. PICK eps, socks : eps = endPoints /\ socks = udpSock
  OBVIOUS
<1>2. PICK n, r : n = endPoints' /\ r = udpSock'
  OBVIOUS
<1>3. /\ Kept(eps, socks) /\ Counted(socks) /\ socks \in [UdpSocks -> Sockets] /\ eps \in Seq(EndPointRecords)
      /\ socks[z].queue \in Seq(Nat) /\ socks[z].rxAvailable \in 0 .. UdpRcvBuf
  BY <1>1, KeptNow, Fields
<1>4. CASE udpSock[z].shutRecv \/ udpSock[z].rxAvailable + size > UdpRcvBuf
  <2>1. r = socks
    BY <1>1, <1>2, <1>4, Zenon DEF UdpForwardUp
  <2> QED
    BY <1>1, <1>2, <1>3, <2>1, Zenon
<1>5. CASE ~(udpSock[z].shutRecv \/ udpSock[z].rxAvailable + size > UdpRcvBuf)
  <2>1. r = [socks EXCEPT ![z].queue = Append(@, size), ![z].rxAvailable = @ + size]
    BY <1>1, <1>2, <1>5, Zenon DEF UdpForwardUp
  <2>2. PICK q, a : q = Append(socks[z].queue, size) /\ a = socks[z].rxAvailable + size
    OBVIOUS
  <2>3. q \in Seq(Nat) /\ a \in 0 .. UdpRcvBuf
    BY <1>1, <1>3, <1>5, <2>2, UdpAssumption DEF UdpAssumption
  <2>4. r = [socks EXCEPT ![z].queue = q, ![z].rxAvailable = a]
    BY <2>1, <2>2, Zenon
  <2>5. r \in [UdpSocks -> Sockets]
    <3>1. PICK v : v = [socks[z] EXCEPT !.queue = q, !.rxAvailable = a]
      OBVIOUS
    <3>2. socks[z] \in Sockets
      BY <1>3
    <3>3. v \in Sockets
      BY <2>3, <3>1, <3>2 DEF Sockets
    <3>4. r = [socks EXCEPT ![z] = v]
      BY <2>4, <3>1
    <3> QED
      BY <1>3, <3>3, <3>4
  <2>6. \A t \in UdpSocks : r[t].bound = socks[t].bound /\ r[t].dev = socks[t].dev /\ r[t].moved = socks[t].moved
    BY <1>3, <2>4 DEF Sockets
  <2>7. r[z].queue = q /\ r[z].rxAvailable = a /\ \A t \in UdpSocks \ {z} : r[t] = socks[t]
    BY <1>3, <2>4 DEF Sockets
  <2>8. n = eps
    BY <1>1, <1>2
  <2>9. Kept(n, r)
    BY <1>3, <2>5, <2>6, <2>8, Relabelled
  <2>10. a = Total(q)
    <3>1. socks[z].queue \in Seq(Int) /\ size \in Int /\ socks[z].rxAvailable \in Int
      BY <1>3
    <3>2. Total(q) = Total(socks[z].queue) + size
      BY <2>2, <3>1, TotalAppend
    <3> QED
      BY <1>3, <2>2, <3>2, Zenon DEF Counted
  <2>11. Counted(r)
    BY <1>3, <2>7, <2>10, Zenon DEF Counted
  <2> QED
    BY <1>1, <1>2, <2>6, <2>9, <2>11, Zenon
<1> QED
  BY <1>4, <1>5

LEMMA RecvFromKeeps ==
  ASSUME UdpInv, NEW z \in UdpSocks, NEW maxSize, RecvFrom(z, maxSize)
  PROVE  Kept(endPoints', udpSock') /\ Counted(udpSock')
<1>1. PICK eps, socks : eps = endPoints /\ socks = udpSock
  OBVIOUS
<1>2. PICK n, r : n = endPoints' /\ r = udpSock'
  OBVIOUS
<1>3. /\ Kept(eps, socks) /\ Counted(socks) /\ socks \in [UdpSocks -> Sockets] /\ eps \in Seq(EndPointRecords)
      /\ socks[z].queue \in Seq(Nat) /\ socks[z].rxAvailable \in 0 .. UdpRcvBuf
  BY <1>1, KeptNow, Fields
<1>4. /\ socks[z].queue # << >> /\ n = eps
      /\ r = [socks EXCEPT ![z].queue = Tail(@), ![z].rxAvailable = @ - Head(socks[z].queue)]
  BY <1>1, <1>2, Zenon DEF RecvFrom
<1>5. PICK o, q, a : o = socks[z].queue /\ q = Tail(o) /\ a = socks[z].rxAvailable - Head(o)
  OBVIOUS
<1>6. o \in Seq(Nat) /\ o \in Seq(Int) /\ o # << >>
  BY <1>3, <1>4, <1>5
<1>7. q \in Seq(Nat) /\ Head(o) \in Nat /\ Total(o) = Head(o) + Total(q) /\ Total(q) \in Nat
  <2>1. q \in Seq(Nat) /\ Head(o) \in Nat
    BY <1>5, <1>6
  <2>2. Total(o) = Head(o) + Total(q)
    BY <1>5, <1>6, TotalTail
  <2>3. Total(q) \in Nat
    BY <2>1, TotalNat
  <2> QED
    BY <2>1, <2>2, <2>3
<1>8. Total(o) = socks[z].rxAvailable
  BY <1>3, <1>5, Zenon DEF Counted
<1>9. a = Total(q) /\ a \in 0 .. UdpRcvBuf
  BY SMTT(40), <1>3, <1>5, <1>7, <1>8, UdpAssumption DEF UdpAssumption
<1>10. r = [socks EXCEPT ![z].queue = q, ![z].rxAvailable = a]
  BY <1>4, <1>5, Zenon
<1>11. r \in [UdpSocks -> Sockets]
  BY ZenonT(40), ZenonT(40), <1>3, <1>7, <1>9, <1>10 DEF Sockets
<1>12. \A t \in UdpSocks : r[t].bound = socks[t].bound /\ r[t].dev = socks[t].dev /\ r[t].moved = socks[t].moved
  BY <1>3, <1>10 DEF Sockets
<1>13. r[z].queue = q /\ r[z].rxAvailable = a /\ \A t \in UdpSocks \ {z} : r[t] = socks[t]
  BY <1>3, <1>10 DEF Sockets
<1>14. Kept(n, r)
  BY <1>3, <1>4, <1>11, <1>12, Relabelled
<1>15. Counted(r)
  BY <1>3, <1>9, <1>13, Zenon DEF Counted
<1> QED
  BY <1>2, <1>14, <1>15, Zenon

LEMMA ShutdownSendKeeps ==
  ASSUME UdpInv, NEW z \in UdpSocks, UdpShutdownSend(z)
  PROVE  Kept(endPoints', udpSock') /\ Counted(udpSock')
<1>1. PICK eps, socks : eps = endPoints /\ socks = udpSock
  OBVIOUS
<1>2. PICK n, r : n = endPoints' /\ r = udpSock'
  OBVIOUS
<1>3. /\ Kept(eps, socks) /\ Counted(socks) /\ socks \in [UdpSocks -> Sockets] /\ eps \in Seq(EndPointRecords)
  BY <1>1, KeptNow
<1>4. n = eps /\ r = [socks EXCEPT ![z].shutSend = TRUE]
  BY <1>1, <1>2, Zenon DEF UdpShutdownSend
<1>5. r \in [UdpSocks -> Sockets]
  BY <1>3, <1>4 DEF Sockets
<1>6. \A t \in UdpSocks : /\ r[t].bound = socks[t].bound /\ r[t].dev = socks[t].dev /\ r[t].moved = socks[t].moved
                          /\ r[t].queue = socks[t].queue /\ r[t].rxAvailable = socks[t].rxAvailable
  BY <1>3, <1>4 DEF Sockets
<1>7. Kept(n, r)
  BY <1>3, <1>4, <1>5, <1>6, Relabelled
<1>8. Counted(r)
  BY <1>3, <1>6, CountsStay, Zenon
<1> QED
  BY <1>2, <1>7, <1>8, Zenon

\* A listening socket forks an endpoint for a peer.
LEMMA ReceiveSynKeeps ==
  ASSUME UdpInv, NEW dport \in FixedPorts, NEW peer \in Peers, NEW dev \in NetIfs, ReceiveSyn(dport, peer, dev)
  PROVE  /\ Kept(endPoints', udpSock') /\ Counted(udpSock')
         /\ Cardinality(LookupEndPoint(Addr(dev), dport, peer, dev)) > 1 => endPoints' = endPoints
<1> DEFINE found == LookupEndPoint(Addr(dev), dport, peer, dev)
           e == endPoints[CHOOSE i \in found : TRUE]
           may == Cardinality(found) = 1 /\ e.peer = NoPeer /\ MayFork(udpSock[e.owner].dev, Addr(dev), dport, peer)
<1>1. /\ endPoints' = IF may THEN Append(endPoints, EndPoint(e.owner, udpSock[e.owner].dev, Addr(dev), dport, peer)) ELSE endPoints
      /\ udpSock' = udpSock
  BY DEF ReceiveSyn
<1>2. Kept(endPoints, udpSock) /\ Counted(udpSock)
  BY KeptNow
<1>3. CASE ~may
  <2>1. endPoints' = endPoints
    BY <1>1, <1>3, Zenon
  <2> QED
    BY <1>1, <1>2, <2>1, Zenon
<1>4. CASE may
  <2>1. e \in EndPointRecords /\ e.owner \in UdpSocks
    <3>1. found \subseteq DOMAIN endPoints
      BY DEF LookupEndPoint, Matching
    <3>2. Cardinality(found) = 1
      BY <1>4
    <3> HIDE DEF found, e
    <3>3. PICK k \in DOMAIN endPoints : k = CHOOSE i \in found : TRUE
      BY <3>1, <3>2, ReceiverIs
    <3>4. endPoints[k] \in EndPointRecords /\ endPoints[k].owner \in UdpSocks
      BY <1>2, Fields
    <3> QED
      BY <3>3, <3>4, Zenon DEF e
  <2>2. MayFork(udpSock[e.owner].dev, Addr(dev), dport, peer) /\ Cardinality(found) = 1
    BY <1>4
  <2> HIDE DEF found, e, may
  <2>3. PICK s \in UdpSocks, d \in Devs : s = e.owner /\ d = udpSock[s].dev
    BY <1>2, <2>1, Fields
  <2>4. PICK f : f = EndPoint(s, d, Addr(dev), dport, peer)
    OBVIOUS
  <2>5. dport \in Nat \ {0} /\ Addr(dev) \in Addrs /\ peer # NoPeer
    BY UdpAssumption DEF UdpAssumption, Addrs, Peers, NoPeer
  <2>6. /\ f \in EndPointRecords /\ f.owner = s /\ f.dev = d /\ f.addr = Addr(dev) /\ f.port = dport /\ f.peer = peer
    BY <2>4, <2>5, NewEndPoint
  <2>7. endPoints' = Append(endPoints, f)
    BY <1>1, <1>4, <2>3, <2>4, Zenon
  <2>8. \A i \in DOMAIN endPoints : endPoints[i].port = dport /\ endPoints[i].addr = Addr(dev) /\ endPoints[i].peer = peer
            => endPoints[i].dev \notin {d, NoDev}
    BY <2>2, <2>3 DEF MayFork, EndPoints
  <2>9. IsFree(endPoints, f)
    BY <2>6, <2>8 DEF IsFree
  <2>10. Kept(endPoints', udpSock')
    <3>1. PICK eps, socks : eps = endPoints /\ socks = udpSock
      OBVIOUS
    <3>2. PICK n : n = endPoints'
      OBVIOUS
    <3>3. Kept(eps, socks) /\ IsFree(eps, f) /\ n = Append(eps, f) /\ socks \in [UdpSocks -> Sockets]
      BY <1>2, <2>7, <2>9, <3>1, <3>2, KeptNow
    <3>4. f.dev = socks[f.owner].dev /\ (f.peer = NoPeer => ~socks[f.owner].bound)
      BY <2>3, <2>5, <2>6, <3>1, Zenon
    <3>5. \A t \in UdpSocks : /\ socks[t].dev = socks[t].dev /\ socks[t].moved = socks[t].moved
                              /\ socks[t].bound = (socks[t].bound \/ (t = f.owner /\ f.peer = NoPeer))
      <4>1. \A t \in UdpSocks : socks[t].bound \in BOOLEAN
        BY <3>3, Fields
      <4> QED
        BY <2>5, <2>6, <4>1
    <3>6. Kept(n, socks)
      BY <2>6, <3>3, <3>4, <3>5, EndPointAdded
    <3> QED
      BY <1>1, <3>1, <3>2, <3>6, Zenon
  <2>11. Counted(udpSock')
    BY <1>1, <1>2, Zenon
  <2>12. ~(Cardinality(found) > 1)
    BY <2>2
  <2> QED
    BY <2>10, <2>11, <2>12 DEF found
<1> QED
  BY <1>3, <1>4

----------------------------------------------------------------------------
(* The invariant.                                                          *)

LEMMA InitUdpInv == UdpInit => UdpInv
<1> SUFFICES ASSUME UdpInit
             PROVE  UdpInv
  OBVIOUS
<1>1. /\ endPoints = << >> /\ udpSock = [s \in UdpSocks |-> NewUdpSocket]
      /\ m_ephemeral = m_portLast /\ crashed = FALSE /\ udpOps = 0
  BY DEF UdpInit
<1>2. NewUdpSocket \in Sockets
  BY UdpAssumption DEF UdpAssumption, NewUdpSocket, Sockets, Devs
<1>3. /\ NewUdpSocket.bound = FALSE /\ NewUdpSocket.moved = FALSE
      /\ NewUdpSocket.queue = << >> /\ NewUdpSocket.rxAvailable = 0
  BY DEF NewUdpSocket
<1>4. DOMAIN endPoints = {} /\ endPoints \in Seq(EndPointRecords)
  BY <1>1
<1>5. \A s \in UdpSocks : udpSock[s] = NewUdpSocket
  BY <1>1
<1>6. \A s : OwnOf(endPoints, s) = {}
  BY <1>4 DEF OwnOf
<1>7. Kept(endPoints, udpSock)
  <2>1. udpSock \in [UdpSocks -> Sockets]
    BY <1>1, <1>2
  <2>2. Owners(endPoints, udpSock)
    BY <1>3, <1>5, <1>6 DEF Owners
  <2>3. PartedAll(endPoints, udpSock) /\ OnDevice(endPoints, udpSock)
    BY <1>3, <1>4, <1>5 DEF PartedAll, OnDevice
  <2> QED
    BY <1>4, <2>1, <2>2, <2>3, Zenon DEF Kept
<1>8. Counted(udpSock)
  BY <1>3, <1>5, TotalEmpty, Zenon DEF Counted
<1>9. MaxUdpOps \in Nat /\ m_portLast \in Ports
  BY UdpAssumption, PortsArePorts DEF UdpAssumption
<1> QED
  <2>1. m_ephemeral \in Ports /\ crashed \in BOOLEAN /\ udpOps \in 0 .. MaxUdpOps
    <3>1. m_ephemeral \in Ports /\ crashed \in BOOLEAN
      BY <1>1, <1>9, Zenon
    <3>2. udpOps \in 0 .. MaxUdpOps
      BY <1>1, <1>9
    <3> QED
      BY <3>1, <3>2
  <2>2. CrashNeedsDevice
    BY <1>1 DEF CrashNeedsDevice
  <2> QED
    BY <1>7, <1>8, <2>1, <2>2, Zenon DEF UdpInv

\* What remains for each operation: the crash, and the ephemeral port.
LEMMA UdpStepInv ==
  ASSUME UdpInv, UdpStep, Kept(endPoints', udpSock'), Counted(udpSock'), m_ephemeral' \in Ports,
         crashed' \in BOOLEAN, crashed' => Somewhere'
  PROVE  UdpInv'
<1>1. udpOps' \in 0 .. MaxUdpOps
  BY UdpAssumption DEF UdpAssumption, UdpInv, UdpStep
<1>2. CrashNeedsDevice'
  BY Zenon DEF CrashNeedsDevice, Somewhere
<1> QED
  BY <1>1, <1>2 DEF UdpInv

LEMMA UdpInvStep == UdpInv /\ [UdpNext]_udpVars => UdpInv'
<1> SUFFICES ASSUME UdpInv, [UdpNext]_udpVars
             PROVE  UdpInv'
  OBVIOUS
<1>1. m_ephemeral \in Ports /\ crashed \in BOOLEAN /\ Kept(endPoints, udpSock) /\ Counted(udpSock)
  BY DEF UdpInv
<1>2. ASSUME UdpStep, UNCHANGED crashed
      PROVE  crashed' \in BOOLEAN /\ (crashed' => Somewhere')
  BY <1>1, <1>2 DEF UdpStep
<1>3. ASSUME NEW s \in UdpSocks, NEW addr \in {AnyAddr} \cup {Addr(d) : d \in NetIfs} \cup {Net(d) : d \in NetIfs},
             NEW port \in {0} \cup FixedPorts, UdpBind(s, addr, port)
      PROVE  UdpInv'
  <2>1. UdpStep /\ ~udpSock[s].bound /\ UNCHANGED crashed /\ addr \in Addrs
    BY <1>3 DEF UdpBind, Addrs
  <2>2. CASE port = 0
    <3>1. BindEphemeral(s, addr)
      BY <1>3, <2>2, Zenon DEF UdpBind
    <3> QED
      BY <1>2, <2>1, <3>1, BindEphemeralKeeps, UdpStepInv, Zenon
  <2>3. CASE port # 0
    <3>1. BindPort(s, addr, port)
      BY <1>3, <2>3, Zenon DEF UdpBind
    <3>2. port \in Nat \ {0}
      BY <2>3, UdpAssumption DEF UdpAssumption
    <3> QED
      BY <1>2, <2>1, <3>1, <3>2, BindPortKeeps, UdpStepInv, Zenon
  <2> QED
    BY <2>2, <2>3
<1>4. ASSUME NEW s \in UdpSocks, NEW d \in NetIfs, BindToNetDevice(s, d)
      PROVE  UdpInv'
  <2>1. UdpStep /\ UNCHANGED <<m_ephemeral, crashed>>
    BY <1>4 DEF BindToNetDevice
  <2> QED
    BY <1>1, <1>2, <1>4, <2>1, BindToNetDeviceKeeps, UdpStepInv, Zenon
<1>5. ASSUME NEW s \in UdpSocks, SendTo(s)
      PROVE  UdpInv'
  <2>1. UdpStep
    BY <1>5 DEF SendTo
  <2>2. CASE udpSock[s].bound
    <3>1. UNCHANGED <<endPoints, udpSock, m_ephemeral, crashed>>
      BY <1>5, <2>2, Zenon DEF SendTo
    <3> QED
      BY <1>1, <1>2, <2>1, <3>1, UdpStepInv, Zenon
  <2>3. CASE ~udpSock[s].bound
    <3>1. /\ BindEphemeral(s, AnyAddr)
          /\ crashed' = (AllocateEphemeralPort = 0 /\ udpSock[s].dev # NoDev)
      BY <1>5, <2>3, Zenon DEF SendTo
    <3>2. AnyAddr \in Addrs
      BY DEF Addrs
    <3>3. crashed' \in BOOLEAN
      BY <3>1
    <3>4. ASSUME crashed'
          PROVE  Somewhere'
      <4>1. AllocateEphemeralPort = 0 /\ udpSock[s].dev # NoDev
        BY <3>1, <3>4
      <4>2. udpSock' = udpSock
        BY <3>1, <4>1, Zenon DEF BindEphemeral
      <4> QED
        BY <4>1, <4>2 DEF Somewhere
    <3> QED
      BY <2>1, <2>3, <3>1, <3>2, <3>3, <3>4, BindEphemeralKeeps, UdpStepInv, Zenon
  <2> QED
    BY <2>2, <2>3
<1>6. ASSUME NEW s \in UdpSocks, UdpShutdownSend(s)
      PROVE  UdpInv'
  <2>1. UdpStep /\ UNCHANGED <<m_ephemeral, crashed>>
    BY <1>6 DEF UdpShutdownSend
  <2> QED
    BY <1>1, <1>2, <1>6, <2>1, ShutdownSendKeeps, UdpStepInv, Zenon
<1>7. ASSUME NEW s \in UdpSocks, UdpShutdownRecv(s)
      PROVE  UdpInv'
  <2>1. UdpStep /\ UNCHANGED <<m_ephemeral, crashed>>
    BY <1>7 DEF UdpShutdownRecv
  <2> QED
    BY <1>1, <1>2, <1>7, <2>1, ShutdownRecvKeeps, UdpStepInv, Zenon
<1>8. ASSUME NEW s \in UdpSocks, UdpClose(s)
      PROVE  UdpInv'
  <2>1. UdpStep /\ UNCHANGED <<m_ephemeral, crashed>>
    BY <1>8 DEF UdpClose
  <2> QED
    BY <1>1, <1>2, <1>8, <2>1, CloseKeeps, UdpStepInv, Zenon
<1>9. ASSUME NEW d \in NetIfs, NEW port \in FixedPorts \cup m_portFirst .. m_portLast, NEW size \in {1, 2},
             NEW daddr \in {Addr(d), Bcast(d)}, UdpReceive(daddr, port, d, size)
      PROVE  UdpInv'
  <2> DEFINE found == LookupEndPoint(daddr, port, 1, d)
  <2>1. /\ UdpStep /\ UNCHANGED <<endPoints, m_ephemeral>> /\ crashed' = (Cardinality(found) > 1)
        /\ IF Cardinality(found) = 1 THEN UdpForwardUp(endPoints[CHOOSE i \in found : TRUE].owner, size)
           ELSE UNCHANGED udpSock
    BY <1>9 DEF UdpReceive
  <2>2. found \subseteq DOMAIN endPoints
    BY DEF LookupEndPoint, Matching
  <2>3. Cardinality(found) > 1 => Somewhere
    BY CrashOnReceive DEF Peers
  <2> HIDE DEF found
  <2>4. Kept(endPoints', udpSock') /\ Counted(udpSock') /\ \A s \in UdpSocks : udpSock'[s].dev = udpSock[s].dev
    <3>1. CASE Cardinality(found) = 1
      <4>1. PICK k \in DOMAIN endPoints : k = CHOOSE i \in found : TRUE
        BY <2>2, <3>1, ReceiverIs
      <4>2. endPoints[k].owner \in UdpSocks
        BY <1>1, Fields
      <4>3. UdpForwardUp(endPoints[k].owner, size)
        BY <2>1, <3>1, <4>1, Zenon
      <4> QED
        BY <2>1, <4>2, <4>3, ForwardUpKeeps, Zenon
    <3>2. CASE Cardinality(found) # 1
      <4>1. udpSock' = udpSock /\ endPoints' = endPoints
        BY <2>1, <3>2, Zenon
      <4> QED
        BY <1>1, <4>1, Zenon
    <3> QED
      BY <3>1, <3>2
  <2>5. crashed' \in BOOLEAN
    BY <2>1
  <2>6. ASSUME crashed'
        PROVE  Somewhere'
    <3>1. Somewhere
      BY <2>1, <2>3, <2>6
    <3>2. EndPoints' = EndPoints
      BY <2>1 DEF EndPoints
    <3> QED
      BY <2>4, <3>1, <3>2, Zenon DEF Somewhere, Net
  <2>7. m_ephemeral' \in Ports
    BY <1>1, <2>1, Zenon
  <2> QED
    BY <2>1, <2>4, <2>5, <2>6, <2>7, UdpStepInv, Zenon
<1>10. ASSUME NEW d \in NetIfs, NEW port \in FixedPorts, NEW peer \in Peers, ReceiveSyn(port, peer, d)
       PROVE  UdpInv'
  <2> DEFINE found == LookupEndPoint(Addr(d), port, peer, d)
  <2>1. /\ UdpStep /\ UNCHANGED <<udpSock, m_ephemeral>> /\ crashed' = (Cardinality(found) > 1)
    BY <1>10 DEF ReceiveSyn
  <2>2. Cardinality(found) > 1 => Somewhere
    BY CrashOnReceive
  <2>3. Kept(endPoints', udpSock') /\ Counted(udpSock') /\ (Cardinality(found) > 1 => endPoints' = endPoints)
    BY <1>10, ReceiveSynKeeps
  <2> HIDE DEF found
  <2>4. crashed' \in BOOLEAN
    BY <2>1
  <2>5. ASSUME crashed'
        PROVE  Somewhere'
    <3>1. Somewhere /\ endPoints' = endPoints /\ udpSock' = udpSock
      BY <2>1, <2>2, <2>3, <2>5
    <3>2. EndPoints' = EndPoints
      BY <3>1 DEF EndPoints
    <3> QED
      BY <3>1, <3>2, Zenon DEF Somewhere, Net
  <2>6. m_ephemeral' \in Ports
    BY <1>1, <2>1, Zenon
  <2> QED
    BY <2>1, <2>3, <2>4, <2>5, <2>6, UdpStepInv, Zenon
<1>11. ASSUME NEW s \in UdpSocks, NEW maxSize \in {1, 2}, RecvFrom(s, maxSize)
       PROVE  UdpInv'
  <2>1. UdpStep /\ UNCHANGED <<m_ephemeral, crashed>>
    BY <1>11 DEF RecvFrom
  <2> QED
    BY <1>1, <1>2, <1>11, <2>1, RecvFromKeeps, UdpStepInv, Zenon
<1>12. ASSUME UNCHANGED udpVars
       PROVE  UdpInv'
  <2>1. UNCHANGED <<endPoints, udpSock, m_ephemeral, crashed, udpOps>>
    BY <1>12 DEF udpVars
  <2>2. EndPoints' = EndPoints
    BY <2>1 DEF EndPoints
  <2> QED
    BY <2>1, <2>2 DEF UdpInv, CrashNeedsDevice, Net
<1> QED
  BY <1>3, <1>4, <1>5, <1>6, <1>7, <1>8, <1>9, <1>10, <1>11, <1>12 DEF UdpNext

THEOREM UdpInvHolds == UdpSpec => []UdpInv
BY InitUdpInv, UdpInvStep, PTL DEF UdpSpec

\* UdpTypeOK: endpoints have a socket and a port, and no socket has more bytes
\* than m_rcvBufSize.
THEOREM UdpTypeCorrect == UdpSpec => []UdpTypeOK
<1>1. ASSUME UdpInv
      PROVE  UdpTypeOK
  <2>1. Kept(endPoints, udpSock) /\ m_ephemeral \in Ports /\ crashed \in BOOLEAN /\ udpOps \in 0 .. MaxUdpOps
    BY <1>1 DEF UdpInv
  <2>2. \A e \in EndPoints : e.owner \in UdpSocks /\ e.dev \in NetIfs \cup {NoDev} /\ e.port \in Nat \ {0}
    BY <2>1, Fields DEF EndPoints, Devs
  <2>3. \A s \in UdpSocks : udpSock[s].dev \in NetIfs \cup {NoDev} /\ udpSock[s].rxAvailable \in 0 .. UdpRcvBuf
    BY <2>1, Fields DEF Devs
  <2> QED
    BY <2>1, <2>2, <2>3 DEF UdpTypeOK, Ports
<1> QED
  BY UdpInvHolds, <1>1, PTL

\* EndPointsRight: a packet has at most one endpoint unless devices or subnets
\* were bound to, a bound socket has one endpoint on its device, Allocate
\* keeps endpoints apart, and the bytes available are those in the queue.
THEOREM EndPointsRightHolds == UdpSpec => []EndPointsRight
<1>1. ASSUME UdpInv
      PROVE  EndPointsRight
  <2>1. Owners(endPoints, udpSock) /\ PartedAll(endPoints, udpSock) /\ Counted(udpSock) /\ CrashNeedsDevice
    BY <1>1 DEF UdpInv, Kept
  <2>2. OneEndPoint
    <3>1. SUFFICES ASSUME NEW s \in UdpSocks
                   PROVE  /\ Cardinality(OwnOf(endPoints, s)) = IF udpSock[s].bound THEN 1 ELSE 0
                          /\ \A i \in OwnOf(endPoints, s) : endPoints[i].dev = udpSock[s].dev
      BY OwnIs, Zenon DEF OneEndPoint
    <3>2. /\ udpSock[s].bound => \E i \in DOMAIN endPoints : OwnOf(endPoints, s) = {i}
          /\ ~udpSock[s].bound => OwnOf(endPoints, s) = {}
          /\ \A i \in OwnOf(endPoints, s) : endPoints[i].dev = udpSock[s].dev
      BY <2>1, Zenon DEF Owners
    <3>3. CASE udpSock[s].bound
      <4>1. PICK i : OwnOf(endPoints, s) = {i}
        BY <3>2, <3>3
      <4>2. Cardinality({i}) = 1
        BY FS_Singleton
      <4> QED
        BY <3>2, <3>3, <4>1, <4>2, Zenon
    <3>4. CASE ~udpSock[s].bound
      BY <3>2, <3>4, FS_EmptySet
    <3> QED
      BY <3>3, <3>4
  <2>3. AddressesApart
    BY <2>1 DEF PartedAll, Parted, AddressesApart
  <2>4. RxCounted
    BY <2>1 DEF Counted, RxCounted
  <2> QED
    BY <2>1, <2>2, <2>3, <2>4, Zenon DEF EndPointsRight
<1> QED
  BY UdpInvHolds, <1>1, PTL

----------------------------------------------------------------------------
(* Web pages.                                                              *)

Requests == {"MAIN", "EMBEDDED"}
ClientEvents == {"RequestMain", "RequestEmbedded", "Parse"}
ClientStates == {"NOT_STARTED", "CONNECTING", "EXPECTING_MAIN_OBJECT", "PARSING_MAIN_OBJECT",
                 "EXPECTING_EMBEDDED_OBJECT", "READING", "STOPPED"}
TxBuffers == [size : Nat, isClosing : BOOLEAN, hasTxedPart : BOOLEAN, known : BOOLEAN]
Parts == Nat \cup {Fin}

HttpTyped ==
  /\ m_state \in ClientStates /\ m_objectBytesToBeReceived \in Nat
  /\ m_embeddedObjectsToBeRequested \in 0 .. MaxEmbedded
  /\ \E e \in ClientEvents : scheduled = {} \/ scheduled = {e}
  /\ m_txBuffer \in TxBuffers /\ serves \in Seq(Requests) /\ down \in Seq(Parts)
  /\ up \in Seq(Requests \cup {"FIN"}) /\ link \in {"none", "opening", "half", "open", "broken"}
  /\ fatal \in {"none", "closed"} /\ quiet \in BOOLEAN

\* The server ended the stream; the elements before the end; a request that
\* the server has not read.
Ended(d) == Len(d) > 0 /\ d[Len(d)] = Fin
Sent(d) == IF Ended(d) THEN Len(d) - 1 ELSE Len(d)
Asked(u) == Len(u) > 0 /\ u[1] # "FIN"

\* A stream ends once: requests and parts come before.
StreamsEnd ==
  /\ Len(up) <= 2 /\ (Len(up) = 2 => up[1] # "FIN" /\ up[2] = "FIN")
  /\ m_state # "STOPPED" => Len(up) <= 1 /\ (Len(up) > 0 => up[1] # "FIN")
  /\ \A i \in 1 .. Len(down) - 1 : down[i] # Fin
  /\ Ended(down) => ~m_txBuffer.known

\* The server does one thing at a time, whatever the client and the link do.
ServerInTurn ==
  /\ Len(serves) <= 1
  /\ Len(serves) > 0 => m_txBuffer.known /\ m_txBuffer.size = 0 /\ ~Asked(up)
  /\ m_txBuffer.size > 0 => m_txBuffer.known /\ ~Asked(up)
  /\ ClosingHasMore

\* What each state of the link allows.
LinkAllows ==
  /\ ~Connected => Len(up) = 0 /\ Len(down) = 0
  /\ link \in {"none", "opening", "half"} => ~m_txBuffer.known /\ Len(down) = 0
  /\ link \in {"none", "opening"} => scheduled = {} /\ m_objectBytesToBeReceived = 0
  /\ link = "opening" => m_state = "CONNECTING"
  /\ m_state = "NOT_STARTED" => link = "none"
  /\ quiet => m_state # "STOPPED" /\ link # "broken" /\ ~Ended(down) /\ ~m_txBuffer.isClosing

\* An event finds the client in a state that expects it.
EventsFit ==
  /\ m_state = "STOPPED" => scheduled = {}
  /\ "RequestMain" \in scheduled => m_state \in {"CONNECTING", "READING"}
  /\ "RequestEmbedded" \in scheduled => m_state \in {"PARSING_MAIN_OBJECT", "EXPECTING_EMBEDDED_OBJECT"}
  /\ "Parse" \in scheduled => m_state = "PARSING_MAIN_OBJECT"
  /\ scheduled # {} => m_objectBytesToBeReceived = 0

\* Client and server take turns.
TakeTurns ==
  /\ scheduled # {} => Len(up) = 0 /\ Len(serves) = 0 /\ m_txBuffer.size = 0 /\ Sent(down) = 0
  /\ Len(up) > 0 \/ Len(serves) > 0 => m_objectBytesToBeReceived = 0 /\ Sent(down) = 0
  /\ Len(up) > 0 \/ Len(serves) > 0 \/ m_txBuffer.size > 0 \/ Sent(down) > 0 \/ m_objectBytesToBeReceived > 0
       => m_state \in Expecting
  /\ quiet => scheduled # {} \/ Len(up) > 0 \/ Len(serves) > 0 \/ m_txBuffer.size > 0 \/ Sent(down) > 0

\* A header comes first, and what it promises follows: with r bytes still to
\* be received, parts d are on their way and the rest waits in buffer b.
Follows(r, d, b, q) ==
  /\ \A i \in 2 .. Sent(d) : d[i] = 0
  /\ r > 0 => /\ Sent(d) > 0 => d[1] = 0
              /\ b.size > 0 => b.hasTxedPart
              /\ r >= Sent(d) + b.size /\ (q => r = Sent(d) + b.size)
  /\ r = 0 /\ Sent(d) > 0 => /\ d[1] > 0 /\ (b.size > 0 => b.hasTxedPart)
                             /\ d[1] + 1 >= Sent(d) + b.size /\ (q => d[1] + 1 = Sent(d) + b.size)
  /\ r = 0 /\ Sent(d) = 0 /\ b.size > 0 => ~b.hasTxedPart

HttpInv ==
  /\ HttpTyped /\ StreamsEnd /\ ServerInTurn /\ LinkAllows /\ EventsFit
  /\ m_state # "STOPPED" /\ Connected =>
       TakeTurns /\ Follows(m_objectBytesToBeReceived, down, m_txBuffer, quiet)

----------------------------------------------------------------------------
(* What the streams do.                                                    *)

LEMMA HttpConstants ==
  /\ ObjectSizes \subseteq Nat /\ \A n \in ObjectSizes : n > 0
  /\ MaxEmbedded \in Nat /\ HeaderSize \in Nat /\ TxRoom \in Nat /\ SizeModulus \in Nat /\ SizeModulus > 0
BY HttpAssumption DEF HttpAssumption

LEMMA EmptyIs == ASSUME NEW T, NEW s \in Seq(T) PROVE (s = << >> <=> Len(s) = 0) /\ Len(s) \in Nat
OBVIOUS

LEMMA NoParts == \A T : << >> \in Seq(T) /\ Len(<< >>) = 0
OBVIOUS

LEMMA BytesNat == ASSUME NEW d \in Seq(Parts) PROVE Bytes(d) \in Nat
<1> DEFINE s == [i \in DOMAIN d |-> IF d[i] > 0 THEN HeaderSize ELSE 1]
<1>1. s \in Seq(Nat)
  BY HttpConstants
<1>2. Bytes(d) = Total(s)
  BY DEF Bytes
<1> HIDE DEF s
<1> QED
  BY <1>1, <1>2, TotalNat

LEMMA TotalOfOnes == \A s \in Seq({1}) : Total(s) = Len(s)
<1> DEFINE S == {s \in Seq({1}) : Total(s) = Len(s)}
<1>1. << >> \in S
  <2>1. PICK s : s = << >>
    OBVIOUS
  <2>2. s \in Seq({1}) /\ Len(s) = 0 /\ Total(s) = 0
    BY <2>1, TotalEmpty
  <2> QED
    BY <2>1, <2>2
<1>2. ASSUME NEW s \in Seq({1}), NEW x \in {1}, s \in S
      PROVE  Append(s, x) \in S
  <2>1. s \in Seq(Int) /\ x \in Int /\ x = 1
    OBVIOUS
  <2>2. Total(Append(s, x)) = Total(s) + x
    BY <2>1, TotalAppend, Zenon
  <2>3. Append(s, x) \in Seq({1}) /\ Len(Append(s, x)) = Len(s) + 1 /\ Total(s) = Len(s)
    BY <1>2
  <2> QED
    BY <2>1, <2>2, <2>3
<1> HIDE DEF S
<1>3. Seq({1}) \subseteq S
  BY <1>1, <1>2, SequenceInduction
<1> QED
  BY <1>3 DEF S

\* Without a header, a stream has as many bytes as elements.
LEMMA BytesOfZeros ==
  ASSUME NEW d \in Seq(Parts), \A i \in 1 .. Len(d) : d[i] = 0
  PROVE  Bytes(d) = Len(d)
<1> DEFINE s == [i \in DOMAIN d |-> IF d[i] > 0 THEN HeaderSize ELSE 1]
<1>1. s \in Seq({1}) /\ Len(s) = Len(d)
  OBVIOUS
<1>2. Bytes(d) = Total(s)
  BY DEF Bytes
<1> HIDE DEF s
<1> QED
  BY <1>1, <1>2, TotalOfOnes

LEMMA ContentIs ==
  ASSUME NEW b \in TxBuffers, NEW room \in Nat
  PROVE  ContentSize(b, room) \in 0 .. b.size
<1>1. room - HeaderSize \in Int /\ b.size \in Nat
  BY HttpConstants DEF TxBuffers
<1>2. (room - HeaderSize) % SizeModulus \in Nat
  BY <1>1, HttpConstants
<1> QED
  BY <1>1, <1>2 DEF ContentSize

\* Stream e is d and p after it.
Chained(d, p, e) ==
  /\ e \in Seq(Parts) /\ Len(e) = Len(d) + Len(p)
  /\ \A i \in 1 .. Len(d) : e[i] = d[i]
  /\ \A i \in 1 .. Len(p) : e[Len(d) + i] = p[i]

LEMMA Concatenated ==
  ASSUME NEW d \in Seq(Parts), NEW p \in Seq(Parts), NEW e, e = d \o p
  PROVE  Chained(d, p, e)
BY DEF Chained

\* What is sent of c bytes: a header only for the first of an object.
Packet(b, c) == (IF b.hasTxedPart THEN << >> ELSE <<b.size>>) \o [i \in 1 .. c |-> 0]
IsPacket(b, c, p) ==
  /\ p \in Seq(Parts) /\ Len(p) = c + (IF b.hasTxedPart THEN 0 ELSE 1)
  /\ \A i \in 1 .. Len(p) : p[i] = IF ~b.hasTxedPart /\ i = 1 THEN b.size ELSE 0

LEMMA PacketIs ==
  ASSUME NEW b \in TxBuffers, NEW c \in Nat, b.size > 0, NEW p, p = Packet(b, c)
  PROVE  IsPacket(b, c, p)
<1> DEFINE z == [i \in 1 .. c |-> 0]
<1>1. z \in Seq(Parts) /\ Len(z) = c /\ \A i \in 1 .. c : z[i] = 0
  BY DEF Parts
<1>2. b.size \in Nat /\ b.size \in Parts
  BY DEF TxBuffers, Parts
<1> HIDE DEF z
<1>3. PICK h : h = IF b.hasTxedPart THEN << >> ELSE <<b.size>>
  OBVIOUS
<1>4. /\ h \in Seq(Parts) /\ Len(h) = (IF b.hasTxedPart THEN 0 ELSE 1)
      /\ ~b.hasTxedPart => h[1] = b.size
  BY <1>2, <1>3
<1>5. p = h \o z
  BY <1>3 DEF z, Packet
<1>6. /\ p \in Seq(Parts) /\ Len(p) = Len(h) + Len(z)
      /\ \A i \in 1 .. Len(h) : p[i] = h[i]
      /\ \A i \in 1 .. Len(z) : p[Len(h) + i] = z[i]
  <2>1. Chained(h, z, p)
    BY <1>1, <1>4, <1>5, Concatenated
  <2> QED
    BY <2>1, Zenon DEF Chained
<1>7. CASE b.hasTxedPart
  <2>1. Len(h) = 0 /\ Len(p) = c
    BY <1>1, <1>4, <1>6, <1>7
  <2>2. \A i \in 1 .. c : p[i] = 0
    BY <1>1, <1>6, <2>1
  <2> QED
    BY <1>6, <1>7, <2>1, <2>2 DEF IsPacket
<1>8. CASE ~b.hasTxedPart
  <2>1. Len(h) = 1 /\ Len(p) = c + 1 /\ p[1] = b.size
    BY <1>1, <1>4, <1>6, <1>8
  <2>2. \A i \in 2 .. c + 1 : p[i] = 0
    <3>1. SUFFICES ASSUME NEW i \in 2 .. c + 1 PROVE p[i] = 0
      OBVIOUS
    <3>2. i - 1 \in 1 .. c /\ 1 + (i - 1) = i
      OBVIOUS
    <3> QED
      BY ZenonT(40), ZenonT(40), <1>1, <1>6, <2>1, <3>2
  <2> QED
    BY <1>6, <1>8, <2>1, <2>2 DEF IsPacket
<1> QED
  BY <1>7, <1>8

\* The stream with an open end, and what the packet adds to it.
Grown(d, b, c, e) ==
  /\ e \in Seq(Parts) /\ Len(e) = Len(d) + c + (IF b.hasTxedPart THEN 0 ELSE 1)
  /\ \A i \in 1 .. Len(d) : e[i] = d[i]
  /\ ~b.hasTxedPart => e[Len(d) + 1] = b.size
  /\ \A i \in Len(d) + 1 .. Len(e) : i > Len(d) + 1 \/ b.hasTxedPart => e[i] = 0
  /\ \A i \in 1 .. Len(e) : e[i] # Fin

LEMMA Streamed ==
  ASSUME NEW d \in Seq(Parts), \A i \in 1 .. Len(d) : d[i] # Fin,
         NEW b \in TxBuffers, NEW c \in Nat, b.size > 0,
         NEW p, IsPacket(b, c, p), NEW e, Chained(d, p, e)
  PROVE  Grown(d, b, c, e)
<1>a. /\ p \in Seq(Parts) /\ Len(p) = c + (IF b.hasTxedPart THEN 0 ELSE 1)
      /\ \A i \in 1 .. Len(p) : p[i] = IF ~b.hasTxedPart /\ i = 1 THEN b.size ELSE 0
  BY Zenon DEF IsPacket
<1>b. /\ e \in Seq(Parts) /\ Len(e) = Len(d) + Len(p)
      /\ \A i \in 1 .. Len(d) : e[i] = d[i]
      /\ \A i \in 1 .. Len(p) : e[Len(d) + i] = p[i]
  BY Zenon DEF Chained
<1>1. Len(d) \in Nat /\ Len(p) \in Nat /\ Len(e) \in Nat /\ b.size \in Nat
  BY <1>a, <1>b DEF TxBuffers
<1>2. \A i \in Len(d) + 1 .. Len(e) : e[i] = IF ~b.hasTxedPart /\ i = Len(d) + 1 THEN b.size ELSE 0
  <2>1. SUFFICES ASSUME NEW i \in Len(d) + 1 .. Len(e)
                 PROVE  e[i] = IF ~b.hasTxedPart /\ i = Len(d) + 1 THEN b.size ELSE 0
    OBVIOUS
  <2>2. i - Len(d) \in 1 .. Len(p) /\ Len(d) + (i - Len(d)) = i /\ (i - Len(d) = 1 <=> i = Len(d) + 1)
    BY <1>1, <1>b
  <2> QED
    BY ZenonT(40), ZenonT(40), <1>a, <1>b, <2>2
<1>3. Len(e) = Len(d) + c + (IF b.hasTxedPart THEN 0 ELSE 1)
  <2>1. PICK k \in 0 .. 1 : k = IF b.hasTxedPart THEN 0 ELSE 1
    OBVIOUS
  <2>2. Len(p) = c + k /\ Len(e) = Len(d) + Len(p)
    BY <1>a, <1>b, <2>1, Zenon
  <2>3. c \in Nat
    OBVIOUS
  <2>4. Len(e) = Len(d) + c + k
    BY ONLY <1>1, <2>1, <2>2, <2>3
  <2> QED
    BY <2>1, <2>4, Zenon
<1>4. ~b.hasTxedPart => e[Len(d) + 1] = b.size
  BY <1>1, <1>2, <1>3
<1>5. \A i \in 1 .. Len(e) : e[i] # Fin
  <2>1. \A i \in Len(d) + 1 .. Len(e) : e[i] # Fin
    BY <1>1, <1>2 DEF Fin
  <2>2. \A i \in 1 .. Len(d) : e[i] # Fin
    BY <1>b, Zenon
  <2> QED
    BY ONLY <1>1, <2>1, <2>2
<1>6. \A i \in Len(d) + 1 .. Len(e) : i > Len(d) + 1 \/ b.hasTxedPart => e[i] = 0
  BY <1>1, <1>2
<1> QED
  BY <1>b, <1>3, <1>4, <1>5, <1>6, Zenon DEF Grown

----------------------------------------------------------------------------
(* Serving an object.                                                      *)

LEMMA SentIs ==
  ASSUME NEW d \in Seq(Parts)
  PROVE  /\ Sent(d) \in Nat /\ Len(d) \in Nat /\ Sent(d) <= Len(d) /\ Len(d) <= Sent(d) + 1
         /\ ~Ended(d) => Sent(d) = Len(d)
         /\ Ended(d) => Sent(d) + 1 = Len(d) /\ d[Len(d)] = Fin
BY DEF Sent, Ended

\* A stream that is not ended has no end at all.
LEMMA OpenEnd ==
  ASSUME NEW d \in Seq(Parts), ~Ended(d), \A i \in 1 .. Len(d) - 1 : d[i] # Fin
  PROVE  \A i \in 1 .. Len(d) : d[i] # Fin
BY DEF Ended

\* Stream d becomes stream e and buffer b becomes buffer a by sending c bytes.
Sends(d, b, c, e, a) ==
  /\ c \in 1 .. b.size /\ a = [b EXCEPT !.size = b.size - c, !.hasTxedPart = TRUE]
  /\ Grown(d, b, c, e)

OpenStream(e) ==
  /\ e \in Seq(Parts) /\ \A i \in 1 .. Len(e) : e[i] # Fin
  /\ ~Ended(e) /\ Len(e) \in Nat /\ Sent(e) = Len(e)
LEMMA SendsStream ==
  ASSUME NEW d, NEW b, NEW c, NEW e, NEW a, Sends(d, b, c, e, a)
  PROVE  OpenStream(e)
<1>1. e \in Seq(Parts) /\ \A i \in 1 .. Len(e) : e[i] # Fin
  BY Zenon DEF Sends, Grown
<1>2. ~Ended(e) /\ Len(e) \in Nat /\ Sent(e) = Len(e)
  BY <1>1 DEF Ended, Sent
<1> QED
  BY <1>1, <1>2, Zenon DEF OpenStream

IsLess(b, c, a) ==
  /\ a \in TxBuffers /\ a.size = b.size - c /\ a.size \in Nat /\ a.hasTxedPart = TRUE
  /\ a.isClosing = b.isClosing /\ a.known = b.known
LEMMA SendsBuffer ==
  ASSUME NEW d, NEW b \in TxBuffers, NEW c, NEW e, NEW a, Sends(d, b, c, e, a)
  PROVE  IsLess(b, c, a)
<1>1. c \in Nat /\ c > 0 /\ c <= b.size /\ b.size \in Nat
  BY DEF Sends, TxBuffers
<1>2. PICK m \in Nat : m = b.size - c
  BY <1>1
<1>3. a = [b EXCEPT !.size = m, !.hasTxedPart = TRUE]
  BY <1>2, Zenon DEF Sends
<1>4. a \in TxBuffers /\ a.size = m /\ a.hasTxedPart = TRUE /\ a.isClosing = b.isClosing /\ a.known = b.known
  BY ONLY <1>3, m \in Nat, b \in TxBuffers DEF TxBuffers
<1> QED
  BY <1>2, <1>4, Zenon DEF IsLess

LEMMA SendsFollows ==
  ASSUME NEW d \in Seq(Parts), ~Ended(d), NEW b \in TxBuffers, b.size > 0, NEW c, NEW e, NEW a,
         Sends(d, b, c, e, a), NEW r \in Nat, NEW q \in BOOLEAN, Follows(r, d, b, q)
  PROVE  Follows(r, e, a, q) /\ Sent(e) > 0
<1>1. /\ c \in Nat /\ c > 0 /\ c <= b.size /\ b.size \in Nat /\ Len(d) \in Nat /\ Len(e) \in Nat
      /\ Sent(d) = Len(d) /\ Len(e) > 0 /\ Len(e) > Len(d)
  BY SentIs DEF Sends, Grown, TxBuffers
<1>2. /\ ~Ended(e) /\ Sent(e) = Len(e)
  BY SendsStream, Zenon DEF OpenStream
<1>3. /\ a \in TxBuffers /\ a.size = b.size - c /\ a.hasTxedPart = TRUE
      /\ a.isClosing = b.isClosing /\ a.known = b.known
  <2>1. IsLess(b, c, a)
    BY SendsBuffer
  <2> QED
    BY <2>1, Zenon DEF IsLess
<1>4. CASE b.hasTxedPart
  <2>1. Len(e) = Len(d) + c
    BY <1>1, <1>4 DEF Sends, Grown
  <2>2. /\ \A i \in 1 .. Len(d) : e[i] = d[i]
        /\ \A i \in Len(d) + 1 .. Len(e) : e[i] = 0
    BY <1>4 DEF Sends, Grown
  <2>3. r > 0 \/ Len(d) > 0
    BY <1>1, <1>4 DEF Follows
  <2>4. \A i \in 2 .. Len(e) : e[i] = 0
    <3>1. \A i \in 2 .. Len(d) : d[i] = 0
      BY <1>1 DEF Follows
    <3> QED
      BY <1>1, <2>2, <3>1
  <2>5. CASE r > 0
    <3>1. /\ Len(d) > 0 => d[1] = 0
          /\ r >= Len(d) + b.size /\ (q => r = Len(d) + b.size)
      BY <1>1, <2>5 DEF Follows
    <3>2. e[1] = 0
      BY <1>1, <2>1, <2>2, <3>1
    <3>3. Len(e) + a.size = Len(d) + b.size
      BY SMTT(40), <1>1, <1>3, <2>1
    <3>4. r >= Len(e) + a.size /\ (q => r = Len(e) + a.size)
      BY <3>1, <3>3, Zenon
    <3> QED
      BY <1>1, <1>2, <1>3, <2>4, <2>5, <3>2, <3>4 DEF Follows
  <2>6. CASE ~(r > 0)
    <3>1. r = 0 /\ Len(d) > 0 /\ d[1] > 0 /\ d[1] \in Parts
          /\ d[1] + 1 >= Len(d) + b.size /\ (q => d[1] + 1 = Len(d) + b.size)
      BY <1>1, <2>3, <2>6 DEF Follows
    <3>2. e[1] = d[1]
      BY <1>1, <2>2, <3>1
    <3>3. d[1] \in Nat
      BY <3>1 DEF Parts, Fin
    <3>4. d[1] + 1 >= Len(e) + a.size /\ (q => d[1] + 1 = Len(e) + a.size)
      BY SMTT(40), <1>1, <1>3, <2>1, <3>1, <3>3
    <3> QED
      BY <1>1, <1>2, <1>3, <2>4, <3>1, <3>2, <3>4 DEF Follows
  <2> QED
    BY <1>1, <1>2, <1>3, <2>5, <2>6
<1>5. CASE ~b.hasTxedPart
  <2>1. r = 0 /\ Len(d) = 0
    BY <1>1, <1>5 DEF Follows
  <2>2. Len(e) = c + 1 /\ e[1] = b.size /\ \A i \in 2 .. Len(e) : e[i] = 0
    BY <1>1, <1>5, <2>1 DEF Sends, Grown
  <2>3. e[1] > 0 /\ e[1] + 1 = Len(e) + a.size
    BY <1>1, <1>3, <2>2
  <2>4. Follows(r, e, a, q)
    BY <1>1, <1>2, <1>3, <2>1, <2>2, <2>3 DEF Follows
  <2> QED
    BY <1>1, <1>2, <1>3, <2>4
<1> QED
  BY <1>4, <1>5

\* The end is added and nothing more will follow.
LEMMA EndFollows ==
  ASSUME NEW d \in Seq(Parts), ~Ended(d), \A i \in 1 .. Len(d) : d[i] # Fin, NEW b \in TxBuffers,
         NEW r \in Nat, NEW q \in BOOLEAN, Follows(r, d, b, q), NEW e, e = Append(d, Fin)
  PROVE  /\ e \in Seq(Parts) /\ Len(e) = Len(d) + 1 /\ Ended(e) /\ Sent(e) = Len(d) /\ Sent(e) = Sent(d)
         /\ \A i \in 1 .. Len(e) - 1 : e[i] # Fin
         /\ Follows(r, e, NotFound, FALSE)
<1>1. /\ e \in Seq(Parts) /\ Len(e) = Len(d) + 1 /\ Len(d) \in Nat
      /\ \A i \in 1 .. Len(d) : e[i] = d[i]
      /\ e[Len(e)] = Fin
  BY DEF Parts
<1>2. Ended(e) /\ Sent(e) = Len(d) /\ Sent(d) = Len(d)
  BY <1>1 DEF Ended, Sent
<1>3. \A i \in 1 .. Len(e) - 1 : e[i] # Fin
  BY <1>1
<1>4. b.size \in Nat /\ NotFound.size = 0
  BY DEF TxBuffers, NotFound
<1>5. Len(d) > 0 => d[1] = e[1] /\ d[1] \in Parts
  BY <1>1
<1>6. \A i \in 2 .. Len(d) : e[i] = 0
  BY <1>1, <1>2 DEF Follows
<1>7. /\ r > 0 => (Len(d) > 0 => e[1] = 0) /\ r >= Len(d) + 0
      /\ r = 0 /\ Len(d) > 0 => e[1] > 0 /\ e[1] + 1 >= Len(d) + 0
  <2>1. CASE r > 0
    BY <1>1, <1>2, <1>4, <1>5, <2>1 DEF Follows
  <2>2. CASE r = 0 /\ Len(d) > 0
    <3>1. d[1] > 0 /\ d[1] + 1 >= Len(d) + b.size
      BY <1>1, <1>2, <2>2 DEF Follows
    <3>2. d[1] \in Nat
      BY <1>5, <2>2, <3>1 DEF Parts, Fin
    <3> QED
      BY <1>1, <1>4, <1>5, <2>2, <3>1, <3>2
  <2> QED
    BY <2>1, <2>2
<1>8. Follows(r, e, NotFound, FALSE)
  BY <1>2, <1>4, <1>6, <1>7 DEF Follows
<1> QED
  BY <1>1, <1>2, <1>3, <1>8

----------------------------------------------------------------------------
(* The server's steps.                                                     *)

Live == m_state # "STOPPED" /\ Connected

LEMMA LiveInv == HttpInv =>
  /\ Live => TakeTurns /\ Follows(m_objectBytesToBeReceived, down, m_txBuffer, quiet)
  /\ ~Live => m_state = "STOPPED" \/ (Len(up) = 0 /\ Len(down) = 0)
BY Zenon DEF HttpInv, Live, LinkAllows

\* A step of the server that leaves it nothing to make.
LEMMA Zero == \A n : n = 0 => n <= 1 /\ n <= 2 /\ ~(n > 0) /\ n # 2
OBVIOUS

LEMMA ServerMoves ==
  ASSUME HttpInv, UNCHANGED <<clientVars, link>>, fatal' \in {"none", "closed"},
         up' = up \/ (up' \in Seq(Requests \cup {"FIN"}) /\ Len(up') = 0),
         m_txBuffer' \in TxBuffers, m_txBuffer'.known => m_txBuffer.known,
         m_txBuffer'.size > 0 => m_txBuffer'.known /\ ~Asked(up'),
         m_txBuffer'.isClosing => m_txBuffer'.size > 0,
         serves' \in Seq(Requests), Len(serves') = 0,
         down' \in Seq(Parts), \A i \in 1 .. Len(down') - 1 : down'[i] # Fin,
         Ended(down') => ~m_txBuffer'.known,
         ~Connected \/ link = "half" => Len(down') = 0,
         quiet' \in BOOLEAN, quiet' => quiet /\ ~Ended(down') /\ ~m_txBuffer'.isClosing,
         Live => TakeTurns' /\ Follows(m_objectBytesToBeReceived, down', m_txBuffer', quiet')
  PROVE  HttpInv'
<1>1. /\ m_state' = m_state /\ m_objectBytesToBeReceived' = m_objectBytesToBeReceived
      /\ m_embeddedObjectsToBeRequested' = m_embeddedObjectsToBeRequested
      /\ scheduled' = scheduled /\ link' = link
  BY DEF clientVars
<1>2. HttpTyped /\ StreamsEnd /\ ServerInTurn /\ LinkAllows /\ EventsFit
  BY Zenon DEF HttpInv
<1>3. HttpTyped'
  BY <1>1, <1>2 DEF HttpTyped
<1>4. StreamsEnd'
  <2>1. /\ Len(up') <= 2 /\ (Len(up') = 2 => up'[1] # "FIN" /\ up'[2] = "FIN")
        /\ m_state' # "STOPPED" => Len(up') <= 1 /\ (Len(up') > 0 => up'[1] # "FIN")
    <3>1. CASE up' = up
      BY <1>1, <1>2, <3>1 DEF StreamsEnd
    <3>2. CASE Len(up') = 0
      BY <3>2, Zero, Zenon
    <3> QED
      BY <3>1, <3>2
  <2> QED
    BY <2>1, Zenon DEF StreamsEnd
<1>5. ServerInTurn'
  <2>1. Len(serves') <= 1 /\ ~(Len(serves') > 0)
    BY Zero, Zenon
  <2> QED
    BY <2>1, Zenon DEF ServerInTurn, ClosingHasMore
<1>6. LinkAllows'
  BY <1>1, <1>2 DEF LinkAllows, Connected
<1>7. EventsFit'
  BY <1>1, <1>2 DEF EventsFit
<1>8. m_state' # "STOPPED" /\ Connected' => Live
  BY <1>1, Zenon DEF Live, Connected
<1> QED
  BY <1>1, <1>3, <1>4, <1>5, <1>6, <1>7, <1>8, Zenon DEF HttpInv

LEMMA KnownFacts ==
  ASSUME HttpInv, m_txBuffer.known
  PROVE  /\ down \in Seq(Parts) /\ ~Ended(down) /\ \A i \in 1 .. Len(down) : down[i] # Fin
         /\ Sent(down) = Len(down) /\ Len(down) \in Nat
         /\ ~Connected => Len(down) = 0
         /\ link \notin {"none", "opening", "half"}
<1>1. HttpTyped /\ StreamsEnd /\ LinkAllows
  BY Zenon DEF HttpInv
<1>2. down \in Seq(Parts) /\ ~Ended(down) /\ (~Connected => Len(down) = 0) /\ link \notin {"none", "opening", "half"}
  BY <1>1 DEF HttpTyped, StreamsEnd, LinkAllows
<1>3. \A i \in 1 .. Len(down) : down[i] # Fin
  BY <1>1, <1>2 DEF StreamsEnd, Ended
<1> QED
  BY <1>2, <1>3, SentIs

\* What ServeFromTxBuffer may do with buffer b.
LEMMA ServeCases ==
  ASSUME HttpInv, m_txBuffer.known, NEW b \in TxBuffers, b.size > 0, NEW events, ServeFromTxBuffer(b, events)
  PROVE  \/ Keep(b, down, events)
         \/ \E c, e, a : /\ Sends(down, b, c, e, a)
                         /\ \/ ~(b.isClosing /\ a.size = 0) /\ Keep(a, IF Connected THEN e ELSE down, events)
                            \/ Erase(IF Connected THEN e ELSE down, events)
<1>1. Bytes(down) \in Nat /\ TxRoom \in Nat
  BY KnownFacts, BytesNat, HttpConstants
<1>2. PICK room \in 0 .. TxRoom - Bytes(down) :
        LET content == ContentSize(b, room)
            packet == (IF b.hasTxedPart THEN <<>> ELSE <<b.size>>) \o [i \in 1 .. content |-> 0]
        IN IF content = 0 \/ Bytes(packet) > room THEN Keep(b, down, events)
           ELSE DepleteBufferSize(b, content, IF Connected THEN down \o packet ELSE down, events)
  BY Zenon DEF ServeFromTxBuffer
<1>3. room \in Nat
  BY <1>1
<1>4. PICK c \in 0 .. b.size : c = ContentSize(b, room)
  BY <1>3, ContentIs
<1>5. PICK p : p = Packet(b, c)
  OBVIOUS
<1>6. \/ Keep(b, down, events)
      \/ c # 0 /\ DepleteBufferSize(b, c, IF Connected THEN down \o p ELSE down, events)
  BY <1>2, <1>4, <1>5, Zenon DEF Packet
<1>7. SUFFICES ASSUME c # 0, DepleteBufferSize(b, c, IF Connected THEN down \o p ELSE down, events)
               PROVE  \E x, e, a : /\ Sends(down, b, x, e, a)
                                   /\ \/ ~(b.isClosing /\ a.size = 0) /\ Keep(a, IF Connected THEN e ELSE down, events)
                                      \/ Erase(IF Connected THEN e ELSE down, events)
  BY <1>6, Zenon
<1>8. b.size \in Nat /\ c \in Nat
  BY DEF TxBuffers
<1>9. IsPacket(b, c, p) /\ p \in Seq(Parts)
  <2>1. IsPacket(b, c, p)
    BY <1>5, <1>8, PacketIs
  <2> QED
    BY <2>1, Zenon DEF IsPacket
<1>10. PICK d : d = down
  OBVIOUS
<1>11. d \in Seq(Parts) /\ \A i \in 1 .. Len(d) : d[i] # Fin
  BY <1>10, KnownFacts, Zenon
<1>12. PICK e : e = d \o p
  OBVIOUS
<1>13. Chained(d, p, e)
  BY <1>9, <1>11, <1>12, Concatenated
<1>22. Grown(d, b, c, e)
  BY <1>8, <1>9, <1>11, <1>13, Streamed
<1>14. PICK m \in Nat : m = b.size - c
  BY <1>8
<1>15. PICK a : a = [b EXCEPT !.size = m, !.hasTxedPart = TRUE]
  OBVIOUS
<1>16. a.size = m
  BY ONLY <1>15, m \in Nat, b \in TxBuffers DEF TxBuffers
<1>17. c \in 1 .. b.size
  BY <1>7, <1>8
<1>18. Sends(down, b, c, e, a)
  BY <1>10, <1>22, <1>14, <1>15, <1>17, Zenon DEF Sends
<1>19. Depleted(b, c) = a
  BY <1>14, <1>15, Zenon DEF Depleted
<1>20. a.size = 0 <=> b.size = c
  BY <1>8, <1>14, <1>16, <1>17
<1>21. \/ Erase(IF Connected THEN e ELSE down, events)
       \/ ~(b.isClosing /\ b.size = c) /\ Keep(a, IF Connected THEN e ELSE down, events)
  BY <1>7, <1>10, <1>12, <1>19, Zenon DEF DepleteBufferSize
<1> QED
  BY <1>18, <1>20, <1>21, Zenon

LEMMA ServerTurn ==
  ASSUME scheduled' = {}, Len(up') = 0, Len(serves') = 0, m_state' \in Expecting,
         quiet' => m_txBuffer'.size > 0 \/ Sent(down') > 0
  PROVE  TakeTurns'
<1>1. ~(Len(up') > 0) /\ ~(Len(serves') > 0)
  BY Zero, Zenon
<1> QED
  BY <1>1, Zenon DEF TakeTurns, Expecting

\* What StartServing finds: nothing else is going on.
Serving(b, events) ==
  /\ b \in TxBuffers /\ b.size > 0 /\ b.known /\ (quiet => ~b.isClosing)
  /\ ~Asked(up) /\ events \in Seq(Requests) /\ Len(events) = 0
  /\ Live => /\ scheduled = {} /\ m_state \in Expecting
             /\ Follows(m_objectBytesToBeReceived, down, b, quiet)

LEMMA FrontOf == ASSUME NEW s \in Seq(Requests), Len(s) <= 1, NEW f, f = IF s = << >> THEN s ELSE Front(s)
                 PROVE  f \in Seq(Requests) /\ Len(f) = 0
<1>1. CASE s = << >>
  <2>1. f = s /\ Len(s) = 0
    BY <1>1, EmptyIs, Zenon
  <2> QED
    BY <2>1, Zenon
<1>2. CASE s # << >>
  <2>1. Len(s) # 0 /\ f = SubSeq(s, 1, Len(s) - 1)
    BY <1>2, EmptyIs, Zenon DEF Front
  <2>2. s \in Seq(Requests) /\ Len(s) <= 1
    OBVIOUS
  <2> QED
    BY ONLY <2>1, <2>2
<1> QED
  BY <1>1, <1>2, Zenon

LEMMA NotFoundIs == /\ NotFound \in TxBuffers /\ NotFound.size = 0 /\ ~NotFound.known /\ ~NotFound.isClosing
                    /\ ~(NotFound.size > 0)
BY DEF NotFound, TxBuffers

\* The server has erased its buffer: what requests u and parts s may remain.
Remain(u, s) ==
  /\ scheduled # {} => Len(u) = 0 /\ Sent(s) = 0
  /\ Len(u) > 0 => m_objectBytesToBeReceived = 0 /\ Sent(s) = 0
  /\ Len(u) > 0 \/ Sent(s) > 0 \/ m_objectBytesToBeReceived > 0 => m_state \in Expecting

LEMMA EraseKeeps ==
  ASSUME HttpInv, m_txBuffer.known, NEW s \in Seq(Parts), ~Ended(s), \A i \in 1 .. Len(s) : s[i] # Fin,
         ~Connected => Len(s) = 0, NEW events \in Seq(Requests), Len(events) <= 1, Erase(s, events),
         UNCHANGED <<clientVars, link>>, fatal' \in {"none", "closed"},
         up' = up \/ (up' \in Seq(Requests \cup {"FIN"}) /\ Len(up') = 0),
         Live => /\ Remain(up', s)
                 /\ \E b \in TxBuffers, q \in BOOLEAN : Follows(m_objectBytesToBeReceived, s, b, q)
  PROVE  HttpInv'
<1>1. /\ m_txBuffer' = NotFound /\ down' = (IF Connected THEN Append(s, Fin) ELSE s) /\ quiet' = FALSE
      /\ serves' = IF events = <<>> THEN events ELSE Front(events)
  BY Zenon DEF Erase
<1>2. serves' \in Seq(Requests) /\ Len(serves') = 0
  BY <1>1, FrontOf
<1>3. /\ m_state' = m_state /\ m_objectBytesToBeReceived' = m_objectBytesToBeReceived
      /\ scheduled' = scheduled /\ link' = link
  BY DEF clientVars
<1>4. m_objectBytesToBeReceived \in Nat /\ link # "half"
  <2>1. m_objectBytesToBeReceived \in Nat
    BY Zenon DEF HttpInv, HttpTyped
  <2> QED
    BY <2>1, KnownFacts
<1>5. PICK t : t = IF Connected THEN Append(s, Fin) ELSE s
  OBVIOUS
<1>6. /\ t \in Seq(Parts) /\ \A i \in 1 .. Len(t) - 1 : t[i] # Fin
      /\ ~Connected => Len(t) = 0
  <2>1. CASE Connected
    <3>1. t = Append(s, Fin) /\ Fin \in Parts
      BY <1>5, <2>1 DEF Parts
    <3>2. s \in Seq(Parts) /\ \A i \in 1 .. Len(s) : s[i] # Fin
      OBVIOUS
    <3>3. t \in Seq(Parts) /\ \A i \in 1 .. Len(t) - 1 : t[i] # Fin
      BY ONLY <3>1, <3>2
    <3> QED
      BY <2>1, <3>3, Zenon
  <2>2. CASE ~Connected
    <3>1. t = s
      BY <1>5, <2>2, Zenon
    <3>2. s \in Seq(Parts) /\ \A i \in 1 .. Len(s) : s[i] # Fin
      OBVIOUS
    <3>3. t \in Seq(Parts) /\ \A i \in 1 .. Len(t) - 1 : t[i] # Fin
      BY ONLY <3>1, <3>2
    <3> QED
      BY <2>2, <3>1, <3>3, Zenon
  <2> QED
    BY <2>1, <2>2, Zenon
<1>7. Live => Follows(m_objectBytesToBeReceived, t, NotFound, FALSE) /\ Sent(t) = Sent(s) /\ Sent(s) \in Nat
  <2>1. SUFFICES ASSUME Live
                 PROVE  Follows(m_objectBytesToBeReceived, t, NotFound, FALSE) /\ Sent(t) = Sent(s) /\ Sent(s) \in Nat
    OBVIOUS
  <2>2. PICK b \in TxBuffers, q \in BOOLEAN : Follows(m_objectBytesToBeReceived, s, b, q)
    BY <2>1
  <2>3. t = Append(s, Fin)
    BY <1>5, <2>1, Zenon DEF Live
  <2>4. PICK r : r = m_objectBytesToBeReceived
    OBVIOUS
  <2>5. r \in Nat /\ Follows(r, s, b, q)
    BY <1>4, <2>2, <2>4
  <2>6. Follows(r, t, NotFound, FALSE) /\ Sent(t) = Sent(s)
    BY ZenonT(40), ZenonT(40), <2>3, <2>5, EndFollows
  <2> QED
    BY <2>4, <2>6, SentIs
<1>8. Live => TakeTurns'
  <2>1. SUFFICES ASSUME Live PROVE TakeTurns'
    OBVIOUS
  <2>2. Remain(up', s) /\ Sent(down') = Sent(s) /\ Sent(s) \in Nat
    BY <1>1, <1>5, <1>7, <2>1, Zenon
  <2>3. ~(Len(serves') > 0) /\ ~(m_txBuffer'.size > 0) /\ m_txBuffer'.size = 0 /\ Len(serves') = 0
    BY <1>1, <1>2, NotFoundIs, Zero, Zenon
  <2> QED
    BY <1>1, <1>3, <2>2, <2>3, Zenon DEF TakeTurns, Remain, Expecting
<1>9. /\ m_txBuffer' \in TxBuffers /\ ~m_txBuffer'.known /\ ~m_txBuffer'.isClosing /\ ~(m_txBuffer'.size > 0)
  BY <1>1, NotFoundIs, Zenon
<1>10. FALSE \in BOOLEAN /\ down' = t /\ quiet' = FALSE
  BY <1>1, <1>5, Zenon
<1>11. Live => Follows(m_objectBytesToBeReceived, down', m_txBuffer', quiet')
  BY <1>1, <1>5, <1>7, Zenon
<1> QED
  BY <1>2, <1>4, <1>6, <1>8, <1>9, <1>10, <1>11, ServerMoves, Zenon

LEMMA NotLonger == \A T : \A s \in Seq(T) : ~(Len(s) > 0) => Len(s) = 0
OBVIOUS

LEMMA FinNowhere == ASSUME NEW s \in Seq(Parts), \A i \in 1 .. Len(s) : s[i] # Fin
                    PROVE  \A i \in 1 .. Len(s) - 1 : s[i] # Fin
OBVIOUS

LEMMA Positive == (\A n \in Nat : n # 0 => n > 0) /\ ~(0 > 0)
OBVIOUS

LEMMA ServedKeeps ==
  ASSUME HttpInv, m_txBuffer.known, NEW b, NEW events, Serving(b, events), ServeFromTxBuffer(b, events),
         UNCHANGED <<clientVars, link, up>>, fatal' \in {"none", "closed"}
  PROVE  HttpInv'
<1>1. /\ b \in TxBuffers /\ b.size > 0 /\ b.known /\ (quiet => ~b.isClosing)
      /\ ~Asked(up) /\ events \in Seq(Requests) /\ Len(events) = 0
      /\ Live => /\ scheduled = {} /\ m_state \in Expecting
                 /\ Follows(m_objectBytesToBeReceived, down, b, quiet)
  BY Zenon DEF Serving
<1>2. /\ down \in Seq(Parts) /\ ~Ended(down) /\ \A i \in 1 .. Len(down) : down[i] # Fin
      /\ Sent(down) = Len(down) /\ Len(down) \in Nat
      /\ (~Connected => Len(down) = 0) /\ link # "half"
  BY KnownFacts
<1>3. m_objectBytesToBeReceived \in Nat /\ quiet \in BOOLEAN
  BY Zenon DEF HttpInv, HttpTyped
<1>4. /\ m_state' = m_state /\ m_objectBytesToBeReceived' = m_objectBytesToBeReceived
      /\ scheduled' = scheduled /\ link' = link /\ up' = up /\ UNCHANGED <<clientVars, link>>
  BY DEF clientVars
<1>5. Live => Len(up') = 0
  <2>1. Live => (Len(up) > 0 => up[1] # "FIN") /\ up \in Seq(Requests \cup {"FIN"})
    BY Zenon DEF HttpInv, StreamsEnd, HttpTyped, Live
  <2>2. Live => ~(Len(up) > 0)
    BY <1>1, <2>1, Zenon DEF Asked
  <2> QED
    BY <1>4, <2>1, <2>2, NotLonger, Zenon
<1>6. CASE Keep(b, down, events)
  <2>1. m_txBuffer' = b /\ serves' = events /\ down' = down /\ quiet' = quiet
    BY <1>6, Zenon DEF Keep
  <2>2. Live => TakeTurns'
    BY <1>1, <1>4, <1>5, <2>1, ServerTurn, Zenon
  <2>3. \A i \in 1 .. Len(down) - 1 : down[i] # Fin
    BY <1>2, FinNowhere, Zenon
  <2> QED
    BY <1>1, <1>2, <1>3, <1>4, <2>1, <2>2, <2>3, ServerMoves, Zenon
<1>7. ASSUME NEW c, NEW e, NEW a, Sends(down, b, c, e, a),
             \/ ~(b.isClosing /\ a.size = 0) /\ Keep(a, IF Connected THEN e ELSE down, events)
             \/ Erase(IF Connected THEN e ELSE down, events)
      PROVE  HttpInv'
  <2>1. PICK d, r, q : d = down /\ r = m_objectBytesToBeReceived /\ q = quiet
    OBVIOUS
  <2>2. /\ d \in Seq(Parts) /\ ~Ended(d) /\ r \in Nat /\ q \in BOOLEAN /\ Sends(d, b, c, e, a)
        /\ \A i \in 1 .. Len(d) : d[i] # Fin
        /\ Live => Follows(r, d, b, q)
    BY <1>1, <1>2, <1>3, <1>7, <2>1, Zenon
  <2>3. a \in TxBuffers /\ a.isClosing = b.isClosing /\ a.known = b.known /\ a.size \in Nat
    BY <1>1, <2>2, SendsBuffer, Zenon DEF IsLess
  <2>4. /\ e \in Seq(Parts) /\ \A i \in 1 .. Len(e) : e[i] # Fin
        /\ ~Ended(e) /\ Len(e) \in Nat /\ Sent(e) = Len(e)
    BY <2>2, SendsStream, Zenon DEF OpenStream
  <2>5. Live => Follows(r, e, a, q) /\ Sent(e) > 0
    <3>1. b \in TxBuffers /\ b.size > 0
      BY <1>1, Zenon
    <3>2. d \in Seq(Parts) /\ ~Ended(d) /\ r \in Nat /\ q \in BOOLEAN /\ Sends(d, b, c, e, a)
      BY <2>2, Zenon
    <3>3. Follows(r, d, b, q) => Follows(r, e, a, q) /\ Sent(e) > 0
      BY ONLY <3>1, <3>2, SendsFollows
    <3> QED
      BY <2>2, <3>3, Zenon
  <2>6. PICK s : s = IF Connected THEN e ELSE d
    OBVIOUS
  <2>7. /\ s \in Seq(Parts) /\ ~Ended(s) /\ \A i \in 1 .. Len(s) : s[i] # Fin
        /\ ~Connected => Len(s) = 0
        /\ Live => s = e
    BY <1>2, <2>1, <2>2, <2>4, <2>6, Zenon DEF Live
  <2>8. CASE ~(b.isClosing /\ a.size = 0) /\ Keep(a, s, events)
    <3>1. m_txBuffer' = a /\ serves' = events /\ down' = s /\ quiet' = quiet
      BY <2>8, Zenon DEF Keep
    <3>2. Live => TakeTurns'
      BY <1>1, <1>4, <1>5, <2>5, <2>7, <3>1, ServerTurn, Zenon
    <3>3. \A i \in 1 .. Len(s) - 1 : s[i] # Fin
      BY <2>7, FinNowhere, Zenon
    <3>4. a.isClosing => a.size > 0
      BY <2>3, <2>8, Positive, Zenon
    <3>5. Live => Follows(m_objectBytesToBeReceived, down', m_txBuffer', quiet')
      BY <2>1, <2>5, <2>7, <3>1, Zenon
    <3>6. a.known /\ m_txBuffer.known /\ (quiet => ~a.isClosing)
      BY <1>1, <2>3, Zenon
    <3> QED
      BY <1>1, <1>2, <1>3, <1>4, <2>3, <2>7, <3>1, <3>2, <3>3, <3>4, <3>5, <3>6, ServerMoves, Zenon
  <2>9. CASE Erase(s, events)
    <3>1. Live => \E x \in TxBuffers, y \in BOOLEAN : Follows(m_objectBytesToBeReceived, s, x, y)
      BY <2>1, <2>2, <2>3, <2>5, <2>7, Zenon
    <3>2. Live => Remain(up', s)
      <4>1. ~(0 > 0)
        BY Positive, Zenon
      <4> QED
        BY <1>1, <1>5, <4>1, Zenon DEF Remain
    <3>3. Len(events) <= 1
      BY <1>1, Zero, Zenon
    <3> QED
      BY <1>1, <1>4, <2>7, <2>9, <3>1, <3>2, <3>3, EraseKeeps, Zenon
  <2> QED
    BY <1>7, <2>1, <2>6, <2>8, <2>9, Zenon
<1> QED
  BY <1>1, <1>6, <1>7, ServeCases, Zenon

LEMMA HttpFacts ==
  ASSUME HttpInv
  PROVE  /\ HttpTyped /\ StreamsEnd /\ ServerInTurn /\ LinkAllows /\ EventsFit
         /\ Live => TakeTurns /\ Follows(m_objectBytesToBeReceived, down, m_txBuffer, quiet)
BY Zenon DEF HttpInv, Live

LEMMA SentAtEnd == \A d : Len(d) = 0 => Sent(d) = 0 /\ ~Ended(d)
BY DEF Sent, Ended

\* Lengths and sizes are numbers: either there is something or there is not.
LEMMA HttpNumbers ==
  ASSUME HttpInv
  PROVE  /\ m_txBuffer.size \in Nat /\ m_objectBytesToBeReceived \in Nat
         /\ Len(up) \in Nat /\ Len(serves) \in Nat /\ Len(down) \in Nat /\ Sent(down) \in Nat
         /\ m_txBuffer.size > 0 \/ m_txBuffer.size = 0
         /\ Len(up) > 0 \/ Len(up) = 0
         /\ Len(serves) > 0 \/ Len(serves) = 0
         /\ Sent(down) > 0 \/ Sent(down) = 0
<1>1. m_txBuffer \in TxBuffers /\ m_objectBytesToBeReceived \in Nat /\ serves \in Seq(Requests)
      /\ up \in Seq(Requests \cup {"FIN"}) /\ down \in Seq(Parts)
  BY HttpFacts, Zenon DEF HttpTyped
<1>2. /\ m_txBuffer.size \in Nat /\ Len(up) \in Nat /\ Len(serves) \in Nat /\ Len(down) \in Nat
  BY <1>1 DEF TxBuffers
<1>3. Sent(down) \in Nat
  BY <1>1, SentIs, Zenon
<1>4. \A n \in Nat : n > 0 \/ n = 0
  OBVIOUS
<1> QED
  BY <1>1, <1>2, <1>3, <1>4, Zenon

LEMMA HttpSame ==
  ASSUME HttpInv, UNCHANGED <<clientVars, m_txBuffer, serves, link, up, down, quiet>>, fatal' \in {"none", "closed"}
  PROVE  HttpInv'
<1>1. /\ m_state' = m_state /\ m_objectBytesToBeReceived' = m_objectBytesToBeReceived
      /\ m_embeddedObjectsToBeRequested' = m_embeddedObjectsToBeRequested
      /\ scheduled' = scheduled /\ link' = link /\ m_txBuffer' = m_txBuffer /\ serves' = serves
      /\ up' = up /\ down' = down /\ quiet' = quiet
  BY DEF clientVars
<1>7. quiet' => quiet
  <2>1. PICK q \in BOOLEAN : q = quiet
    BY HttpFacts DEF HttpTyped
  <2>2. quiet' = q
    BY <1>1, <2>1
  <2>3. CASE q = TRUE
    BY <2>1, <2>3, Zenon
  <2>4. CASE q = FALSE
    BY <2>2, <2>4, Zenon
  <2> QED
    BY <2>3, <2>4
<1>2. (HttpTyped /\ StreamsEnd)'
  BY <1>1, HttpFacts, Zenon DEF HttpTyped, StreamsEnd
<1>3. ServerInTurn' /\ LinkAllows' /\ EventsFit'
  <2>1. ServerInTurn'
    BY <1>1, HttpFacts, Zenon DEF ServerInTurn, ClosingHasMore
  <2>2. LinkAllows'
    <3>1. LinkAllows
      BY HttpFacts
    <3>2. /\ ~Connected' => Len(up') = 0 /\ Len(down') = 0
          /\ link' \in {"none", "opening", "half"} => ~m_txBuffer'.known /\ Len(down') = 0
          /\ link' \in {"none", "opening"} => scheduled' = {} /\ m_objectBytesToBeReceived' = 0
      BY <1>1, <3>1, Zenon DEF LinkAllows, Connected
    <3>3. /\ link' = "opening" => m_state' = "CONNECTING"
          /\ m_state' = "NOT_STARTED" => link' = "none"
      BY <1>1, <3>1 DEF LinkAllows
    <3>4. quiet => m_state' # "STOPPED" /\ link' # "broken" /\ ~Ended(down') /\ ~m_txBuffer'.isClosing
      BY <1>1, <3>1, Zenon DEF LinkAllows
    <3> QED
      BY <1>7, <3>2, <3>3, <3>4, Zenon DEF LinkAllows
  <2>3. EventsFit'
    BY <1>1, HttpFacts, Zenon DEF EventsFit
  <2> QED
    BY <2>1, <2>2, <2>3
<1>4. Live' => Live
  BY <1>1, Zenon DEF Live, Connected
<1>5. Live => TakeTurns'
  <2>1. Live => TakeTurns
    BY HttpFacts, Zenon
  <2>2. Live => /\ scheduled' # {} => /\ Len(up') = 0 /\ Len(serves') = 0 /\ m_txBuffer'.size = 0
                                       /\ Sent(down') = 0
                /\ Len(up') > 0 \/ Len(serves') > 0 => m_objectBytesToBeReceived' = 0 /\ Sent(down') = 0
    BY <1>1, <2>1, Zenon DEF TakeTurns
  <2>3. Live => /\ Len(up') > 0 \/ Len(serves') > 0 \/ m_txBuffer'.size > 0 \/ Sent(down') > 0
                     \/ m_objectBytesToBeReceived' > 0
                   => m_state' \in Expecting
    BY <1>1, <2>1, Zenon DEF TakeTurns
  <2>4. Live /\ quiet => \/ scheduled' # {} \/ Len(up') > 0 \/ Len(serves') > 0
                         \/ m_txBuffer'.size > 0 \/ Sent(down') > 0
    BY <1>1, <2>1, Zenon DEF TakeTurns
  <2> QED
    BY <1>7, <2>2, <2>3, <2>4, Zenon DEF TakeTurns, Expecting
<1>6. Live => Follows(m_objectBytesToBeReceived', down', m_txBuffer', quiet')
  BY <1>1, HttpFacts, Zenon
<1> QED
  BY <1>2, <1>3, <1>4, <1>5, <1>6, Zenon DEF HttpInv, Live

LEMMA SendCallbackKeeps == HttpInv /\ fatal = "none" /\ SendCallback => HttpInv'
<1> SUFFICES ASSUME HttpInv, fatal = "none", SendCallback PROVE HttpInv'
  OBVIOUS
<1>1. /\ m_txBuffer.size > 0 /\ ServeFromTxBuffer(m_txBuffer, serves) /\ fatal' \in {"none", "closed"}
      /\ UNCHANGED <<clientVars, link, up>>
  BY DEF SendCallback
<1>2. PICK b, events : b = m_txBuffer /\ events = serves
  OBVIOUS
<1>3. ServeFromTxBuffer(b, events)
  BY <1>1, <1>2
<1>4. /\ b \in TxBuffers /\ b.size > 0 /\ b.known /\ m_txBuffer.known /\ (quiet => ~b.isClosing) /\ ~Asked(up)
      /\ events \in Seq(Requests)
  BY <1>1, <1>2, HttpFacts, Zenon DEF HttpTyped, ServerInTurn, LinkAllows
<1>5. ~(m_txBuffer.size = 0)
  BY <1>1, Zero, Zenon
<1>6. Len(events) = 0
  BY <1>2, <1>5, HttpNumbers, HttpFacts, Zenon DEF ServerInTurn
<1>7. Live => /\ scheduled = {} /\ m_state \in Expecting
              /\ Follows(m_objectBytesToBeReceived, down, b, quiet)
  BY <1>1, <1>2, <1>5, HttpFacts, Zenon DEF TakeTurns
<1>8. Serving(b, events)
  BY <1>4, <1>6, <1>7, Zenon DEF Serving
<1> QED
  BY <1>1, <1>3, <1>4, <1>8, ServedKeeps, Zenon

LEMMA OnlyOne == ASSUME NEW s \in Seq(Requests), Len(s) <= 1, NEW i \in DOMAIN s
                 PROVE  i \in 1 .. Len(s) /\ Len(s) = 1 /\ Len(s) > 0
<1>1. DOMAIN s = 1 .. Len(s) /\ Len(s) \in Nat
  BY SMTT(40)
<1>2. PICK n \in Nat : n = Len(s)
  BY <1>1
<1>3. i \in 1 .. n /\ n <= 1
  BY <1>1, <1>2, Zenon
<1>4. n = 1 /\ n > 0
  BY ONLY <1>3, n \in Nat
<1> QED
  BY <1>1, <1>2, <1>3, <1>4, Zenon

LEMMA ServeNewObjectKeeps == HttpInv /\ fatal = "none" /\ ServeNewObject => HttpInv'
<1> SUFFICES ASSUME HttpInv, fatal = "none", ServeNewObject PROVE HttpInv'
  OBVIOUS
<1>1. PICK i \in DOMAIN serves, n \in ObjectSizes :
        /\ IF m_txBuffer.known /\ m_txBuffer.size = 0
           THEN /\ ServeFromTxBuffer([m_txBuffer EXCEPT !.size = n, !.hasTxedPart = FALSE], RemoveAt(serves, i))
                /\ UNCHANGED fatal
           ELSE /\ fatal' = IF m_txBuffer.known THEN "not sent" ELSE "not found"
                /\ Keep(m_txBuffer, down, RemoveAt(serves, i))
        /\ UNCHANGED <<clientVars, serverRuns, link, up, unread, toTell, pages>>
  BY Zenon DEF ServeNewObject
<1>2. PICK s : s = serves
  OBVIOUS
<1>3. s \in Seq(Requests) /\ i \in DOMAIN s /\ Len(s) <= 1
  BY <1>2, HttpFacts, Zenon DEF HttpTyped, ServerInTurn
<1>4. i \in 1 .. Len(s) /\ Len(s) = 1 /\ Len(s) > 0
  BY <1>3, OnlyOne, Zenon
<1>5. PICK events : events = RemoveAt(s, i)
  OBVIOUS
<1>6. events \in Seq(Requests) /\ Len(events) = Len(s) - 1
  BY <1>3, <1>4, <1>5, RemovedAt
<1>7. Len(events) = 0
  BY <1>4, <1>6
<1>8. m_txBuffer.known /\ m_txBuffer.size = 0 /\ ~Asked(up)
  BY <1>2, <1>4, HttpFacts, Zenon DEF ServerInTurn
<1>9. PICK t : t = m_txBuffer
  OBVIOUS
<1>10. PICK b : b = [t EXCEPT !.size = n, !.hasTxedPart = FALSE]
  OBVIOUS
<1>11. ServeFromTxBuffer(b, events) /\ fatal' = fatal /\ UNCHANGED <<clientVars, link, up>>
  BY <1>1, <1>2, <1>5, <1>8, <1>9, <1>10, Zenon
<1>12. t \in TxBuffers /\ t.known /\ (t.isClosing => t.size > 0) /\ t.size = 0
  BY <1>8, <1>9, HttpFacts, Zenon DEF HttpTyped, ServerInTurn, ClosingHasMore
<1>13. ~t.isClosing
  BY <1>12, Zero, Zenon
<1>14. n \in Nat /\ n > 0
  BY HttpConstants
<1>15. b \in TxBuffers /\ b.size = n /\ b.hasTxedPart = FALSE /\ b.known = t.known /\ b.isClosing = t.isClosing
  BY ONLY <1>10, <1>12, <1>14 DEF TxBuffers
<1>16. Live => /\ scheduled = {} /\ m_state \in Expecting /\ m_objectBytesToBeReceived = 0 /\ Sent(down) = 0
  BY <1>2, <1>4, HttpFacts, Positive, Zero, Zenon DEF TakeTurns
<1>17. Live => Follows(m_objectBytesToBeReceived, down, b, quiet)
  <2>1. \A r, d, q : r = 0 /\ Sent(d) = 0 => Follows(r, d, b, q)
    BY <1>15 DEF Follows
  <2> QED
    BY <1>16, <2>1, Zenon
<1>18. Serving(b, events)
  BY <1>6, <1>7, <1>8, <1>12, <1>13, <1>14, <1>15, <1>16, <1>17, Zenon DEF Serving
<1>19. fatal' \in {"none", "closed"}
  BY <1>11
<1> QED
  BY <1>8, <1>11, <1>18, <1>19, ServedKeeps, Zenon

LEMMA TailOf ==
  ASSUME NEW T, NEW s \in Seq(T), s # << >>
  PROVE  /\ Tail(s) \in Seq(T) /\ Len(Tail(s)) = Len(s) - 1 /\ Len(s) > 0 /\ Len(s) \in Nat
         /\ Head(s) = s[1] /\ s[1] \in T
         /\ \A i \in 1 .. Len(s) - 1 : Tail(s)[i] = s[i + 1]
OBVIOUS

\* What is left of the requests once the server has read one.
LEMMA ReadOne ==
  ASSUME NEW u \in Seq(Requests \cup {"FIN"}), u # << >>, Len(u) <= 2, Len(u) = 2 => u[2] = "FIN",
         NEW v, v = Tail(u)
  PROVE  /\ v \in Seq(Requests \cup {"FIN"}) /\ Len(v) <= 1 /\ Len(v) # 2 /\ ~Asked(v)
         /\ Len(u) <= 1 => Len(v) = 0
<1>1. /\ v \in Seq(Requests \cup {"FIN"}) /\ Len(v) = Len(u) - 1 /\ Len(u) \in Nat
      /\ \A i \in 1 .. Len(u) - 1 : v[i] = u[i + 1]
  BY TailOf
<1>2. Len(u) = 2 => v[1] = "FIN"
  BY <1>1
<1>3. Len(v) > 0 => Len(u) = 2
  BY <1>1
<1>4. ~Asked(v)
  BY <1>2, <1>3, Zenon DEF Asked
<1>5. Len(v) <= 1 /\ Len(v) # 2 /\ (Len(u) <= 1 => Len(v) = 0)
  <2>1. Len(u) # 0
    BY EmptyIs, Zenon
  <2>2. Len(u) <= 2 /\ Len(v) = Len(u) - 1 /\ Len(u) \in Nat
    BY <1>1
  <2> QED
    BY ONLY SMTT(40), <2>1, <2>2
<1> QED
  BY <1>1, <1>4, <1>5, Zenon

LEMMA QuietStays ==
  ASSUME HttpInv, quiet' = quiet
  PROVE  (quiet' => quiet) /\ quiet' \in BOOLEAN
<1>1. PICK q \in BOOLEAN : q = quiet
  BY HttpFacts DEF HttpTyped
<1>2. quiet' = q
  BY <1>1
<1>3. quiet' => quiet
  <2>1. CASE q = TRUE
    BY <1>1, <2>1, Zenon
  <2>2. CASE q = FALSE
    BY <1>2, <2>2, Zenon
  <2> QED
    BY <2>1, <2>2
<1>4. quiet' \in BOOLEAN
  BY <1>2
<1> QED
  BY <1>3, <1>4, Zenon

LEMMA ServerReceivedDataKeeps == HttpInv /\ fatal = "none" /\ ServerReceivedData => HttpInv'
<1> SUFFICES ASSUME HttpInv, fatal = "none", ServerReceivedData PROVE HttpInv'
  OBVIOUS
<1>1. /\ m_txBuffer.known /\ up # << >> /\ Head(up) # "FIN" /\ up' = Tail(up) /\ serves' = Append(serves, Head(up))
      /\ m_state' = m_state /\ m_objectBytesToBeReceived' = m_objectBytesToBeReceived
      /\ m_embeddedObjectsToBeRequested' = m_embeddedObjectsToBeRequested
      /\ scheduled' = scheduled /\ link' = link /\ m_txBuffer' = m_txBuffer
      /\ down' = down /\ quiet' = quiet /\ fatal' = fatal
  BY DEF ServerReceivedData, clientVars
<1>2. /\ HttpTyped /\ StreamsEnd /\ ServerInTurn /\ LinkAllows /\ EventsFit
      /\ Live => TakeTurns /\ Follows(m_objectBytesToBeReceived, down, m_txBuffer, quiet)
  BY HttpFacts
<1>3. PICK u, v, s, w : u = up /\ v = up' /\ s = serves /\ w = serves'
  OBVIOUS
<1>4. /\ u \in Seq(Requests \cup {"FIN"}) /\ u # << >> /\ Len(u) <= 2 /\ (Len(u) = 2 => u[1] # "FIN" /\ u[2] = "FIN")
      /\ v = Tail(u) /\ s \in Seq(Requests) /\ w = Append(s, Head(u)) /\ Head(u) # "FIN"
  BY <1>1, <1>2, <1>3, Zenon DEF HttpTyped, StreamsEnd
<1>5. /\ v \in Seq(Requests \cup {"FIN"}) /\ Len(v) <= 1 /\ Len(v) # 2 /\ ~Asked(v)
      /\ Len(u) <= 1 => Len(v) = 0
  BY <1>4, ReadOne, Zenon
<1>6. Asked(u) /\ Len(u) > 0 /\ Head(u) \in Requests
  <2>1. Head(u) = u[1] /\ u[1] \in Requests \cup {"FIN"} /\ Len(u) > 0
    BY <1>4, TailOf, Zenon
  <2> QED
    BY <1>4, <2>1, Zenon DEF Asked
<1>7. m_txBuffer.size = 0 /\ Len(s) = 0 /\ ~(m_txBuffer.size > 0)
  BY <1>2, <1>3, <1>6, HttpNumbers, Zenon DEF ServerInTurn
<1>8. w \in Seq(Requests) /\ Len(w) = 1
  BY <1>4, <1>6, <1>7
<1>9. Len(w) <= 1 /\ Len(w) > 0 /\ ~(Len(w) = 0)
  BY <1>8
<1>10. HttpTyped'
  BY <1>1, <1>2, <1>3, <1>5, <1>8 DEF HttpTyped
<1>11. StreamsEnd'
  <2>1. m_state # "STOPPED" => Len(v) = 0
    BY <1>2, <1>3, <1>5, Zenon DEF StreamsEnd
  <2>2. /\ Len(v) <= 2 /\ ~(Len(v) = 2)
        /\ m_state # "STOPPED" => Len(v) <= 1 /\ ~(Len(v) > 0)
    <3>1. Len(v) \in Nat
      BY <1>5
    <3> QED
      BY ONLY <1>5, <2>1, <3>1
  <2> QED
    BY <1>1, <1>2, <1>3, <2>2, Zenon DEF StreamsEnd
<1>12. ServerInTurn'
  BY <1>1, <1>2, <1>3, <1>5, <1>7, <1>9, Zenon DEF ServerInTurn, ClosingHasMore
<1>13. LinkAllows'
  <2>1. quiet' => quiet
    BY <1>1, QuietStays
  <2>2. Connected /\ link \notin {"none", "opening", "half"}
    BY <1>1, <1>2, <1>3, <1>6, Zero, Zenon DEF LinkAllows
  <2>3. /\ Connected' /\ link' \notin {"none", "opening", "half"}
    BY <1>1, <2>2, Zenon DEF Connected
  <2>4. m_state' # "NOT_STARTED"
    BY <1>1, <1>2, <2>2 DEF LinkAllows
  <2>5. quiet => m_state' # "STOPPED" /\ link' # "broken" /\ ~Ended(down') /\ ~m_txBuffer'.isClosing
    BY <1>1, <1>2, Zenon DEF LinkAllows
  <2> QED
    BY <2>1, <2>3, <2>4, <2>5 DEF LinkAllows
<1>14. EventsFit'
  BY <1>1, <1>2, Zenon DEF EventsFit
<1>15. Live' => Live
  BY <1>1, Zenon DEF Live, Connected
<1>16. Live => TakeTurns'
  <2>1. SUFFICES ASSUME Live PROVE TakeTurns'
    OBVIOUS
  <2>2. /\ m_objectBytesToBeReceived = 0 /\ Sent(down) = 0 /\ m_state \in Expecting /\ scheduled = {}
    BY <1>2, <1>3, <1>6, <2>1, Zero, Zenon DEF TakeTurns
  <2> QED
    BY <1>1, <1>3, <1>9, <2>2, Zenon DEF TakeTurns, Expecting
<1>17. Live => Follows(m_objectBytesToBeReceived', down', m_txBuffer', quiet')
  BY <1>1, <1>2, Zenon
<1> QED
  BY <1>10, <1>11, <1>12, <1>13, <1>14, <1>15, <1>16, <1>17, Zenon DEF HttpInv, Live

\* The streams end no differently if nothing is added to them.
LEMMA NewConnectionCreatedKeeps == HttpInv /\ fatal = "none" /\ NewConnectionCreated => HttpInv'
<1> SUFFICES ASSUME HttpInv, fatal = "none", NewConnectionCreated PROVE HttpInv'
  OBVIOUS
<1>1. /\ link = "half" /\ link' = "open" /\ m_txBuffer' = [NotFound EXCEPT !.known = TRUE]
      /\ m_state' = m_state /\ m_objectBytesToBeReceived' = m_objectBytesToBeReceived
      /\ m_embeddedObjectsToBeRequested' = m_embeddedObjectsToBeRequested
      /\ scheduled' = scheduled /\ serves' = serves /\ up' = up
      /\ down' = down /\ quiet' = quiet /\ fatal' = fatal
  BY DEF NewConnectionCreated, clientVars
<1>2. /\ HttpTyped /\ StreamsEnd /\ ServerInTurn /\ LinkAllows /\ EventsFit
      /\ Live => TakeTurns /\ Follows(m_objectBytesToBeReceived, down, m_txBuffer, quiet)
  BY HttpFacts
<1>3. ~m_txBuffer.known /\ Len(down) = 0 /\ m_state # "NOT_STARTED"
  BY <1>1, <1>2 DEF LinkAllows
<1>4. m_txBuffer.size = 0 /\ Len(serves) = 0 /\ ~(Len(serves) > 0) /\ ~(m_txBuffer.size > 0)
  BY <1>2, <1>3, HttpNumbers, Zenon DEF ServerInTurn
<1>5. PICK n : n = NotFound
  OBVIOUS
<1>6. n \in TxBuffers /\ n.size = 0 /\ n.isClosing = FALSE
  BY <1>5, NotFoundIs DEF TxBuffers
<1>7. PICK b : b = [n EXCEPT !.known = TRUE]
  OBVIOUS
<1>8. b \in TxBuffers /\ b.size = 0 /\ b.isClosing = FALSE /\ b.known = TRUE
  BY <1>6, <1>7 DEF TxBuffers
<1>9. m_txBuffer' = b /\ ~(b.size > 0) /\ ~b.isClosing
  BY <1>1, <1>5, <1>7, <1>8
<1>10. HttpTyped'
  BY <1>1, <1>2, <1>8, <1>9 DEF HttpTyped
<1>11. StreamsEnd'
  <2>1. ~Ended(down')
    BY <1>1, <1>3, SentAtEnd, Zenon
  <2> QED
    BY <1>1, <1>2, <2>1, Zenon DEF StreamsEnd
<1>12. ServerInTurn'
  BY <1>1, <1>2, <1>4, <1>9, Zenon DEF ServerInTurn, ClosingHasMore
<1>13. LinkAllows'
  <2>1. quiet' => quiet
    BY <1>1, QuietStays
  <2>2. quiet => m_state # "STOPPED" /\ ~Ended(down)
    BY <1>2, Zenon DEF LinkAllows
  <2>3. Connected'
    BY <1>1 DEF Connected
  <2> QED
    BY <1>1, <1>3, <1>9, <2>1, <2>2, <2>3 DEF LinkAllows
<1>14. EventsFit'
  BY <1>1, <1>2, Zenon DEF EventsFit
<1>15. Live' => Live
  BY <1>1 DEF Live, Connected
<1>16. Live => TakeTurns'
  <2>1. quiet' => quiet
    BY <1>1, QuietStays
  <2> QED
    BY <1>1, <1>2, <1>4, <1>8, <1>9, <2>1, Zenon DEF TakeTurns, Expecting
<1>17. Live => Follows(m_objectBytesToBeReceived', down', m_txBuffer', quiet')
  <2>1. Sent(down) = 0
    BY <1>3, SentAtEnd, Zenon
  <2>2. ASSUME NEW r \in Nat, NEW d, NEW q, NEW p, NEW t \in Nat, t = 0, p.size = t, Sent(d) = 0, Follows(r, d, p, q)
        PROVE  Follows(r, d, b, q)
    BY <1>8, <1>9, <2>2 DEF Follows
  <2>3. m_objectBytesToBeReceived \in Nat /\ 0 \in Nat
    BY HttpNumbers
  <2>4. m_txBuffer.size = 0
    BY <1>4
  <2> QED
    BY <1>1, <1>2, <1>9, <2>1, <2>2, <2>3, <2>4, Zenon
<1> QED
  BY <1>10, <1>11, <1>12, <1>13, <1>14, <1>15, <1>16, <1>17, Zenon DEF HttpInv, Live

LEMMA EraseNow ==
  ASSUME HttpInv, m_txBuffer.known, Erase(down, serves), UNCHANGED <<clientVars, link>>,
         fatal' \in {"none", "closed"},
         up' = up \/ (~Live /\ up' \in Seq(Requests \cup {"FIN"}) /\ Len(up') = 0)
  PROVE  HttpInv'
<1>1. PICK d, events, b, q : d = down /\ events = serves /\ b = m_txBuffer /\ q = quiet
  OBVIOUS
<1>2. /\ d \in Seq(Parts) /\ ~Ended(d) /\ \A i \in 1 .. Len(d) : d[i] # Fin
      /\ ~Connected => Len(d) = 0
  BY <1>1, KnownFacts, Zenon
<1>3. events \in Seq(Requests) /\ Len(events) <= 1 /\ b \in TxBuffers /\ q \in BOOLEAN
  BY <1>1, HttpFacts, Zenon DEF HttpTyped, ServerInTurn
<1>4. Erase(d, events)
  BY <1>1
<1>5. Live => Follows(m_objectBytesToBeReceived, d, b, q)
  BY <1>1, HttpFacts, Zenon
<1>6. Live => Remain(up', d)
  <2>1. SUFFICES ASSUME Live PROVE Remain(up', d)
    OBVIOUS
  <2>2. up' = up /\ TakeTurns
    BY <2>1, HttpFacts, Zenon
  <2> QED
    BY <1>1, <2>2, Zenon DEF Remain, TakeTurns
<1>7. \/ up' = up
      \/ up' \in Seq(Requests \cup {"FIN"}) /\ Len(up') = 0
  OBVIOUS
<1> QED
  BY <1>2, <1>3, <1>4, <1>5, <1>6, <1>7, EraseKeeps, Zenon

LEMMA ServerNormalCloseKeeps == HttpInv /\ fatal = "none" /\ ServerNormalClose => HttpInv'
<1> SUFFICES ASSUME HttpInv, fatal = "none", ServerNormalClose PROVE HttpInv'
  OBVIOUS
<1>1. /\ m_txBuffer.known /\ up # << >> /\ Head(up) = "FIN" /\ up' = Tail(up) /\ ClosedByPeer
      /\ UNCHANGED <<clientVars, link>> /\ fatal' = "none"
  BY DEF ServerNormalClose
<1>2. PICK u, v : u = up /\ v = up'
  OBVIOUS
<1>3. /\ u \in Seq(Requests \cup {"FIN"}) /\ u # << >> /\ Len(u) <= 2 /\ (Len(u) = 2 => u[1] # "FIN")
      /\ v = Tail(u) /\ Head(u) = "FIN" /\ (m_state # "STOPPED" => (Len(u) > 0 => u[1] # "FIN"))
  BY <1>1, <1>2, HttpFacts, Zenon DEF HttpTyped, StreamsEnd
<1>4. v \in Seq(Requests \cup {"FIN"}) /\ Len(v) = Len(u) - 1 /\ Len(u) > 0 /\ Len(u) \in Nat /\ u[1] = "FIN"
  BY <1>3, TailOf
<1>5. Len(v) = 0
  <2>1. Len(u) <= 2 /\ Len(u) # 2
    BY <1>3, <1>4, Zenon
  <2> QED
    BY ONLY <1>4, <2>1
<1>6. ~Live
  BY <1>3, <1>4, Zenon DEF Live
<1>7. CASE m_txBuffer.size = 0
  <2>1. Erase(down, serves)
    BY <1>1, <1>7, Zenon DEF ClosedByPeer
  <2> QED
    BY <1>1, <1>2, <1>4, <1>5, <1>6, <2>1, EraseNow, Zenon
<1>8. CASE ~(m_txBuffer.size = 0)
  <2>1. Keep([m_txBuffer EXCEPT !.isClosing = TRUE], down, serves)
    BY <1>1, <1>8, Zenon DEF ClosedByPeer
  <2>2. PICK t : t = m_txBuffer
    OBVIOUS
  <2>3. PICK b : b = [t EXCEPT !.isClosing = TRUE]
    OBVIOUS
  <2>4. m_txBuffer' = b /\ serves' = serves /\ down' = down /\ quiet' = quiet
    BY <2>1, <2>2, <2>3, Zenon DEF Keep
  <2>5. t \in TxBuffers /\ t.known /\ t.size > 0 /\ Len(serves) = 0 /\ serves \in Seq(Requests)
    BY <1>1, <1>8, <2>2, HttpNumbers, HttpFacts, Zenon DEF HttpTyped, ServerInTurn
  <2>6. b \in TxBuffers /\ b.known = t.known /\ b.size = t.size
    BY ONLY <2>3, <2>5 DEF TxBuffers
  <2>7. /\ down \in Seq(Parts) /\ ~Ended(down) /\ \A i \in 1 .. Len(down) : down[i] # Fin
        /\ ~Connected => Len(down) = 0
        /\ link # "half"
    BY <1>1, KnownFacts
  <2>8. \A i \in 1 .. Len(down) - 1 : down[i] # Fin
    BY <2>7, FinNowhere, Zenon
  <2>9. quiet' \in BOOLEAN /\ ~quiet'
    <3>1. ~quiet
      BY <1>3, <1>4, HttpFacts, Zenon DEF LinkAllows
    <3> QED
      BY <2>4, <3>1, QuietStays, Zenon
  <2>10. ~Asked(up')
    BY <1>2, <1>5, Zero, Zenon DEF Asked
  <2> QED
    BY <1>1, <1>2, <1>4, <1>5, <1>6, <2>2, <2>4, <2>5, <2>6, <2>7, <2>8, <2>9, <2>10, ServerMoves, Zenon
<1> QED
  BY <1>7, <1>8

LEMMA ServerErrorCloseKeeps == HttpInv /\ fatal = "none" /\ ServerErrorClose => HttpInv'
<1> SUFFICES ASSUME HttpInv, fatal = "none", ServerErrorClose PROVE HttpInv'
  OBVIOUS
<1>1. /\ UNCHANGED <<clientVars, link>> /\ up' = up /\ fatal' \in {"none", "closed"}
      /\ IF m_txBuffer.known THEN Erase(down, serves) ELSE Keep(m_txBuffer, down, serves)
  BY DEF ServerErrorClose
<1>2. CASE m_txBuffer.known
  BY <1>1, <1>2, EraseNow, Zenon
<1>3. CASE ~m_txBuffer.known
  <2>1. UNCHANGED <<clientVars, m_txBuffer, serves, link, up, down, quiet>>
    BY <1>1, <1>3 DEF Keep
  <2> QED
    BY <1>1, <2>1, HttpSame, Zenon
<1> QED
  BY <1>2, <1>3

LEMMA StopHttpServerKeeps == HttpInv /\ fatal = "none" /\ StopHttpServer => HttpInv'
<1> SUFFICES ASSUME HttpInv, fatal = "none", StopHttpServer PROVE HttpInv'
  OBVIOUS
<1>1. /\ UNCHANGED <<clientVars, link>> /\ up' = up /\ fatal' \in {"none", "closed"}
      /\ IF m_txBuffer.known THEN Erase(down, serves) ELSE Keep(m_txBuffer, down, serves)
  BY DEF StopHttpServer
<1>2. CASE m_txBuffer.known
  BY <1>1, <1>2, EraseNow, Zenon
<1>3. CASE ~m_txBuffer.known
  <2>1. UNCHANGED <<clientVars, m_txBuffer, serves, link, up, down, quiet>>
    BY <1>1, <1>3 DEF Keep
  <2> QED
    BY <1>1, <2>1, HttpSame, Zenon
<1> QED
  BY <1>2, <1>3

----------------------------------------------------------------------------
(* The client's steps.                                                     *)

\* The server sees of a step of the client only what it asks for.
LEMMA ServerUntouched ==
  ASSUME ServerInTurn, m_txBuffer' = m_txBuffer, serves' = serves, Asked(up') => Asked(up)
  PROVE  ServerInTurn'
BY Zenon DEF ServerInTurn, ClosingHasMore

LEMMA StartHttpClientKeeps == HttpInv /\ fatal = "none" /\ StartHttpClient => HttpInv'
<1> SUFFICES ASSUME HttpInv, fatal = "none", StartHttpClient PROVE HttpInv'
  OBVIOUS
<1>1. /\ m_state = "NOT_STARTED" /\ m_state' = "CONNECTING" /\ link' = "opening"
      /\ m_objectBytesToBeReceived' = m_objectBytesToBeReceived
      /\ m_embeddedObjectsToBeRequested' = m_embeddedObjectsToBeRequested
      /\ scheduled' = scheduled /\ m_txBuffer' = m_txBuffer /\ serves' = serves /\ up' = up
      /\ down' = down /\ quiet' = quiet /\ fatal' = fatal
  BY DEF StartHttpClient, serverVars
<1>2. HttpTyped /\ StreamsEnd /\ ServerInTurn /\ LinkAllows /\ EventsFit
  BY HttpFacts
<1>3. link = "none" /\ scheduled = {} /\ m_objectBytesToBeReceived = 0 /\ ~m_txBuffer.known
  BY <1>1, <1>2 DEF LinkAllows
<1>4. Len(up) = 0 /\ Len(down) = 0
  BY <1>2, <1>3 DEF LinkAllows, Connected
<1>5. HttpTyped'
  BY <1>1, <1>2 DEF HttpTyped, ClientStates
<1>6. StreamsEnd'
  <2>1. ~Ended(down) /\ ~(Len(up) > 0) /\ Len(up) <= 1
    BY <1>4, SentAtEnd, Zero, Zenon
  <2> QED
    BY <1>1, <1>2, <2>1, Zenon DEF StreamsEnd
<1>7. ServerInTurn'
  BY <1>1, <1>2, ServerUntouched, Zenon
<1>8. LinkAllows'
  <2>1. quiet' => quiet
    BY <1>1, QuietStays
  <2>2. quiet => ~m_txBuffer.isClosing
    BY <1>2, Zenon DEF LinkAllows
  <2>3. ~Ended(down)
    BY <1>4, SentAtEnd, Zenon
  <2> QED
    BY <1>1, <1>3, <1>4, <2>1, <2>2, <2>3 DEF LinkAllows
<1>9. EventsFit'
  BY <1>1, <1>3 DEF EventsFit
<1>10. ~Connected'
  BY <1>1 DEF Connected
<1> QED
  BY <1>5, <1>6, <1>7, <1>8, <1>9, <1>10, Zenon DEF HttpInv

LEMMA ConnectionFailedKeeps == HttpInv /\ fatal = "none" /\ ConnectionFailed => HttpInv'
<1> SUFFICES ASSUME HttpInv, fatal = "none", ConnectionFailed PROVE HttpInv'
  OBVIOUS
<1>1. /\ link = "opening" /\ link' = "none" /\ quiet' = FALSE
      /\ m_state' = m_state /\ m_objectBytesToBeReceived' = m_objectBytesToBeReceived
      /\ m_embeddedObjectsToBeRequested' = m_embeddedObjectsToBeRequested
      /\ scheduled' = scheduled /\ m_txBuffer' = m_txBuffer /\ serves' = serves /\ up' = up
      /\ down' = down /\ fatal' = fatal
  BY DEF ConnectionFailed, serverVars, clientVars
<1>2. HttpTyped /\ StreamsEnd /\ ServerInTurn /\ LinkAllows /\ EventsFit
  BY HttpFacts
<1>3. /\ scheduled = {} /\ m_objectBytesToBeReceived = 0 /\ ~m_txBuffer.known /\ m_state = "CONNECTING"
      /\ Len(up) = 0 /\ Len(down) = 0
  BY <1>1, <1>2 DEF LinkAllows, Connected
<1>4. HttpTyped'
  BY <1>1, <1>2 DEF HttpTyped
<1>5. StreamsEnd'
  BY <1>1, <1>2, Zenon DEF StreamsEnd
<1>6. ServerInTurn'
  BY <1>1, <1>2, ServerUntouched, Zenon
<1>7. LinkAllows'
  BY <1>1, <1>3 DEF LinkAllows
<1>8. EventsFit'
  BY <1>1, <1>2, Zenon DEF EventsFit
<1>9. ~Connected'
  BY <1>1 DEF Connected
<1> QED
  BY <1>4, <1>5, <1>6, <1>7, <1>8, <1>9, Zenon DEF HttpInv

LEMMA ConnectionSucceededKeeps == HttpInv /\ fatal = "none" /\ ConnectionSucceeded => HttpInv'
<1> SUFFICES ASSUME HttpInv, fatal = "none", ConnectionSucceeded PROVE HttpInv'
  OBVIOUS
<1>1. /\ link = "opening" /\ link' = "half"
      /\ IF m_state = "CONNECTING"
         THEN scheduled' = scheduled \cup {"RequestMain"} /\ UNCHANGED fatal
         ELSE fatal' = "state" /\ UNCHANGED scheduled
      /\ m_state' = m_state /\ m_objectBytesToBeReceived' = m_objectBytesToBeReceived
      /\ m_embeddedObjectsToBeRequested' = m_embeddedObjectsToBeRequested
      /\ m_txBuffer' = m_txBuffer /\ serves' = serves /\ up' = up
      /\ down' = down /\ quiet' = quiet
  BY DEF ConnectionSucceeded, serverVars
<1>2. HttpTyped /\ StreamsEnd /\ ServerInTurn /\ LinkAllows /\ EventsFit
  BY HttpFacts
<1>3. /\ scheduled = {} /\ m_objectBytesToBeReceived = 0 /\ ~m_txBuffer.known /\ m_state = "CONNECTING"
      /\ Len(up) = 0 /\ Len(down) = 0
  BY <1>1, <1>2 DEF LinkAllows, Connected
<1>4. scheduled' = {"RequestMain"} /\ fatal' = fatal
  BY <1>1, <1>3
<1>5. m_txBuffer.size = 0 /\ Len(serves) = 0 /\ ~(Len(serves) > 0) /\ ~(m_txBuffer.size > 0) /\ ~(Len(up) > 0)
  BY <1>2, <1>3, HttpNumbers, Zero, Zenon DEF ServerInTurn
<1>6. HttpTyped'
  BY <1>1, <1>2, <1>4 DEF HttpTyped, ClientEvents
<1>7. StreamsEnd'
  BY <1>1, <1>2, Zenon DEF StreamsEnd
<1>8. ServerInTurn'
  BY <1>1, <1>2, ServerUntouched, Zenon
<1>9. LinkAllows'
  <2>1. quiet' => quiet
    BY <1>1, QuietStays
  <2>2. quiet => ~m_txBuffer.isClosing /\ ~Ended(down)
    BY <1>2, Zenon DEF LinkAllows
  <2> QED
    BY <1>1, <1>3, <2>1, <2>2 DEF LinkAllows, Connected
<1>10. EventsFit'
  BY <1>1, <1>3, <1>4 DEF EventsFit
<1>11. Sent(down) = 0 /\ ~(Sent(down) > 0) /\ ~(m_objectBytesToBeReceived > 0)
  BY <1>3, SentAtEnd, Zero, Zenon
<1>12. TakeTurns'
  <2>1. scheduled' # {}
    BY <1>4
  <2> QED
    BY <1>1, <1>3, <1>5, <1>11, <2>1, Zenon DEF TakeTurns
<1>13. Follows(m_objectBytesToBeReceived', down', m_txBuffer', quiet')
  <2>1. \A r, d, b, q : r = 0 /\ Sent(d) = 0 /\ ~(b.size > 0) => Follows(r, d, b, q)
    BY DEF Follows
  <2> QED
    BY <1>1, <1>3, <1>5, <1>11, <2>1, Zenon
<1> QED
  BY <1>6, <1>7, <1>8, <1>9, <1>10, <1>12, <1>13, Zenon DEF HttpInv

LEMMA BreakLinkKeeps == HttpInv /\ fatal = "none" /\ BreakLink => HttpInv'
<1> SUFFICES ASSUME HttpInv, fatal = "none", BreakLink PROVE HttpInv'
  OBVIOUS
<1>1. /\ Connected /\ link' = "broken" /\ up' = << >> /\ down' = << >> /\ quiet' = FALSE
      /\ m_state' = m_state /\ m_objectBytesToBeReceived' = m_objectBytesToBeReceived
      /\ m_embeddedObjectsToBeRequested' = m_embeddedObjectsToBeRequested
      /\ scheduled' = scheduled /\ m_txBuffer' = m_txBuffer /\ serves' = serves /\ fatal' = fatal
  BY DEF BreakLink, serverVars, clientVars
<1>2. HttpTyped /\ StreamsEnd /\ ServerInTurn /\ LinkAllows /\ EventsFit
  BY HttpFacts
<1>3. /\ up' \in Seq(Requests \cup {"FIN"}) /\ down' \in Seq(Parts) /\ Len(up') = 0 /\ Len(down') = 0
  BY <1>1, NoParts
<1>4. HttpTyped'
  BY <1>1, <1>2, <1>3 DEF HttpTyped
<1>5. ~Ended(down') /\ ~Asked(up') /\ Len(up') <= 2 /\ ~(Len(up') = 2) /\ Len(up') <= 1 /\ ~(Len(up') > 0)
  BY <1>3, SentAtEnd, Zero, Zenon DEF Asked
<1>6. StreamsEnd'
  <2>1. \A i \in 1 .. Len(down') - 1 : down'[i] # Fin
    <3>1. 1 .. 0 - 1 = {}
      OBVIOUS
    <3> QED
      BY <1>3, <3>1, Zenon
  <2> QED
    BY <1>5, <2>1, Zenon DEF StreamsEnd
<1>7. ServerInTurn'
  BY <1>1, <1>2, <1>5, ServerUntouched, Zenon
<1>8. LinkAllows'
  <2>1. m_state # "NOT_STARTED"
    BY <1>1, <1>2 DEF LinkAllows, Connected
  <2> QED
    BY <1>1, <1>3, <2>1 DEF LinkAllows
<1>9. EventsFit'
  BY <1>1, <1>2, Zenon DEF EventsFit
<1>10. ~Connected'
  BY <1>1 DEF Connected
<1> QED
  BY <1>4, <1>6, <1>7, <1>8, <1>9, <1>10, Zenon DEF HttpInv

LEMMA NothingFollows == \A r, d, b, q : r = 0 /\ Sent(d) = 0 /\ ~(b.size > 0) => Follows(r, d, b, q)
BY DEF Follows

LEMMA OneRequest ==
  \A u \in Seq(Requests) : Len(u) = 1 => /\ u \in Seq(Requests \cup {"FIN"}) /\ Len(u) <= 2 /\ Len(u) <= 1
                                        /\ Len(u) # 2 /\ u[1] # "FIN"
BY DEF Requests

\* A step of the client on a connection that stays as it is.
LEMMA ClientMoves ==
  ASSUME HttpInv, UNCHANGED <<m_txBuffer, serves, link>>, fatal' \in {"none", "closed"},
         m_state' \in ClientStates,
         m_state' = m_state \/ (link \notin {"none", "opening"} /\ m_state' # "NOT_STARTED"),
         m_objectBytesToBeReceived' \in Nat, m_embeddedObjectsToBeRequested' \in 0 .. MaxEmbedded,
         \E e \in ClientEvents : scheduled' = {} \/ scheduled' = {e},
         up' = up \/ (up' \in Seq(Requests) /\ Len(up') = 1 /\ Len(serves) = 0 /\ ~(m_txBuffer.size > 0) /\ Connected),
         down' \in Seq(Parts), \A i \in 1 .. Len(down') - 1 : down'[i] # Fin,
         Ended(down') => Ended(down), Len(down) = 0 => Len(down') = 0,
         scheduled' # {} => scheduled # {} \/ Connected,
         m_objectBytesToBeReceived' > 0 => m_objectBytesToBeReceived > 0 \/ Connected,
         quiet' \in BOOLEAN, quiet' => quiet, m_state' = "STOPPED" <=> m_state = "STOPPED",
         EventsFit', m_state' # "STOPPED" /\ Connected =>
                       TakeTurns' /\ Follows(m_objectBytesToBeReceived', down', m_txBuffer', quiet')
  PROVE  HttpInv'
<1>1. m_txBuffer' = m_txBuffer /\ serves' = serves /\ link' = link
  OBVIOUS
<1>2. HttpTyped /\ StreamsEnd /\ ServerInTurn /\ LinkAllows /\ EventsFit
  BY HttpFacts
<1>3. up' \in Seq(Requests) /\ Len(up') = 1 => /\ up' \in Seq(Requests \cup {"FIN"}) /\ Len(up') <= 2 /\ Len(up') <= 1
                                               /\ Len(up') # 2 /\ up'[1] # "FIN"
  BY OneRequest, Zenon
<1>4. HttpTyped'
  <2>1. up' \in Seq(Requests \cup {"FIN"})
    BY <1>2, <1>3, Zenon DEF HttpTyped
  <2> QED
    BY <1>1, <1>2, <2>1, Zenon DEF HttpTyped
<1>5. StreamsEnd'
  <2>1. /\ Len(up') <= 2 /\ (Len(up') = 2 => up'[1] # "FIN" /\ up'[2] = "FIN")
        /\ m_state' # "STOPPED" => Len(up') <= 1 /\ (Len(up') > 0 => up'[1] # "FIN")
    BY <1>2, <1>3, Zenon DEF StreamsEnd
  <2>2. Ended(down') => ~m_txBuffer'.known
    BY <1>1, <1>2, Zenon DEF StreamsEnd
  <2> QED
    BY <2>1, <2>2, Zenon DEF StreamsEnd
<1>6. ServerInTurn'
  <2>1. Len(serves) = 0 => ~(Len(serves) > 0)
    BY Zero, Zenon
  <2> QED
    BY <1>1, <1>2, <2>1, Zenon DEF ServerInTurn, ClosingHasMore
<1>7. LinkAllows'
  <2>1. /\ ~Connected' => Len(up') = 0 /\ Len(down') = 0
        /\ link' \in {"none", "opening", "half"} => ~m_txBuffer'.known /\ Len(down') = 0
    BY <1>1, <1>2, Zenon DEF LinkAllows, Connected
  <2>2. link' \in {"none", "opening"} => scheduled' = {} /\ m_objectBytesToBeReceived' = 0
    <3>1. SUFFICES ASSUME link \in {"none", "opening"} PROVE scheduled' = {} /\ m_objectBytesToBeReceived' = 0
      BY <1>1
    <3>2. ~Connected /\ scheduled = {} /\ m_objectBytesToBeReceived = 0
      BY <1>2, <3>1 DEF LinkAllows, Connected
    <3>3. ~(m_objectBytesToBeReceived' > 0)
      BY <3>2, Positive, Zenon
    <3> QED
      BY <3>2, <3>3, Positive, Zenon
  <2>3. /\ link' = "opening" => m_state' = "CONNECTING"
        /\ m_state' = "NOT_STARTED" => link' = "none"
    BY <1>1, <1>2 DEF LinkAllows
  <2>4. quiet' => m_state' # "STOPPED" /\ link' # "broken" /\ ~Ended(down') /\ ~m_txBuffer'.isClosing
    BY <1>1, <1>2, Zenon DEF LinkAllows
  <2> QED
    BY <2>1, <2>2, <2>3, <2>4, Zenon DEF LinkAllows
<1>8. Connected' => Connected
  BY <1>1, Zenon DEF Connected
<1> QED
  BY <1>4, <1>5, <1>6, <1>7, <1>8, Zenon DEF HttpInv

LEMMA TheEvent ==
  ASSUME HttpInv, NEW event \in ClientEvents, event \in scheduled
  PROVE  /\ scheduled = {event} /\ m_objectBytesToBeReceived = 0 /\ m_state # "STOPPED" /\ link \notin {"none", "opening"}
         /\ Connected => /\ Len(up) = 0 /\ Len(serves) = 0 /\ m_txBuffer.size = 0 /\ Sent(down) = 0
                         /\ ~(m_txBuffer.size > 0)
<1>1. HttpTyped /\ LinkAllows /\ EventsFit /\ (Live => TakeTurns)
  BY HttpFacts, Zenon
<1>2. scheduled = {event}
  BY <1>1 DEF HttpTyped
<1>3. m_objectBytesToBeReceived = 0 /\ m_state # "STOPPED" /\ link \notin {"none", "opening"}
  BY <1>1, <1>2 DEF EventsFit, LinkAllows
<1>4. Connected => /\ Len(up) = 0 /\ Len(serves) = 0 /\ m_txBuffer.size = 0 /\ Sent(down) = 0
                   /\ ~(m_txBuffer.size > 0)
  BY <1>1, <1>3, Zero, Zenon DEF Live, TakeTurns
<1> QED
  BY <1>2, <1>3, <1>4, Zenon

LEMMA RequestKeeps ==
  ASSUME HttpInv, fatal = "none", NEW event \in ClientEvents, event \in scheduled, scheduled' = scheduled \ {event},
         NEW states, m_state \in states, NEW kind \in Requests, NEW next \in Expecting,
         NEW embedded \in Nat, embedded <= m_embeddedObjectsToBeRequested, Request(kind, states, next, embedded)
  PROVE  HttpInv'
<1>1. /\ m_objectBytesToBeReceived' = m_objectBytesToBeReceived /\ UNCHANGED <<m_txBuffer, serves, link>> /\ down' = down
      /\ \/ /\ up' = (IF Connected THEN Append(up, kind) ELSE up) /\ m_state' = next
            /\ m_embeddedObjectsToBeRequested' = m_embeddedObjectsToBeRequested - embedded
            /\ fatal' = IF m_objectBytesToBeReceived > 0 THEN "not received" ELSE fatal
            /\ quiet' = quiet
         \/ /\ quiet' = FALSE /\ m_state' = m_state /\ up' = up /\ fatal' = fatal
            /\ m_embeddedObjectsToBeRequested' = m_embeddedObjectsToBeRequested
  BY DEF Request, serverVars
<1>2. /\ scheduled = {event} /\ m_objectBytesToBeReceived = 0 /\ m_state # "STOPPED" /\ link \notin {"none", "opening"}
      /\ Connected => /\ Len(up) = 0 /\ Len(serves) = 0 /\ m_txBuffer.size = 0 /\ Sent(down) = 0
                      /\ ~(m_txBuffer.size > 0)
  BY TheEvent, Zenon
<1>3. scheduled' = {} /\ ~(m_objectBytesToBeReceived > 0)
  BY <1>2
<1>4. fatal' \in {"none", "closed"}
  BY <1>1, <1>3
<1>5. /\ m_state \in ClientStates /\ m_objectBytesToBeReceived \in Nat /\ m_embeddedObjectsToBeRequested \in 0 .. MaxEmbedded
      /\ down \in Seq(Parts) /\ \A i \in 1 .. Len(down) - 1 : down[i] # Fin
  BY HttpFacts, Zenon DEF HttpTyped, StreamsEnd
<1>6. /\ m_state' \in ClientStates /\ m_state' # "STOPPED"
      /\ m_state' = m_state \/ (link \notin {"none", "opening"} /\ m_state' # "NOT_STARTED")
  BY <1>1, <1>2, <1>5 DEF ClientStates, Expecting
<1>7. m_embeddedObjectsToBeRequested' \in 0 .. MaxEmbedded
  <2>1. \A n, m : n \in 0 .. m /\ m \in Nat /\ embedded <= n => n - embedded \in 0 .. m
    OBVIOUS
  <2> QED
    BY <1>1, <1>5, <2>1, HttpConstants, Zenon
<1>8. \E e \in ClientEvents : scheduled' = {} \/ scheduled' = {e}
  BY <1>3
<1>9. up' = up \/ (up' \in Seq(Requests) /\ Len(up') = 1 /\ Len(serves) = 0 /\ ~(m_txBuffer.size > 0) /\ Connected)
  <2>1. SUFFICES ASSUME Connected, up' = Append(up, kind) PROVE up' \in Seq(Requests) /\ Len(up') = 1
    BY <1>1, <1>2, Zenon
  <2>2. PICK u : u = up
    OBVIOUS
  <2>3. u \in Seq(Requests \cup {"FIN"}) /\ Len(u) = 0
    BY <1>2, <2>1, <2>2, HttpFacts, Zenon DEF HttpTyped
  <2>4. Append(u, kind) \in Seq(Requests) /\ Len(Append(u, kind)) = 1
    BY <2>3
  <2> QED
    BY <2>1, <2>2, <2>4, Zenon
<1>10. quiet' \in BOOLEAN /\ (quiet' => quiet)
  BY <1>1, QuietStays
<1>11. EventsFit'
  BY <1>1, <1>2, <1>3 DEF EventsFit
<1>12. Connected => TakeTurns'
  <2>1. SUFFICES ASSUME Connected PROVE TakeTurns'
    OBVIOUS
  <2>2. /\ Len(serves') = 0 /\ m_txBuffer'.size = 0 /\ Sent(down') = 0 /\ m_objectBytesToBeReceived' = 0
        /\ ~(Len(serves') > 0) /\ ~(m_txBuffer'.size > 0) /\ ~(Sent(down') > 0) /\ ~(m_objectBytesToBeReceived' > 0)
    BY <1>1, <1>2, <2>1, Zero, Zenon
  <2>3. CASE up' = up /\ quiet' = FALSE
    <3>1. ~(Len(up') > 0)
      BY <1>2, <2>1, <2>3, Zero, Zenon
    <3> QED
      BY <1>3, <2>2, <2>3, <3>1, Zenon DEF TakeTurns
  <2>4. CASE up' = Append(up, kind) /\ m_state' = next
    <3>1. PICK u : u = up
      OBVIOUS
    <3>2. u \in Seq(Requests \cup {"FIN"}) /\ Len(u) = 0
      BY <1>2, <2>1, <3>1, HttpFacts, Zenon DEF HttpTyped
    <3>3. Len(Append(u, kind)) > 0
      BY <3>2
    <3> QED
      BY <1>3, <2>2, <2>4, <3>1, <3>3, Zenon DEF TakeTurns, Expecting
  <2> QED
    BY <1>1, <2>1, <2>3, <2>4, Zenon
<1>13. Connected => Follows(m_objectBytesToBeReceived', down', m_txBuffer', quiet')
  BY <1>1, <1>2, NothingFollows, Zenon
<1>14. /\ down' \in Seq(Parts) /\ \A i \in 1 .. Len(down') - 1 : down'[i] # Fin
       /\ (Ended(down') => Ended(down)) /\ (Len(down) = 0 => Len(down') = 0)
       /\ m_objectBytesToBeReceived' \in Nat
       /\ (m_objectBytesToBeReceived' > 0 => m_objectBytesToBeReceived > 0)
       /\ scheduled = scheduled
  BY <1>1, <1>5, Zenon
<1> QED
  BY <1>1, <1>2, <1>3, <1>4, <1>6, <1>7, <1>8, <1>9, <1>10, <1>11, <1>12, <1>13, <1>14, ClientMoves, Zenon

LEMMA RequestMainObjectKeeps == HttpInv /\ fatal = "none" /\ RequestMainObject => HttpInv'
<1> SUFFICES ASSUME HttpInv, fatal = "none", RequestMainObject PROVE HttpInv'
  OBVIOUS
<1>1. /\ "RequestMain" \in scheduled /\ scheduled' = scheduled \ {"RequestMain"}
      /\ Request("MAIN", {"CONNECTING", "READING"}, "EXPECTING_MAIN_OBJECT", 0)
  BY DEF RequestMainObject
<1>2. m_state \in {"CONNECTING", "READING"} /\ m_embeddedObjectsToBeRequested \in 0 .. MaxEmbedded
  BY <1>1, HttpFacts, Zenon DEF EventsFit, HttpTyped
<1>3. /\ 0 \in Nat /\ 0 <= m_embeddedObjectsToBeRequested /\ "RequestMain" \in ClientEvents /\ "MAIN" \in Requests
      /\ "EXPECTING_MAIN_OBJECT" \in Expecting
  BY <1>2 DEF ClientEvents, Requests, Expecting
<1> QED
  BY <1>1, <1>2, <1>3, RequestKeeps, Zenon

LEMMA RequestEmbeddedObjectKeeps == HttpInv /\ fatal = "none" /\ RequestEmbeddedObject => HttpInv'
<1> SUFFICES ASSUME HttpInv, fatal = "none", RequestEmbeddedObject PROVE HttpInv'
  OBVIOUS
<1>1. /\ "RequestEmbedded" \in scheduled /\ scheduled' = scheduled \ {"RequestEmbedded"}
      /\ m_embeddedObjectsToBeRequested > 0
      /\ Request("EMBEDDED", {"CONNECTING", "PARSING_MAIN_OBJECT", "EXPECTING_EMBEDDED_OBJECT"},
                 "EXPECTING_EMBEDDED_OBJECT", 1)
  BY DEF RequestEmbeddedObject
<1>2. /\ m_state \in {"PARSING_MAIN_OBJECT", "EXPECTING_EMBEDDED_OBJECT"}
      /\ m_embeddedObjectsToBeRequested \in 0 .. MaxEmbedded
  BY <1>1, HttpFacts, Zenon DEF EventsFit, HttpTyped
<1>3. /\ 1 \in Nat /\ 1 <= m_embeddedObjectsToBeRequested /\ "RequestEmbedded" \in ClientEvents /\ "EMBEDDED" \in Requests
      /\ "EXPECTING_EMBEDDED_OBJECT" \in Expecting
      /\ m_state \in {"CONNECTING", "PARSING_MAIN_OBJECT", "EXPECTING_EMBEDDED_OBJECT"}
  BY <1>1, <1>2, HttpConstants DEF ClientEvents, Requests, Expecting
<1> QED
  BY <1>1, <1>3, RequestKeeps, Zenon

\* The first n elements of a stream, and the others.
LEMMA CutIs ==
  ASSUME NEW d \in Seq(Parts), NEW n \in 1 .. Len(d), NEW p, p = SubSeq(d, 1, n),
         NEW e, e = SubSeq(d, n + 1, Len(d))
  PROVE  /\ p \in Seq(Parts) /\ Len(p) = n /\ \A i \in 1 .. n : p[i] = d[i]
         /\ e \in Seq(Parts) /\ Len(e) = Len(d) - n /\ \A i \in 1 .. Len(d) - n : e[i] = d[n + i]
<1>1. Len(d) \in Nat /\ n \in Nat /\ n >= 1 /\ n <= Len(d)
  OBVIOUS
<1>2. p \in Seq(Parts) /\ Len(p) = n /\ \A i \in 1 .. n : p[i] = d[i]
  BY <1>1
<1>3. e \in Seq(Parts) /\ Len(e) = Len(d) - n /\ \A i \in 1 .. Len(d) - n : e[i] = d[n + i]
  BY <1>1
<1> QED
  BY <1>2, <1>3

\* What the client takes has no end in it: the end, if any, stays behind.
LEMMA CutEnd ==
  ASSUME NEW d \in Seq(Parts), \A i \in 1 .. Len(d) - 1 : d[i] # Fin, NEW n \in 1 .. Len(d), d[n] # Fin,
         NEW e, e = SubSeq(d, n + 1, Len(d))
  PROVE  /\ n <= Sent(d) /\ Sent(e) = Sent(d) - n /\ (Ended(e) <=> Ended(d))
         /\ \A i \in 1 .. Len(e) - 1 : e[i] # Fin
<1>1. e \in Seq(Parts) /\ Len(e) = Len(d) - n /\ \A i \in 1 .. Len(d) - n : e[i] = d[n + i]
  <2> PICK p : p = SubSeq(d, 1, n)
    OBVIOUS
  <2> QED
    BY ONLY d \in Seq(Parts), n \in 1 .. Len(d), p = SubSeq(d, 1, n), e = SubSeq(d, n + 1, Len(d)), CutIs
<1>2. Len(d) \in Nat /\ n \in Nat /\ n >= 1 /\ n <= Len(d)
  OBVIOUS
<1>3. Ended(d) => n # Len(d)
  BY DEF Ended
<1>4. n # Len(d) => e[Len(e)] = d[Len(d)] /\ Len(e) > 0
  <2>1. n # Len(d) => Len(d) - n \in 1 .. Len(d) - n /\ n + (Len(d) - n) = Len(d)
    BY <1>2
  <2> QED
    BY ONLY SMTT(40), <1>1, <1>2, <2>1
<1>5. Ended(e) <=> Ended(d)
  <2>1. CASE n = Len(d)
    BY <1>1, <1>2, <1>3, <2>1 DEF Ended
  <2>2. CASE n # Len(d)
    BY ONLY <1>1, <1>2, <1>4, <2>2 DEF Ended
  <2> QED
    BY <2>1, <2>2
<1>6. n <= Sent(d) /\ Sent(e) = Sent(d) - n
  BY <1>1, <1>2, <1>3, <1>5 DEF Sent
<1>7. \A i \in 1 .. Len(e) - 1 : e[i] # Fin
  <2>1. SUFFICES ASSUME NEW i \in 1 .. Len(e) - 1 PROVE e[i] # Fin
    OBVIOUS
  <2>2. i \in 1 .. Len(d) - n /\ n + i \in 1 .. Len(d) - 1
    BY <1>1, <1>2
  <2> QED
    BY <1>1, <2>2
<1> QED
  BY <1>5, <1>6, <1>7

\* The bytes of the object in p, of which x are expected, and what remains.
Content(r, p) == Bytes(IF r = 0 THEN Tail(p) ELSE p)
Expected(r, p) == IF r = 0 THEN Head(p) ELSE r
Taken(r, d, b, q, e, x) ==
  /\ x \in Nat /\ Follows(x, e, b, q) /\ x >= Sent(e) + b.size /\ (q => x = Sent(e) + b.size)

LEMMA TakenFollows ==
  ASSUME NEW d \in Seq(Parts), \A i \in 1 .. Len(d) - 1 : d[i] # Fin, NEW n \in 1 .. Len(d), d[n] # Fin,
         NEW e, e = SubSeq(d, n + 1, Len(d)), NEW p, p = SubSeq(d, 1, n), p[1] > 0 => n > 1,
         NEW r \in Nat, NEW b \in TxBuffers, NEW q \in BOOLEAN, Follows(r, d, b, q),
         NEW x, x = IF Expected(r, p) < Content(r, p) THEN 0 ELSE Expected(r, p) - Content(r, p)
  PROVE  Taken(r, d, b, q, e, x)
<1>1. /\ p \in Seq(Parts) /\ Len(p) = n /\ \A i \in 1 .. n : p[i] = d[i]
      /\ e \in Seq(Parts) /\ Len(e) = Len(d) - n /\ \A i \in 1 .. Len(d) - n : e[i] = d[n + i]
  BY CutIs
<1>2. n <= Sent(d) /\ Sent(e) = Sent(d) - n
  BY CutEnd
<1>3. Sent(d) \in Nat /\ Len(d) \in Nat /\ Sent(d) <= Len(d) /\ n \in Nat /\ n >= 1 /\ b.size \in Nat
  BY SentIs DEF TxBuffers
<1>4. Sent(d) > 0
  BY <1>2, <1>3
<1>5. \A i \in 2 .. Sent(d) : d[i] = 0
  BY DEF Follows
<1>6. \A i \in 1 .. Sent(e) : e[i] = 0
  <2>1. SUFFICES ASSUME NEW i \in 1 .. Sent(e) PROVE e[i] = 0
    OBVIOUS
  <2>2. i \in 1 .. Len(d) - n /\ n + i \in 2 .. Sent(d)
    BY <1>2, <1>3
  <2> QED
    BY <1>1, <1>5, <2>2
<1>7. /\ Content(r, p) \in Nat /\ Expected(r, p) \in Nat /\ Expected(r, p) >= Content(r, p)
      /\ Expected(r, p) - Content(r, p) >= Sent(e) + b.size
      /\ q => Expected(r, p) - Content(r, p) = Sent(e) + b.size
      /\ b.size > 0 => b.hasTxedPart
  <2>1. CASE r # 0
    <3>1. /\ d[1] = 0 /\ (b.size > 0 => b.hasTxedPart)
          /\ r >= Sent(d) + b.size /\ (q => r = Sent(d) + b.size)
      BY <1>4, <2>1 DEF Follows
    <3>2. \A i \in 1 .. Len(p) : p[i] = 0
      BY SMTT(40), <1>1, <1>2, <1>3, <1>5, <3>1
    <3>3. Bytes(p) = n
      BY <1>1, <3>2, BytesOfZeros
    <3>4. Content(r, p) = n /\ Expected(r, p) = r
      BY <2>1, <3>3 DEF Content, Expected
    <3> QED
      <4>1. r \in Nat /\ q \in BOOLEAN
        OBVIOUS
      <4>2. /\ n \in Nat /\ r >= n /\ r - n >= Sent(e) + b.size
            /\ q => r - n = Sent(e) + b.size
        BY ONLY SMTT(40), <1>2, <1>3, <3>1, <4>1
      <4> QED
        BY <3>1, <3>4, <4>1, <4>2, Zenon
  <2>2. CASE r = 0
    <3>1. /\ d[1] > 0 /\ (b.size > 0 => b.hasTxedPart)
          /\ d[1] + 1 >= Sent(d) + b.size /\ (q => d[1] + 1 = Sent(d) + b.size)
      BY <1>4, <2>2 DEF Follows
    <3>2. p[1] = d[1] /\ d[1] \in Nat
      <4>1. p[1] = d[1] /\ d[1] \in Parts
        BY <1>1, <1>3
      <4> QED
        BY <3>1, <4>1 DEF Parts, Fin
    <3>3. n > 1
      BY <3>1, <3>2
    <3>4. PICK t : t = Tail(p)
      OBVIOUS
    <3>5. p # << >>
      BY SMTT(40), <1>1, <1>3
    <3>6. t \in Seq(Parts) /\ Len(t) = n - 1 /\ Head(p) = p[1] /\ \A i \in 1 .. n - 1 : t[i] = p[i + 1]
      <4>1. /\ Tail(p) \in Seq(Parts) /\ Len(Tail(p)) = Len(p) - 1 /\ Head(p) = p[1]
            /\ \A i \in 1 .. Len(p) - 1 : Tail(p)[i] = p[i + 1]
        BY ONLY <1>1, <3>5, TailOf
      <4> QED
        BY <1>1, <3>4, <4>1, Zenon
    <3>7. \A i \in 1 .. Len(t) : t[i] = 0
      <4>1. SUFFICES ASSUME NEW i \in 1 .. Len(t) PROVE t[i] = 0
        OBVIOUS
      <4>2. i \in 1 .. n - 1 /\ i + 1 \in 1 .. n /\ i + 1 \in 2 .. Sent(d)
        BY <1>2, <1>3, <3>6
      <4> QED
        BY <1>1, <1>5, <3>6, <4>2
    <3>8. Bytes(t) = n - 1
      BY <3>6, <3>7, BytesOfZeros
    <3>9. Content(r, p) = n - 1 /\ Expected(r, p) = d[1]
      BY <2>2, <3>2, <3>4, <3>6, <3>8 DEF Content, Expected
    <3> QED
      <4>1. /\ n - 1 \in Nat /\ d[1] >= n - 1 /\ d[1] - (n - 1) >= Sent(e) + b.size
            /\ q => d[1] - (n - 1) = Sent(e) + b.size
        <5>1. PICK y : y = d[1]
          OBVIOUS
        <5>2. y \in Nat /\ y + 1 >= Sent(d) + b.size /\ (q => y + 1 = Sent(d) + b.size)
          BY <3>1, <3>2, <5>1, Zenon
        <5>3. /\ n - 1 \in Nat /\ y >= n - 1 /\ y - (n - 1) >= Sent(e) + b.size
              /\ q => y - (n - 1) = Sent(e) + b.size
          BY ONLY SMTT(40), <1>2, <1>3, <5>2, q \in BOOLEAN
        <5> QED
          BY <5>1, <5>3, Zenon
      <4> QED
        BY <3>1, <3>2, <3>9, <4>1, Zenon
  <2> QED
    BY <2>1, <2>2
<1>8. PICK c, m : c = Content(r, p) /\ m = Expected(r, p)
  OBVIOUS
<1>9. /\ c \in Nat /\ m \in Nat /\ m >= c /\ m - c >= Sent(e) + b.size
      /\ q => m - c = Sent(e) + b.size
      /\ x = IF m < c THEN 0 ELSE m - c
  BY <1>7, <1>8, Zenon
<1>10. x \in Nat /\ x >= Sent(e) + b.size /\ (q => x = Sent(e) + b.size)
  BY SMTT(40), <1>2, <1>3, <1>9
<1>11. Follows(x, e, b, q)
  <2>1. Sent(e) \in Nat
    BY <1>2, <1>3
  <2>2. \A i \in 2 .. Sent(e) : e[i] = 0
    BY ONLY <1>6, <2>1
  <2>3. Sent(e) > 0 => e[1] = 0
    BY ONLY <1>6, <2>1
  <2>4. b.size > 0 => b.hasTxedPart
    BY <1>7
  <2>5. x = 0 => ~(Sent(e) > 0) /\ ~(b.size > 0) /\ ~(x > 0)
    BY ONLY <1>3, <1>10, <2>1
  <2>6. x > 0 => x # 0
    BY Zero, Zenon
  <2>7. x # 0 => x > 0
    BY <1>10, Positive, Zenon
  <2> QED
    BY <1>10, <2>2, <2>3, <2>4, <2>5, <2>6, <2>7, Zenon DEF Follows
<1> QED
  BY <1>10, <1>11, Zenon DEF Taken

\* Nothing is going on but the event.
LEMMA OneEvent ==
  ASSUME HttpInv, scheduled' # {}, UNCHANGED <<m_txBuffer, serves, up>>, Len(up) = 0, Len(serves) = 0,
         ~(m_txBuffer.size > 0), m_objectBytesToBeReceived' = 0, Sent(down') = 0
  PROVE  TakeTurns' /\ Follows(m_objectBytesToBeReceived', down', m_txBuffer', quiet')
<1>1. /\ ~(Len(up') > 0) /\ ~(Len(serves') > 0) /\ ~(m_txBuffer'.size > 0) /\ ~(m_objectBytesToBeReceived' > 0)
      /\ ~(Sent(down') > 0) /\ Len(up') = 0 /\ Len(serves') = 0 /\ m_txBuffer'.size = 0
  <2>1. m_txBuffer' = m_txBuffer /\ serves' = serves /\ up' = up
    OBVIOUS
  <2> QED
    BY <2>1, HttpNumbers, Zero, Zenon
<1> QED
  BY <1>1, NothingFollows, Zenon DEF TakeTurns

LEMMA ParseMainObjectKeeps == HttpInv /\ fatal = "none" /\ ParseMainObject => HttpInv'
<1> SUFFICES ASSUME HttpInv, fatal = "none", ParseMainObject PROVE HttpInv'
  OBVIOUS
<1>1. PICK n \in 0 .. MaxEmbedded :
        /\ "Parse" \in scheduled
        /\ IF m_state # "PARSING_MAIN_OBJECT"
           THEN fatal' = "state" /\ scheduled' = scheduled \ {"Parse"}
                /\ UNCHANGED <<m_state, m_embeddedObjectsToBeRequested>>
           ELSE /\ m_embeddedObjectsToBeRequested' = n
                /\ scheduled' = (scheduled \ {"Parse"}) \cup {IF n > 0 THEN "RequestEmbedded" ELSE "RequestMain"}
                /\ m_state' = IF n > 0 THEN m_state ELSE "READING"
                /\ UNCHANGED fatal
        /\ UNCHANGED <<m_objectBytesToBeReceived, serverVars, link, up, down, unread, toTell, pages, quiet>>
  BY Zenon DEF ParseMainObject
<1>2. /\ scheduled = {"Parse"} /\ m_objectBytesToBeReceived = 0 /\ link \notin {"none", "opening"}
      /\ Connected => /\ Len(up) = 0 /\ Len(serves) = 0 /\ m_txBuffer.size = 0 /\ Sent(down) = 0
                      /\ ~(m_txBuffer.size > 0)
  <2>1. "Parse" \in ClientEvents
    BY DEF ClientEvents
  <2> QED
    BY <1>1, <2>1, TheEvent, Zenon
<1>3. m_state = "PARSING_MAIN_OBJECT"
  BY <1>1, HttpFacts, Zenon DEF EventsFit
<1>4. /\ m_embeddedObjectsToBeRequested' = n /\ fatal' = "none"
      /\ scheduled' = {IF n > 0 THEN "RequestEmbedded" ELSE "RequestMain"}
      /\ m_state' = IF n > 0 THEN m_state ELSE "READING"
  BY <1>1, <1>2, <1>3
<1>5. /\ UNCHANGED <<m_txBuffer, serves, link>> /\ m_objectBytesToBeReceived' = 0
      /\ up' = up /\ down' = down /\ quiet' = quiet /\ UNCHANGED <<m_txBuffer, serves, up>>
  BY <1>1, <1>2 DEF serverVars
<1>6. /\ m_state' \in ClientStates /\ m_state' # "STOPPED" /\ m_state # "STOPPED" /\ m_state' # "NOT_STARTED"
  BY <1>3, <1>4 DEF ClientStates
<1>7. PICK e \in ClientEvents : e = IF n > 0 THEN "RequestEmbedded" ELSE "RequestMain"
  BY DEF ClientEvents
<1>8. scheduled' = {e} /\ scheduled' # {} /\ scheduled # {}
  BY <1>2, <1>4, <1>7
<1>9. EventsFit'
  BY <1>3, <1>4, <1>5 DEF EventsFit
<1>10. /\ down \in Seq(Parts) /\ (\A i \in 1 .. Len(down) - 1 : down[i] # Fin)
  BY HttpFacts, Zenon DEF HttpTyped, StreamsEnd
<1>11. quiet' \in BOOLEAN /\ (quiet' => quiet)
  BY <1>5, QuietStays
<1>12. Connected => TakeTurns' /\ Follows(m_objectBytesToBeReceived', down', m_txBuffer', quiet')
  BY <1>2, <1>5, <1>8, OneEvent, Zenon
<1>13. m_objectBytesToBeReceived' \in Nat /\ ~(m_objectBytesToBeReceived' > 0) /\ fatal' \in {"none", "closed"}
  BY <1>4, <1>5
<1>14. \E x \in ClientEvents : scheduled' = {} \/ scheduled' = {x}
  BY <1>8, Zenon
<1> QED
  BY <1>2, <1>4, <1>5, <1>6, <1>8, <1>9, <1>10, <1>11, <1>12, <1>13, <1>14, ClientMoves, Zenon

LEMMA HeadOfDown ==
  ASSUME NEW d \in Seq(Parts), d # << >>, \A i \in 1 .. Len(d) - 1 : d[i] # Fin, NEW e, e = Tail(d)
  PROVE  /\ e \in Seq(Parts) /\ (Head(d) = Fin => Len(d) = 1 /\ Ended(d) /\ Len(e) = 0)
         /\ Head(d) # Fin => \A i \in 1 .. Len(e) - 1 : e[i] # Fin
         /\ (Ended(e) => Ended(d)) /\ (Len(d) = 0 => Len(e) = 0)
<1>1. /\ e \in Seq(Parts) /\ Len(e) = Len(d) - 1 /\ Len(d) > 0 /\ Len(d) \in Nat
      /\ Head(d) = d[1]
      /\ \A i \in 1 .. Len(d) - 1 : e[i] = d[i + 1]
  BY TailOf
<1>2. Head(d) = Fin => Len(d) = 1
  BY <1>1
<1>3. Len(d) = 1 => Len(e) = 0
  BY <1>1
<1>4. Head(d) = Fin => Ended(d)
  BY <1>1, <1>2 DEF Ended
<1>5. \A i \in 1 .. Len(e) - 1 : e[i] # Fin
  <2>1. SUFFICES ASSUME NEW i \in 1 .. Len(e) - 1 PROVE e[i] # Fin
    OBVIOUS
  <2>2. i \in 1 .. Len(d) - 1 /\ i + 1 \in 1 .. Len(d) - 1
    BY <1>1
  <2> QED
    BY <1>1, <2>2
<1>6. Ended(e) => Ended(d)
  <2>1. Len(e) > 0 => Len(e) \in 1 .. Len(d) - 1 /\ Len(e) + 1 = Len(d)
    BY <1>1
  <2> QED
    BY <1>1, <2>1 DEF Ended
<1>7. Len(d) = 0 => Len(e) = 0
  BY <1>1
<1> QED
  BY <1>1, <1>2, <1>3, <1>4, <1>5, <1>6, <1>7, Zenon

LEMMA LeftUnreadKeeps == HttpInv /\ fatal = "none" /\ LeftUnread => HttpInv'
<1> SUFFICES ASSUME HttpInv, fatal = "none", LeftUnread PROVE HttpInv'
  OBVIOUS
<1>1. /\ m_state = "STOPPED" /\ m_state' = m_state /\ scheduled' = scheduled /\ down # << >> /\ Head(down) # Fin
      /\ m_objectBytesToBeReceived' = m_objectBytesToBeReceived
      /\ m_embeddedObjectsToBeRequested' = m_embeddedObjectsToBeRequested
      /\ down' = Tail(down) /\ UNCHANGED <<m_txBuffer, serves, link>> /\ up' = up /\ quiet' = quiet
      /\ fatal' \in {"none", "closed"}
  BY DEF LeftUnread, clientVars, serverVars
<1>2. HttpTyped /\ StreamsEnd /\ EventsFit
  BY HttpFacts
<1>3. PICK d, e : d = down /\ e = down'
  OBVIOUS
<1>4. /\ d \in Seq(Parts) /\ d # << >> /\ (\A i \in 1 .. Len(d) - 1 : d[i] # Fin) /\ e = Tail(d) /\ Head(d) # Fin
  BY <1>1, <1>2, <1>3, Zenon DEF HttpTyped, StreamsEnd
<1>5. /\ e \in Seq(Parts) /\ (\A i \in 1 .. Len(e) - 1 : e[i] # Fin)
      /\ (Ended(e) => Ended(d)) /\ (Len(d) = 0 => Len(e) = 0)
  BY <1>4, HeadOfDown, Zenon
<1>6. EventsFit'
  BY <1>1, <1>2, Zenon DEF EventsFit
<1>7. /\ m_state' \in ClientStates /\ m_objectBytesToBeReceived' \in Nat /\ m_embeddedObjectsToBeRequested' \in 0 .. MaxEmbedded
      /\ \E x \in ClientEvents : scheduled' = {} \/ scheduled' = {x}
  BY <1>1, <1>2, Zenon DEF HttpTyped
<1>8. quiet' \in BOOLEAN /\ (quiet' => quiet)
  BY <1>1, QuietStays
<1> QED
  BY <1>1, <1>3, <1>5, <1>6, <1>7, <1>8, ClientMoves, Zenon

LEMMA ClientClosedKeeps == HttpInv /\ fatal = "none" /\ ClientClosed => HttpInv'
<1> SUFFICES ASSUME HttpInv, fatal = "none", ClientClosed PROVE HttpInv'
  OBVIOUS
<1>1. /\ (down # << >> /\ Head(down) = Fin /\ down' = Tail(down)) \/ down' = down
      /\ scheduled' = {} /\ quiet' = FALSE /\ m_state' = m_state
      /\ m_objectBytesToBeReceived' = m_objectBytesToBeReceived
      /\ m_embeddedObjectsToBeRequested' = m_embeddedObjectsToBeRequested
      /\ UNCHANGED <<m_txBuffer, serves, link>> /\ up' = up /\ m_txBuffer' = m_txBuffer /\ serves' = serves
      /\ fatal' \in {"none", "closed"}
  BY DEF ClientClosed, serverVars
<1>2. HttpTyped /\ StreamsEnd /\ EventsFit
  BY HttpFacts
<1>3. PICK d, e, b, q : d = down /\ e = down' /\ b = m_txBuffer /\ q = quiet
  OBVIOUS
<1>4. /\ d \in Seq(Parts) /\ (\A i \in 1 .. Len(d) - 1 : d[i] # Fin) /\ b \in TxBuffers /\ q \in BOOLEAN
      /\ (d # << >> /\ Head(d) = Fin /\ e = Tail(d)) \/ e = d
  BY <1>1, <1>2, <1>3, Zenon DEF HttpTyped, StreamsEnd
<1>5. e = d \/ (Head(d) = Fin /\ Len(d) = 1 /\ Ended(d) /\ Len(e) = 0 /\ e \in Seq(Parts))
  BY <1>4, HeadOfDown, Zenon
<1>6. /\ e \in Seq(Parts) /\ (\A i \in 1 .. Len(e) - 1 : e[i] # Fin)
      /\ (Ended(e) => Ended(d)) /\ (Len(d) = 0 => Len(e) = 0) /\ Sent(e) = Sent(d)
  <2>1. CASE e = d
    BY <1>4, <2>1, Zenon
  <2>2. CASE Len(d) = 1 /\ Ended(d) /\ Len(e) = 0 /\ e \in Seq(Parts)
    <3>1. Sent(d) = 0
      BY <1>4, <2>2, SentIs
    <3>2. Sent(e) = 0 /\ ~Ended(e)
      BY <2>2, SentAtEnd, Zenon
    <3>3. 1 .. 0 - 1 = {}
      OBVIOUS
    <3> QED
      BY <2>2, <3>1, <3>2, <3>3, Zenon
  <2> QED
    BY <1>5, <2>1, <2>2, Zenon
<1>7. EventsFit'
  BY <1>1 DEF EventsFit
<1>8. /\ m_state' \in ClientStates /\ m_objectBytesToBeReceived' \in Nat /\ m_embeddedObjectsToBeRequested' \in 0 .. MaxEmbedded
      /\ \E x \in ClientEvents : scheduled' = {} \/ scheduled' = {x}
  BY <1>1, <1>2, Zenon DEF HttpTyped
<1>9. quiet' \in BOOLEAN /\ ~quiet'
  BY <1>1
<1>10. Live => TakeTurns'
  <2>1. Live => TakeTurns /\ Sent(down') = Sent(down)
    BY <1>3, <1>6, HttpFacts, Zenon
  <2>2. Live => /\ Len(up') > 0 \/ Len(serves') > 0 => m_objectBytesToBeReceived' = 0 /\ Sent(down') = 0
    BY <1>1, <2>1, Zenon DEF TakeTurns
  <2>3. Live => /\ Len(up') > 0 \/ Len(serves') > 0 \/ m_txBuffer'.size > 0 \/ Sent(down') > 0
                     \/ m_objectBytesToBeReceived' > 0 => m_state' \in Expecting
    BY <1>1, <2>1, Zenon DEF TakeTurns
  <2> QED
    BY <1>1, <2>2, <2>3, Zenon DEF TakeTurns, Expecting
<1>11. Live => Follows(m_objectBytesToBeReceived', down', m_txBuffer', quiet')
  <2>1. SUFFICES ASSUME Live PROVE Follows(m_objectBytesToBeReceived', down', m_txBuffer', quiet')
    OBVIOUS
  <2>2. PICK r \in Nat : r = m_objectBytesToBeReceived
    BY <1>2 DEF HttpTyped
  <2>3. Follows(r, d, b, q)
    BY <1>3, <2>1, <2>2, HttpFacts, Zenon
  <2>4. \A i \in 1 .. Sent(d) : e[i] = d[i]
    <3>1. CASE e = d
      BY <3>1, Zenon
    <3>2. CASE Len(d) = 1 /\ Ended(d)
      <4>1. 1 .. Sent(d) = {}
        BY <1>4, <3>2, SentIs
      <4> QED
        BY <4>1, Zenon
    <3> QED
      BY <1>5, <3>1, <3>2, Zenon
  <2>5. Sent(d) \in Nat /\ Sent(e) = Sent(d)
    BY <1>4, <1>6, SentIs
  <2>6. Follows(r, e, b, FALSE)
    <3>1. (Sent(d) > 0 => e[1] = d[1]) /\ \A i \in 2 .. Sent(d) : e[i] = d[i]
      BY ONLY <2>4, <2>5
    <3> QED
      BY <2>3, <2>5, <3>1, Zenon DEF Follows
  <2> QED
    BY <1>1, <1>3, <2>2, <2>6, Zenon
<1>12. m_state # "STOPPED" /\ Connected => Live
  BY Zenon DEF Live
<1> QED
  BY <1>1, <1>3, <1>6, <1>7, <1>8, <1>9, <1>10, <1>11, <1>12, ClientMoves, Zenon

LEMMA StopHttpClientKeeps == HttpInv /\ fatal = "none" /\ StopHttpClient => HttpInv'
<1> SUFFICES ASSUME HttpInv, fatal = "none", StopHttpClient PROVE HttpInv'
  OBVIOUS
<1>1. /\ m_state \notin {"NOT_STARTED", "STOPPED"} /\ m_state' = "STOPPED" /\ scheduled' = {}
      /\ up' = (IF Connected THEN Append(up, "FIN") ELSE up)
      /\ link' = (IF link = "opening" THEN "none" ELSE link)
      /\ quiet' = FALSE /\ m_objectBytesToBeReceived' = m_objectBytesToBeReceived
      /\ m_embeddedObjectsToBeRequested' = m_embeddedObjectsToBeRequested
      /\ m_txBuffer' = m_txBuffer /\ serves' = serves /\ down' = down /\ fatal' = fatal
  BY DEF StopHttpClient, serverVars
<1>2. HttpTyped /\ StreamsEnd /\ ServerInTurn /\ LinkAllows /\ EventsFit
  BY HttpFacts
<1>3. PICK u, v : u = up /\ v = up'
  OBVIOUS
<1>4. u \in Seq(Requests \cup {"FIN"}) /\ Len(u) <= 1 /\ (Len(u) > 0 => u[1] # "FIN")
  BY <1>1, <1>2, <1>3 DEF HttpTyped, StreamsEnd
<1>5. /\ v \in Seq(Requests \cup {"FIN"}) /\ Len(v) <= 2 /\ (Len(v) = 2 => v[1] # "FIN" /\ v[2] = "FIN")
      /\ Asked(v) => Asked(u)
  <2>1. CASE v = u
    <3>1. Len(u) <= 2 /\ Len(u) # 2
      BY <1>4
    <3> QED
      BY <1>4, <2>1, <3>1, Zenon
  <2>2. CASE v = Append(u, "FIN")
    <3>1. /\ v \in Seq(Requests \cup {"FIN"}) /\ Len(v) = Len(u) + 1 /\ Len(u) \in Nat
          /\ v[Len(u) + 1] = "FIN" /\ (\A i \in 1 .. Len(u) : v[i] = u[i])
      BY <1>4, <2>2
    <3>2. Len(v) <= 2 /\ (Len(v) = 2 => Len(u) = 1)
      <4>1. Len(u) <= 1
        BY <1>4
      <4>2. Len(v) = Len(u) + 1 /\ Len(u) \in Nat
        BY <3>1
      <4>3. \A n \in Nat : n <= 1 => n + 1 <= 2 /\ (n + 1 = 2 => n = 1)
        OBVIOUS
      <4> QED
        BY <4>1, <4>2, <4>3, Zenon
    <3>3. Len(u) > 0 => v[1] = u[1]
      BY <3>1
    <3>4. ~(Len(u) > 0) => v[1] = "FIN"
      BY <3>1
    <3>5. Len(u) = 1 => Len(u) > 0 /\ v[2] = "FIN"
      BY <3>1
    <3> QED
      BY <1>4, <3>1, <3>2, <3>3, <3>4, <3>5, Zenon DEF Asked
  <2> QED
    BY <1>1, <1>3, <2>1, <2>2, Zenon
<1>6. link' \in {"none", "opening", "half", "open", "broken"} /\ link' # "opening" /\ (~Connected' => ~Connected)
  BY <1>1, <1>2 DEF HttpTyped, Connected
<1>7. HttpTyped'
  BY <1>1, <1>2, <1>3, <1>5, <1>6 DEF HttpTyped, ClientStates, ClientEvents
<1>8. StreamsEnd'
  BY <1>1, <1>2, <1>3, <1>5, Zenon DEF StreamsEnd
<1>9. ServerInTurn'
  BY <1>1, <1>2, <1>3, <1>5, ServerUntouched, Zenon
<1>10. LinkAllows'
  <2>1. /\ link' \in {"none", "opening", "half"} => link \in {"none", "opening", "half"}
        /\ link' \in {"none", "opening"} => link \in {"none", "opening"}
    BY <1>1
  <2>2. ~Connected' => Len(up') = 0 /\ Len(down') = 0
    BY <1>1, <1>2, <1>6, Zenon DEF LinkAllows
  <2>3. /\ link' \in {"none", "opening", "half"} => ~m_txBuffer'.known /\ Len(down') = 0
        /\ link' \in {"none", "opening"} => scheduled' = {} /\ m_objectBytesToBeReceived' = 0
    BY <1>1, <1>2, <2>1, Zenon DEF LinkAllows
  <2>4. m_state' # "NOT_STARTED" /\ ~quiet'
    BY <1>1
  <2> QED
    BY <1>6, <2>2, <2>3, <2>4, Zenon DEF LinkAllows
<1>11. EventsFit'
  BY <1>1 DEF EventsFit
<1> QED
  BY <1>1, <1>7, <1>8, <1>9, <1>10, <1>11, Zenon DEF HttpInv

LEMMA ClientReceivedDataKeeps == HttpInv /\ fatal = "none" /\ ClientReceivedData => HttpInv'
<1> SUFFICES ASSUME HttpInv, fatal = "none", ClientReceivedData PROVE HttpInv'
  OBVIOUS
<1>1. PICK n \in 1 .. Len(down) :
        /\ m_state # "STOPPED" /\ Fin \notin ToSet(SubSeq(down, 1, n)) /\ (SubSeq(down, 1, n)[1] > 0 => n > 1)
        /\ down' = SubSeq(down, n + 1, Len(down))
        /\ IF m_state \notin Expecting
           THEN fatal' = "state" /\ UNCHANGED <<m_state, m_objectBytesToBeReceived, scheduled>>
           ELSE /\ m_objectBytesToBeReceived' = Remaining(SubSeq(down, 1, n))
                /\ IF Remaining(SubSeq(down, 1, n)) > 0 THEN UNCHANGED <<m_state, scheduled>> ELSE AfterObject
                /\ UNCHANGED fatal
        /\ UNCHANGED <<m_embeddedObjectsToBeRequested, serverVars, link, up, unread, toTell, pages, quiet>>
  BY Zenon DEF ClientReceivedData
<1>2. HttpTyped /\ StreamsEnd /\ LinkAllows /\ EventsFit
  BY HttpFacts
<1>3. PICK d, e, p, r, b, q : /\ d = down /\ e = down' /\ p = SubSeq(down, 1, n) /\ b = m_txBuffer
                              /\ r = m_objectBytesToBeReceived /\ q = quiet
  OBVIOUS
<1>4. /\ d \in Seq(Parts) /\ (\A i \in 1 .. Len(d) - 1 : d[i] # Fin) /\ n \in 1 .. Len(d)
      /\ e = SubSeq(d, n + 1, Len(d)) /\ p = SubSeq(d, 1, n) /\ (p[1] > 0 => n > 1)
      /\ r \in Nat /\ b \in TxBuffers /\ q \in BOOLEAN
  BY <1>1, <1>2, <1>3, Zenon DEF HttpTyped, StreamsEnd
<1>5. /\ p \in Seq(Parts) /\ Len(p) = n /\ (\A i \in 1 .. n : p[i] = d[i])
      /\ e \in Seq(Parts) /\ Len(e) = Len(d) - n
  BY <1>4, CutIs
<1>6. d[n] # Fin
  <2>1. Fin \notin ToSet(p)
    BY <1>1, <1>3, Zenon
  <2>2. n \in DOMAIN p /\ p[n] = d[n]
    <3>1. n \in 1 .. Len(d) /\ d \in Seq(Parts)
      BY <1>4
    <3> QED
      BY ONLY <1>5, <3>1
  <2> QED
    BY <2>1, <2>2 DEF ToSet
<1>7. /\ n <= Sent(d) /\ Sent(e) = Sent(d) - n /\ (Ended(e) => Ended(d))
      /\ \A i \in 1 .. Len(e) - 1 : e[i] # Fin
  BY ONLY ZenonT(40), ZenonT(40), <1>4, <1>6, CutEnd
<1>8. Sent(d) \in Nat /\ Len(d) \in Nat /\ Sent(d) > 0 /\ Len(d) > 0 /\ ~(Len(d) = 0) /\ ~(Sent(d) = 0)
      /\ Sent(e) \in Nat
  BY ONLY SMTT(40), <1>4, <1>7, SentIs
<1>9. Connected /\ Live /\ m_state # "STOPPED"
  BY <1>1, <1>2, <1>3, <1>8, Zenon DEF LinkAllows, Live
<1>10. TakeTurns /\ Follows(r, d, b, q)
  BY <1>3, <1>9, HttpFacts, Zenon
<1>11. /\ scheduled = {} /\ Len(up) = 0 /\ Len(serves) = 0 /\ m_state \in Expecting
  BY <1>3, <1>8, <1>10, HttpNumbers, Zenon DEF TakeTurns
<1>12. PICK x : x = IF Expected(r, p) < Content(r, p) THEN 0 ELSE Expected(r, p) - Content(r, p)
  OBVIOUS
<1>13. Remaining(p) = x
  BY <1>3, <1>12 DEF Remaining, Expected, Content
<1>14. x \in Nat /\ Follows(x, e, b, q) /\ x >= Sent(e) + b.size /\ (q => x = Sent(e) + b.size)
  <2>1. Taken(r, d, b, q, e, x)
    BY ONLY <1>4, <1>6, <1>10, <1>12, TakenFollows
  <2> QED
    BY <2>1, Zenon DEF Taken
<1>15. /\ m_objectBytesToBeReceived' = x /\ fatal' = "none"
       /\ IF x > 0 THEN m_state' = m_state /\ scheduled' = scheduled ELSE AfterObject
       /\ m_embeddedObjectsToBeRequested' = m_embeddedObjectsToBeRequested
       /\ m_txBuffer' = m_txBuffer /\ serves' = serves /\ link' = link /\ up' = up /\ quiet' = quiet
  BY <1>1, <1>3, <1>11, <1>13 DEF serverVars
<1>16. b.size \in Nat
  BY <1>4 DEF TxBuffers
<1>17. CASE x > 0
  <2>1. m_state' = m_state /\ scheduled' = {}
    BY <1>11, <1>15, <1>17
  <2>2. EventsFit'
    BY <2>1 DEF EventsFit
  <2>3. q => b.size > 0 \/ Sent(e) > 0
    <3>1. q \in BOOLEAN
      BY <1>4
    <3> QED
      BY ONLY <1>8, <1>14, <1>16, <1>17, <3>1
  <2>4. ~(Len(up') > 0) /\ ~(Len(serves') > 0)
    BY <1>11, <1>15, Zero, Zenon
  <2>5. quiet' => b.size > 0 \/ Sent(e) > 0
    BY <1>3, <1>15, <2>3, QuietStays, Zenon
  <2>6. TakeTurns'
    BY <1>3, <1>11, <1>15, <2>1, <2>4, <2>5, Zenon DEF TakeTurns, Expecting
  <2>7. Follows(m_objectBytesToBeReceived', down', m_txBuffer', quiet')
    BY <1>3, <1>14, <1>15, Zenon
  <2>8. /\ UNCHANGED <<m_txBuffer, serves, link>> /\ m_state' \in ClientStates
        /\ m_embeddedObjectsToBeRequested' \in 0 .. MaxEmbedded /\ fatal' \in {"none", "closed"}
        /\ \E y \in ClientEvents : scheduled' = {} \/ scheduled' = {y}
    BY <1>2, <1>15, <2>1 DEF HttpTyped, ClientEvents
  <2>9. quiet' \in BOOLEAN /\ (quiet' => quiet)
    BY <1>15, QuietStays
  <2> QED
    BY <1>3, <1>5, <1>7, <1>8, <1>9, <1>14, <1>15, <2>1, <2>2, <2>6, <2>7, <2>8, <2>9, ClientMoves, Zenon
<1>18. CASE ~(x > 0)
  <2>1. x = 0 /\ Sent(e) = 0 /\ ~(b.size > 0)
    BY ONLY <1>8, <1>14, <1>16, <1>18
  <2>2. \/ m_state' = "READING" /\ scheduled' = {"RequestMain"}
        \/ m_state' = "EXPECTING_EMBEDDED_OBJECT" /\ scheduled' = {"RequestEmbedded"}
        \/ m_state' = "PARSING_MAIN_OBJECT" /\ scheduled' = {"Parse"}
    BY <1>11, <1>15, <1>18 DEF AfterObject, EnterReadingTime, Expecting
  <2>3. scheduled' # {} /\ m_state' # "STOPPED" /\ m_state' # "NOT_STARTED" /\ m_state' \in ClientStates
        /\ \E y \in ClientEvents : scheduled' = {} \/ scheduled' = {y}
    BY <2>2 DEF ClientStates, ClientEvents
  <2>4. EventsFit'
    BY <1>15, <2>1, <2>2, <2>3 DEF EventsFit
  <2>5. TakeTurns' /\ Follows(m_objectBytesToBeReceived', down', m_txBuffer', quiet')
    <3>1. UNCHANGED <<m_txBuffer, serves, up>>
      BY <1>15
    <3> QED
      BY <1>3, <1>11, <1>15, <2>1, <2>3, <3>1, OneEvent, Zenon
  <2>6. link \notin {"none", "opening"}
    BY <1>9 DEF Connected
  <2>7. /\ UNCHANGED <<m_txBuffer, serves, link>>
        /\ m_embeddedObjectsToBeRequested' \in 0 .. MaxEmbedded /\ fatal' \in {"none", "closed"}
    BY <1>2, <1>15 DEF HttpTyped
  <2>8. quiet' \in BOOLEAN /\ (quiet' => quiet)
    BY <1>15, QuietStays
  <2> QED
    BY <1>3, <1>5, <1>7, <1>8, <1>9, <1>14, <1>15, <2>3, <2>4, <2>5, <2>6, <2>7, <2>8, ClientMoves, Zenon
<1> QED
  BY <1>17, <1>18

LEMMA InitHttpInv == HttpInit => HttpInv
<1> SUFFICES ASSUME HttpInit PROVE HttpInv
  OBVIOUS
<1>1. /\ m_state = "NOT_STARTED" /\ m_objectBytesToBeReceived = 0 /\ m_embeddedObjectsToBeRequested = 0
      /\ scheduled = {} /\ m_txBuffer = NotFound /\ serves = << >> /\ link = "none" /\ up = << >> /\ down = << >>
      /\ fatal = "none" /\ quiet = TRUE
  BY DEF HttpInit
<1>2. /\ serves \in Seq(Requests) /\ up \in Seq(Requests \cup {"FIN"}) /\ down \in Seq(Parts)
      /\ Len(serves) = 0 /\ Len(up) = 0 /\ Len(down) = 0
  BY <1>1, NoParts, Zenon
<1>3. /\ ~(Len(up) > 0) /\ ~(Len(serves) > 0) /\ Len(up) <= 2 /\ Len(up) <= 1 /\ Len(serves) <= 1 /\ Len(up) # 2
      /\ ~Ended(down)
  BY <1>2, Zero, SentAtEnd, Zenon
<1>4. HttpTyped
  BY <1>1, <1>2, NotFoundIs, HttpConstants DEF HttpTyped, ClientStates, ClientEvents
<1>5. StreamsEnd
  <2>1. 1 .. 0 - 1 = {}
    OBVIOUS
  <2> QED
    BY <1>2, <1>3, <2>1, Zenon DEF StreamsEnd
<1>6. ServerInTurn
  BY <1>1, <1>3, NotFoundIs, Zenon DEF ServerInTurn, ClosingHasMore
<1>7. LinkAllows
  BY <1>1, <1>2, <1>3, NotFoundIs DEF LinkAllows, Connected
<1>8. EventsFit
  BY <1>1 DEF EventsFit
<1>9. ~Connected
  BY <1>1 DEF Connected
<1> QED
  BY <1>4, <1>5, <1>6, <1>7, <1>8, <1>9, Zenon DEF HttpInv

LEMMA StutterHttpInv == HttpInv /\ UNCHANGED httpVars => HttpInv'
<1> SUFFICES ASSUME HttpInv, UNCHANGED httpVars PROVE HttpInv'
  OBVIOUS
<1>1. UNCHANGED <<clientVars, m_txBuffer, serves, link, up, down, quiet>> /\ fatal' = fatal
  BY DEF httpVars, serverVars
<1>2. fatal' \in {"none", "closed"}
  BY <1>1, HttpFacts, Zenon DEF HttpTyped
<1> QED
  BY <1>1, <1>2, HttpSame, Zenon

LEMMA StepHttpInv == HttpInv /\ [HttpNext]_httpVars => HttpInv'
<1> SUFFICES ASSUME HttpInv, [HttpNext]_httpVars PROVE HttpInv'
  OBVIOUS
<1>1. CASE fatal = "none" /\ (StartHttpClient \/ StopHttpClient \/ ConnectionSucceeded \/ ConnectionFailed)
  BY <1>1, StartHttpClientKeeps, StopHttpClientKeeps, ConnectionSucceededKeeps, ConnectionFailedKeeps, Zenon
<1>2. CASE fatal = "none" /\ (RequestMainObject \/ RequestEmbeddedObject \/ ClientReceivedData \/ LeftUnread)
  BY <1>2, RequestMainObjectKeeps, RequestEmbeddedObjectKeeps, ClientReceivedDataKeeps, LeftUnreadKeeps, Zenon
<1>3. CASE fatal = "none" /\ (ParseMainObject \/ ClientClosed \/ NewConnectionCreated \/ ServerReceivedData)
  BY <1>3, ParseMainObjectKeeps, ClientClosedKeeps, NewConnectionCreatedKeeps, ServerReceivedDataKeeps, Zenon
<1>4. CASE fatal = "none" /\ (ServeNewObject \/ SendCallback \/ ServerNormalClose \/ ServerErrorClose)
  BY <1>4, ServeNewObjectKeeps, SendCallbackKeeps, ServerNormalCloseKeeps, ServerErrorCloseKeeps, Zenon
<1>5. CASE fatal = "none" /\ (StopHttpServer \/ BreakLink)
  BY <1>5, StopHttpServerKeeps, BreakLinkKeeps, Zenon
<1>6. CASE UNCHANGED httpVars
  BY <1>6, StutterHttpInv, Zenon
<1> QED
  BY <1>1, <1>2, <1>3, <1>4, <1>5, <1>6, Zenon DEF HttpNext

\* Client and server keep to their turns, and what the client is to receive is
\* on its way or in the server's buffer, whoever closes and wherever the
\* connection breaks.
THEOREM HttpInvHolds == HttpSpec => []HttpInv
BY InitHttpInv, StepHttpInv, PTL DEF HttpSpec

LEMMA NumberOfEvents ==
  HttpInv => /\ scheduled = {} => Cardinality(scheduled) = 0
             /\ scheduled # {} => Cardinality(scheduled) = 1
<1> SUFFICES ASSUME HttpInv, scheduled # {} PROVE Cardinality(scheduled) = 1
  BY FS_EmptySet, Zenon
<1>1. PICK e : scheduled = {e}
  BY HttpFacts, Zenon DEF HttpTyped
<1> QED
  BY <1>1, FS_Singleton, Zenon

\* Without an end, a stream has something in it as soon as it is not empty.
LEMMA UnderWay ==
  ASSUME HttpInv, ~Ended(down)
  PROVE  /\ ObjectUnderWay <=> m_txBuffer.size > 0 \/ Len(down) > 0
         /\ Sent(down) = Len(down) /\ Len(down) \in Nat
<1>1. down \in Seq(Parts) /\ \A i \in 1 .. Len(down) - 1 : down[i] # Fin
  BY HttpFacts, Zenon DEF HttpTyped, StreamsEnd
<1>2. Sent(down) = Len(down) /\ Len(down) \in Nat
  BY <1>1, SentIs
<1>3. (\E i \in DOMAIN down : down[i] # Fin) <=> Len(down) > 0
  <2>1. PICK d : d = down
    OBVIOUS
  <2>2. d \in Seq(Parts) /\ ~Ended(d) /\ \A i \in 1 .. Len(d) - 1 : d[i] # Fin
    BY <1>1, <2>1, Zenon
  <2>3. \A i \in 1 .. Len(d) : d[i] # Fin
    BY <2>2, OpenEnd, Zenon
  <2>4. (\E i \in DOMAIN d : d[i] # Fin) <=> Len(d) > 0
    <3>1. d \in Seq(Parts)
      BY <2>2
    <3>2. DOMAIN d = 1 .. Len(d) /\ Len(d) \in Nat
      BY <3>1
    <3>3. Len(d) > 0 => 1 \in 1 .. Len(d)
      BY ONLY <3>2
    <3>4. ASSUME NEW i \in 1 .. Len(d) PROVE Len(d) > 0
      BY ONLY <3>2, <3>4
    <3> QED
      BY <2>3, <3>2, <3>3, <3>4, Zenon
  <2> QED
    BY <2>1, <2>4, Zenon
<1> QED
  BY <1>2, <1>3, Zenon DEF ObjectUnderWay

LEMMA TakesTurns == HttpInv => OneThingAtATime
<1> SUFFICES ASSUME HttpInv, quiet, Connected PROVE Undertakings = 1
  BY Zenon DEF OneThingAtATime
<1>1. ~Ended(down) /\ m_state # "STOPPED" /\ Live
  BY HttpFacts, Zenon DEF LinkAllows, Live
<1>2. TakeTurns /\ StreamsEnd /\ ServerInTurn
  BY <1>1, HttpFacts, Zenon
<1>3. /\ ObjectUnderWay <=> m_txBuffer.size > 0 \/ Len(down) > 0
      /\ Sent(down) = Len(down)
  BY <1>1, UnderWay, Zenon
<1>4. /\ Len(up) \in Nat /\ Len(serves) \in Nat
      /\ scheduled = {} => Cardinality(scheduled) = 0
      /\ scheduled # {} => Cardinality(scheduled) = 1
  BY HttpNumbers, NumberOfEvents, Zenon
<1>5. PICK o \in 0 .. 1 : o = IF ObjectUnderWay THEN 1 ELSE 0
  OBVIOUS
<1>6. Undertakings = Cardinality(scheduled) + Len(up) + Len(serves) + o
  BY <1>5, Zenon DEF Undertakings
<1>7. CASE scheduled # {}
  <2>1. Len(up) = 0 /\ Len(serves) = 0 /\ ~(m_txBuffer.size > 0) /\ ~(Len(down) > 0)
    BY <1>2, <1>3, <1>7, Zero, Zenon DEF TakeTurns
  <2>2. o = 0 /\ Cardinality(scheduled) = 1
    BY <1>3, <1>4, <1>5, <1>7, <2>1, Zenon
  <2> QED
    BY ONLY <1>6, <2>1, <2>2
<1>8. CASE scheduled = {} /\ Len(up) > 0
  <2>1. Asked(up) /\ Len(up) <= 1
    BY <1>1, <1>2, <1>8, Zenon DEF StreamsEnd, Asked
  <2>2. Len(serves) = 0 /\ ~(m_txBuffer.size > 0)
    BY <1>2, <2>1, HttpNumbers, Zenon DEF ServerInTurn
  <2>3. ~(Len(down) > 0)
    BY <1>2, <1>3, <1>8, Zero, Zenon DEF TakeTurns
  <2>4. o = 0 /\ Cardinality(scheduled) = 0
    BY <1>3, <1>4, <1>5, <1>8, <2>2, <2>3, Zenon
  <2> QED
    BY ONLY <1>4, <1>6, <1>8, <2>1, <2>2, <2>4
<1>9. CASE scheduled = {} /\ Len(up) = 0 /\ Len(serves) > 0
  <2>1. Len(serves) <= 1 /\ ~(m_txBuffer.size > 0)
    BY <1>2, <1>9, Zero, Zenon DEF ServerInTurn
  <2>2. ~(Len(down) > 0)
    BY <1>2, <1>3, <1>9, Zero, Zenon DEF TakeTurns
  <2>3. o = 0 /\ Cardinality(scheduled) = 0
    BY <1>3, <1>4, <1>5, <1>9, <2>1, <2>2, Zenon
  <2> QED
    BY ONLY <1>4, <1>6, <1>9, <2>1, <2>3
<1>10. CASE scheduled = {} /\ Len(up) = 0 /\ Len(serves) = 0
  <2>1. m_txBuffer.size > 0 \/ Len(down) > 0
    BY <1>2, <1>3, <1>10, Zero, Zenon DEF TakeTurns
  <2>2. o = 1 /\ Cardinality(scheduled) = 0
    BY <1>3, <1>4, <1>5, <1>10, <2>1, Zenon
  <2> QED
    BY ONLY <1>6, <1>10, <2>2
<1> QED
  BY <1>7, <1>8, <1>9, <1>10, HttpNumbers, Zenon

LEMMA LacksNothing == HttpInv => ObjectInTransit
<1> SUFFICES ASSUME HttpInv, quiet, m_objectBytesToBeReceived > 0
             PROVE  m_objectBytesToBeReceived = Bytes(down) + m_txBuffer.size
  BY Zenon DEF ObjectInTransit
<1>1. HttpTyped /\ LinkAllows
  BY HttpFacts
<1>2. ~(m_objectBytesToBeReceived = 0)
  BY Zero, Zenon
<1>3. link \notin {"none", "opening", "broken"} /\ m_state # "STOPPED" /\ ~Ended(down)
  BY <1>1, <1>2 DEF LinkAllows
<1>4. Connected /\ Live
  BY <1>1, <1>3 DEF HttpTyped, Connected, Live
<1>5. PICK d, r, b, q : d = down /\ r = m_objectBytesToBeReceived /\ b = m_txBuffer /\ q = quiet
  OBVIOUS
<1>6. d \in Seq(Parts) /\ ~Ended(d) /\ r \in Nat /\ r > 0 /\ q /\ b \in TxBuffers /\ Follows(r, d, b, q)
  BY <1>1, <1>3, <1>4, <1>5, HttpFacts, Zenon DEF HttpTyped
<1>7. Sent(d) = Len(d) /\ Len(d) \in Nat
  BY <1>6, SentIs
<1>8. /\ \A i \in 2 .. Len(d) : d[i] = 0
      /\ Len(d) > 0 => d[1] = 0
      /\ r = Len(d) + b.size
  BY <1>6, <1>7, Zenon DEF Follows
<1>9. \A i \in 1 .. Len(d) : d[i] = 0
  BY ONLY <1>7, <1>8
<1>10. Bytes(d) = Len(d)
  BY <1>6, <1>9, BytesOfZeros
<1> QED
  BY <1>5, <1>8, <1>10, Zenon

\* Only a client that has stopped makes the server wait with the end of its
\* stream, or finds no entry after it was served.
StopClosed == m_txBuffer.isClosing \/ fatal = "closed" => m_state = "STOPPED"

\* A server that is served keeps the entry as open as it was, or erases it.
LEMMA ServedClosing ==
  ASSUME NEW entry \in TxBuffers, NEW events, ServeFromTxBuffer(entry, events)
  PROVE  /\ m_txBuffer'.isClosing => entry.isClosing
         /\ entry.known /\ ~m_txBuffer'.known => entry.isClosing
<1>1. PICK room, packet, content :
        \/ Keep(entry, down, events)
        \/ DepleteBufferSize(entry, content, packet, events)
  BY Zenon DEF ServeFromTxBuffer
<1>2. CASE Keep(entry, down, events)
  BY <1>2, Zenon DEF Keep
<1>3. CASE DepleteBufferSize(entry, content, packet, events)
  <2>1. CASE entry.isClosing
    BY <2>1
  <2>2. CASE ~entry.isClosing
    <3>1. m_txBuffer' = Depleted(entry, content)
      BY <1>3, <2>2, Zenon DEF DepleteBufferSize, Keep
    <3>2. m_txBuffer'.isClosing = entry.isClosing /\ m_txBuffer'.known = entry.known
      BY <3>1 DEF Depleted, TxBuffers
    <3> QED
      BY <2>2, <3>2, Zenon
  <2> QED
    BY <2>1, <2>2
<1> QED
  BY <1>1, <1>2, <1>3, Zenon

LEMMA ErasedIsOpen == ~NotFound.isClosing
BY DEF NotFound

\* Steps of the client and of the link leave the entry alone.
LEMMA ClientStopClosed ==
  ASSUME StopClosed, UNCHANGED m_txBuffer, fatal' # "closed", m_state = "STOPPED" => m_state' = "STOPPED"
  PROVE  StopClosed'
BY Zenon DEF StopClosed

\* Steps of the server leave the client alone.
LEMMA ServerStopClosed ==
  ASSUME StopClosed, UNCHANGED m_state,
         m_txBuffer'.isClosing \/ fatal' = "closed" =>
           m_txBuffer.isClosing \/ fatal = "closed" \/ m_state = "STOPPED"
  PROVE  StopClosed'
BY Zenon DEF StopClosed

LEMMA ClientKeepsStopClosed ==
  HttpInv /\ StopClosed /\ fatal = "none" /\
    (\/ StartHttpClient \/ StopHttpClient \/ ConnectionSucceeded \/ ConnectionFailed
     \/ RequestMainObject \/ RequestEmbeddedObject \/ ClientReceivedData \/ LeftUnread
     \/ ParseMainObject \/ ClientClosed \/ BreakLink)
  => StopClosed'
<1> SUFFICES ASSUME HttpInv, StopClosed, fatal = "none",
                    \/ StartHttpClient \/ StopHttpClient \/ ConnectionSucceeded \/ ConnectionFailed
                    \/ RequestMainObject \/ RequestEmbeddedObject \/ ClientReceivedData \/ LeftUnread
                    \/ ParseMainObject \/ ClientClosed \/ BreakLink
             PROVE  UNCHANGED m_txBuffer /\ fatal' # "closed" /\ (m_state = "STOPPED" => m_state' = "STOPPED")
  BY ClientStopClosed, Zenon
<1>1. CASE StartHttpClient \/ StopHttpClient
  BY <1>1 DEF StartHttpClient, StopHttpClient, serverVars
<1>2. CASE ConnectionSucceeded \/ ConnectionFailed
  BY <1>2 DEF ConnectionSucceeded, ConnectionFailed, serverVars, clientVars
<1>3. CASE RequestMainObject \/ RequestEmbeddedObject
  <2>1. \E kind, states, next, embedded : "STOPPED" \notin states /\ Request(kind, states, next, embedded)
    <3>1. /\ "STOPPED" \notin {"CONNECTING", "READING"}
          /\ "STOPPED" \notin {"CONNECTING", "PARSING_MAIN_OBJECT", "EXPECTING_EMBEDDED_OBJECT"}
      OBVIOUS
    <3> QED
      BY <1>3, <3>1, Zenon DEF RequestMainObject, RequestEmbeddedObject
  <2>2. PICK states, next :
          /\ "STOPPED" \notin states /\ UNCHANGED m_txBuffer
          /\ \/ m_state \notin states /\ fatal' = "state" /\ UNCHANGED m_state
             \/ m_state \in states /\ fatal' = IF m_objectBytesToBeReceived > 0 THEN "not received" ELSE fatal
             \/ fatal' = fatal /\ UNCHANGED m_state
    BY <2>1, Zenon DEF Request, serverVars
  <2>3. fatal' # "closed"
    BY <2>2, Zenon
  <2> QED
    BY <2>2, <2>3, Zenon
<1>4. CASE ClientReceivedData
  BY <1>4 DEF ClientReceivedData, serverVars
<1>5. CASE LeftUnread \/ ClientClosed \/ BreakLink
  BY <1>5 DEF LeftUnread, ClientClosed, BreakLink, serverVars, clientVars
<1>6. CASE ParseMainObject
  BY <1>6 DEF ParseMainObject, serverVars
<1> QED
  BY <1>1, <1>2, <1>3, <1>4, <1>5, <1>6

LEMMA ServerKeepsStopClosed ==
  HttpInv /\ StopClosed /\ fatal = "none" /\
    (\/ NewConnectionCreated \/ ServerReceivedData \/ ServeNewObject \/ SendCallback
     \/ ServerNormalClose \/ ServerErrorClose \/ StopHttpServer)
  => StopClosed'
<1> SUFFICES ASSUME HttpInv, StopClosed, fatal = "none",
                    \/ NewConnectionCreated \/ ServerReceivedData \/ ServeNewObject \/ SendCallback
                    \/ ServerNormalClose \/ ServerErrorClose \/ StopHttpServer
             PROVE  /\ UNCHANGED m_state
                    /\ m_txBuffer'.isClosing \/ fatal' = "closed" => m_txBuffer.isClosing \/ m_state = "STOPPED"
  BY ServerStopClosed, Zenon
<1>1. m_txBuffer \in TxBuffers /\ (m_txBuffer.size > 0 => m_txBuffer.known)
  BY HttpFacts, Zenon DEF HttpTyped, ServerInTurn
<1>2. CASE NewConnectionCreated
  <2>1. UNCHANGED <<m_state, fatal>> /\ m_txBuffer' = [NotFound EXCEPT !.known = TRUE]
    BY <1>2, Zenon DEF NewConnectionCreated, clientVars
  <2>2. ~m_txBuffer'.isClosing
    BY <2>1 DEF NotFound
  <2> QED
    BY <2>1, <2>2
<1>3. CASE ServerReceivedData
  BY <1>3 DEF ServerReceivedData, clientVars
<1>4. CASE ServeNewObject
  <2>1. /\ UNCHANGED m_state /\ fatal' # "closed"
        /\ \/ \E i, n : ServeFromTxBuffer([m_txBuffer EXCEPT !.size = n, !.hasTxedPart = FALSE], RemoveAt(serves, i))
                         /\ n \in ObjectSizes
           \/ \E i : Keep(m_txBuffer, down, RemoveAt(serves, i))
    BY <1>4, Zenon DEF ServeNewObject, clientVars
  <2>2. CASE \E i : Keep(m_txBuffer, down, RemoveAt(serves, i))
    BY <2>1, <2>2, Zenon DEF Keep
  <2>3. ASSUME NEW i, NEW n \in ObjectSizes,
               ServeFromTxBuffer([m_txBuffer EXCEPT !.size = n, !.hasTxedPart = FALSE], RemoveAt(serves, i))
        PROVE  m_txBuffer'.isClosing => m_txBuffer.isClosing
    <3>1. PICK b, events : /\ b = [m_txBuffer EXCEPT !.size = n, !.hasTxedPart = FALSE]
                           /\ events = RemoveAt(serves, i)
      OBVIOUS
    <3>2. b \in TxBuffers /\ b.isClosing = m_txBuffer.isClosing
      BY <1>1, <3>1, HttpConstants DEF TxBuffers
    <3> QED
      BY <2>3, <3>1, <3>2, ServedClosing, Zenon
  <2> QED
    BY <2>1, <2>2, <2>3, Zenon
<1>5. CASE SendCallback
  <2>1. /\ UNCHANGED m_state /\ m_txBuffer.size > 0 /\ ServeFromTxBuffer(m_txBuffer, serves)
        /\ fatal' = "closed" => ~m_txBuffer'.known
    BY <1>5 DEF SendCallback, clientVars
  <2> QED
    BY <1>1, <2>1, ServedClosing, Zenon
<1>6. CASE ServerNormalClose
  <2>1. UNCHANGED <<m_state, fatal>> /\ Len(up) > 0 /\ up[1] = "FIN"
    BY <1>6, HttpFacts, EmptyIs DEF ServerNormalClose, clientVars, HttpTyped
  <2>2. m_state = "STOPPED"
    BY <2>1, HttpFacts, Zenon DEF StreamsEnd
  <2> QED
    BY <2>1, <2>2
<1>7. CASE ServerErrorClose \/ StopHttpServer
  <2>1. UNCHANGED <<m_state, fatal>> /\ (Erase(down, serves) \/ Keep(m_txBuffer, down, serves))
    BY <1>7, Zenon DEF ServerErrorClose, StopHttpServer, clientVars
  <2> QED
    BY <2>1, ErasedIsOpen, Zenon DEF Erase, Keep
<1> QED
  BY <1>2, <1>3, <1>4, <1>5, <1>6, <1>7

\* The program ends after a client has stopped, or not at all.
LEMMA StopClosedHolds == HttpSpec => []StopClosed
<1>1. HttpInit => StopClosed
  BY ErasedIsOpen, Zenon DEF HttpInit, StopClosed
<1>2. HttpInv /\ StopClosed /\ [HttpNext]_httpVars => StopClosed'
  <2>1. CASE UNCHANGED httpVars
    BY <2>1, Zenon DEF httpVars, clientVars, serverVars, StopClosed
  <2> QED
    BY <2>1, ClientKeepsStopClosed, ServerKeepsStopClosed, Zenon DEF HttpNext
<1> QED
  BY <1>1, <1>2, HttpInvHolds, PTL DEF HttpSpec

\* PagesComplete (Http) for every number of objects and all their sizes: no
\* callback finds the client in a state that does not expect it, no object is
\* written over another or for an erased entry, and the program ends at most
\* where SendCallback looks up the entry that it has just closed for a client
\* that stopped; as long as nobody closes, exactly one thing is going on and
\* what the client lacks of an object is on its way or in the server's buffer;
\* a connection to be closed when the buffer is empty has a buffer that is not.
THEOREM PagesCompleteHolds == HttpSpec => []PagesComplete
<1>1. HttpInv /\ StopClosed => PagesComplete
  <2> SUFFICES ASSUME HttpInv, StopClosed PROVE PagesComplete
    OBVIOUS
  <2>1. NoInvalidState
    BY HttpFacts DEF HttpTyped, StopClosed, NoInvalidState
  <2>2. ClosingHasMore
    BY HttpFacts, Zenon DEF ServerInTurn
  <2> QED
    BY <2>1, <2>2, TakesTurns, LacksNothing, Zenon DEF PagesComplete
<1> QED
  BY <1>1, HttpInvHolds, StopClosedHolds, PTL

----------------------------------------------------------------------------
(* Fragments: what a piece of a packet is.                                 *)

Fragment == [pkt : DOMAIN IpLengths, off : Nat, len : Nat \ {0}, more : BOOLEAN]

\* A fragment lies in its packet, and says that more follows unless it ends it.
PieceOf(f) == f.off + f.len <= IpLengths[f.pkt] /\ (f.more <=> f.off + f.len < IpLengths[f.pkt])
Piece == {f \in Fragment : PieceOf(f)}

\* Of the same packet, the two have no byte in common.
AreApart(f, g) == f.pkt = g.pkt => f = g \/ f.off + f.len <= g.off \/ g.off + g.len <= f.off

LEMMA IpConstants ==
  /\ \A p \in DOMAIN IpLengths : IpLengths[p] \in Nat /\ IpLengths[p] > 0
  /\ FragmentSize \in Nat \ {0} /\ SmallSize \in Nat \ {0}
  /\ m_fragmentExpirationTimeout \in Nat \ {0} /\ MaxCopies \in Nat /\ MaxIpTime \in Nat
BY IpAssumption DEF IpAssumption

LEMMA PieceTyped ==
  ASSUME NEW f \in Piece
  PROVE  /\ f.pkt \in DOMAIN IpLengths /\ f.off \in Nat /\ f.len \in Nat /\ f.len > 0
         /\ f.more \in BOOLEAN /\ IpLengths[f.pkt] \in Nat
         /\ f.off + f.len <= IpLengths[f.pkt]
         /\ (f.more <=> f.off + f.len < IpLengths[f.pkt])
<1>1. f \in Fragment /\ PieceOf(f)
  BY DEF Piece
<1> QED
  BY <1>1, IpConstants DEF Fragment, PieceOf

\* The k-th piece of a cut.
Cut(f, size, k) ==
  [f EXCEPT !.off = f.off + k * size,
            !.len = IF (k + 1) * size < f.len THEN size ELSE f.len - k * size,
            !.more = (k + 1) * size < f.len \/ f.more]

LEMMA CutNumbers ==
  ASSUME NEW n \in Nat, n > 0, NEW size \in Nat, size > 0, NEW k \in 0 .. (n - 1) \div size
  PROVE  /\ k * size \in Nat /\ k * size < n /\ (k + 1) * size \in Nat
         /\ (k + 1) * size = k * size + size
OBVIOUS

LEMMA CutFields ==
  ASSUME NEW f \in Piece, NEW size \in Nat, size > 0, NEW k \in 0 .. (f.len - 1) \div size
  PROVE  /\ Cut(f, size, k).pkt = f.pkt /\ Cut(f, size, k).off = f.off + k * size
         /\ Cut(f, size, k).len = IF (k + 1) * size < f.len THEN size ELSE f.len - k * size
         /\ Cut(f, size, k).more = ((k + 1) * size < f.len \/ f.more)
         /\ Cut(f, size, k) \in Piece
<1> PICK m \in Nat : m = k * size
  BY PieceTyped, CutNumbers
<1> PICK n \in Nat : n = (k + 1) * size
  BY PieceTyped, CutNumbers
<1>1. m < f.len /\ n = m + size
  BY PieceTyped, CutNumbers
<1> PICK l : l = IF n < f.len THEN size ELSE f.len - m
  OBVIOUS
<1>2. /\ f.pkt \in DOMAIN IpLengths /\ f.off \in Nat /\ f.len \in Nat /\ f.len > 0
      /\ f.more \in BOOLEAN /\ IpLengths[f.pkt] \in Nat
      /\ f.off + f.len <= IpLengths[f.pkt]
      /\ (f.more <=> f.off + f.len < IpLengths[f.pkt])
  BY PieceTyped
<1>3. l \in Nat \ {0} /\ f.off + m \in Nat /\ (f.off + m) + l <= IpLengths[f.pkt]
      /\ ((n < f.len \/ f.more) <=> (f.off + m) + l < IpLengths[f.pkt])
  BY ONLY <1>1, <1>2, m \in Nat, n \in Nat, size \in Nat, size > 0,
     l = IF n < f.len THEN size ELSE f.len - m
<1>4. Cut(f, size, k) = [f EXCEPT !.off = f.off + m, !.len = l, !.more = (n < f.len \/ f.more)]
  BY Zenon DEF Cut
<1>5. f = [pkt |-> f.pkt, off |-> f.off, len |-> f.len, more |-> f.more]
  BY DEF Piece, Fragment
<1> PICK c : c = Cut(f, size, k)
  OBVIOUS
<1>6. c = [pkt |-> f.pkt, off |-> f.off + m, len |-> l, more |-> (n < f.len \/ f.more)]
  BY <1>4, <1>5
<1>7. c.pkt = f.pkt /\ c.off = f.off + m /\ c.len = l /\ c.more = (n < f.len \/ f.more)
  BY <1>6
<1>8. c \in Fragment
  BY <1>2, <1>3, <1>6 DEF Fragment
<1>9. PieceOf(c)
  BY <1>3, <1>7, Zenon DEF PieceOf
<1> QED
  BY <1>7, <1>8, <1>9 DEF Piece

LEMMA CutsAre ==
  ASSUME NEW f, NEW size
  PROVE  DoFragmentation(f, size) = {Cut(f, size, k) : k \in 0 .. (f.len - 1) \div size}
BY Zenon DEF DoFragmentation, Cut

LEMMA CutOrder ==
  ASSUME NEW size \in Nat, NEW j \in Nat, NEW k \in Nat, j < k
  PROVE  (j + 1) * size <= k * size
<1>1. j + 1 <= k
  OBVIOUS
<1> QED
  BY <1>1

\* A cut yields pieces inside what was cut, apart from each other.
LEMMA CutPieces ==
  ASSUME NEW f \in Piece, NEW size \in Nat \ {0}
  PROVE  /\ DoFragmentation(f, size) \subseteq Piece
         /\ \A g \in DoFragmentation(f, size) :
              g.pkt = f.pkt /\ f.off <= g.off /\ g.off + g.len <= f.off + f.len
         /\ \A g, h \in DoFragmentation(f, size) : AreApart(g, h)
<1> DEFINE K == 0 .. (f.len - 1) \div size
<1>0. f.off \in Nat /\ f.len \in Nat /\ f.len > 0
  BY PieceTyped
<1>1. ASSUME NEW k \in K
      PROVE  /\ Cut(f, size, k) \in Piece /\ Cut(f, size, k).pkt = f.pkt
             /\ f.off <= Cut(f, size, k).off
             /\ Cut(f, size, k).off + Cut(f, size, k).len <= f.off + f.len
  <2>1. /\ Cut(f, size, k).pkt = f.pkt /\ Cut(f, size, k).off = f.off + k * size
        /\ Cut(f, size, k).len = IF (k + 1) * size < f.len THEN size ELSE f.len - k * size
        /\ Cut(f, size, k) \in Piece
    BY CutFields
  <2>2. /\ k * size \in Nat /\ k * size < f.len /\ (k + 1) * size \in Nat
        /\ (k + 1) * size = k * size + size
    BY <1>0, CutNumbers
  <2> PICK m \in Nat, n \in Nat : m = k * size /\ n = (k + 1) * size
    BY <2>2
  <2> PICK c : c = Cut(f, size, k)
    OBVIOUS
  <2>3. c.off = f.off + m /\ c.len = (IF n < f.len THEN size ELSE f.len - m) /\ m < f.len /\ n = m + size
    BY <2>1, <2>2
  <2>4. f.off <= c.off /\ c.off + c.len <= f.off + f.len
    BY ONLY <1>0, <2>3, m \in Nat, n \in Nat, size \in Nat \ {0}
  <2> QED
    BY <2>1, <2>4
<1>2. ASSUME NEW j \in K, NEW k \in K, j < k
      PROVE  Cut(f, size, j).off + Cut(f, size, j).len <= Cut(f, size, k).off
  <2>1. /\ j * size \in Nat /\ k * size \in Nat /\ (j + 1) * size \in Nat
        /\ (j + 1) * size = j * size + size /\ k * size < f.len
    BY <1>0, CutNumbers
  <2>2. (j + 1) * size <= k * size
    BY <1>2, CutOrder
  <2> PICK m \in Nat, n \in Nat, o \in Nat : m = j * size /\ n = (j + 1) * size /\ o = k * size
    BY <2>1
  <2>3. /\ Cut(f, size, j).off = f.off + m /\ Cut(f, size, k).off = f.off + o
        /\ Cut(f, size, j).len = IF n < f.len THEN size ELSE f.len - m
    BY CutFields
  <2>4. n = m + size /\ n <= o /\ o < f.len
    BY <2>1, <2>2
  <2>5. Cut(f, size, j).len = size
    BY ONLY <1>0, <2>3, <2>4, n \in Nat, o \in Nat
  <2> QED
    BY ONLY <1>0, <2>3, <2>4, <2>5, m \in Nat, n \in Nat, o \in Nat, size \in Nat \ {0}
<1>3. ASSUME NEW g \in DoFragmentation(f, size), NEW h \in DoFragmentation(f, size)
      PROVE  AreApart(g, h)
  <2>1. PICK j \in K, k \in K : g = Cut(f, size, j) /\ h = Cut(f, size, k)
    BY <1>3, CutsAre, Zenon
  <2>2. j < k \/ k < j \/ j = k
    OBVIOUS
  <2> QED
    BY <1>2, <2>1, <2>2, Zenon DEF AreApart
<1> QED
  BY <1>1, <1>3, CutsAre, Zenon

----------------------------------------------------------------------------
(* Lists of fragments: where the first i of them end.                      *)

Further(e, f) == IF e > f.off + f.len THEN e ELSE f.off + f.len
Ends(l, e) == e = [i \in 0 .. Len(l) |-> IF i = 0 THEN 0 ELSE Further(e[i - 1], l[i])]

LEMMA EndsExist ==
  ASSUME NEW l \in Seq(Fragment)
  PROVE  \E e : Ends(l, e)
<1> DEFINE S == {s \in Seq(Fragment) : \E e : Ends(s, e)}
<1>1. << >> \in S
  <2>1. PICK s : s = << >>
    OBVIOUS
  <2>2. s \in Seq(Fragment) /\ Len(s) = 0
    BY <2>1
  <2> DEFINE e == [i \in 0 .. Len(s) |-> 0]
  <2>3. e = [i \in 0 .. Len(s) |-> IF i = 0 THEN 0 ELSE Further(e[i - 1], s[i])]
    BY <2>2
  <2>4. Ends(s, e)
    BY <2>3, Zenon DEF Ends
  <2> QED
    BY <2>1, <2>2, <2>4, Zenon
<1>2. ASSUME NEW s \in Seq(Fragment), NEW x \in Fragment, s \in S
      PROVE  Append(s, x) \in S
  <2>1. PICK d : Ends(s, d)
    BY <1>2
  <2> PICK n \in Nat : n = Len(s)
    OBVIOUS
  <2>2. \A i \in 0 .. n : d[i] = IF i = 0 THEN 0 ELSE Further(d[i - 1], s[i])
    BY <2>1, Zenon DEF Ends
  <2> PICK r : r = Append(s, x)
    OBVIOUS
  <2>3. r \in Seq(Fragment) /\ Len(r) = n + 1 /\ r[n + 1] = x /\ \A i \in 1 .. n : r[i] = s[i]
    OBVIOUS
  <2> DEFINE e == [i \in 0 .. n + 1 |-> IF i = n + 1 THEN Further(d[n], x) ELSE d[i]]
  <2>4. \A i \in 0 .. n + 1 : e[i] = IF i = n + 1 THEN Further(d[n], x) ELSE d[i]
    OBVIOUS
  <2>5. \A i \in 0 .. n : e[i] = d[i]
    BY <2>4
  <2>6. ASSUME NEW i \in 0 .. n + 1
        PROVE  e[i] = IF i = 0 THEN 0 ELSE Further(e[i - 1], r[i])
    <3>1. CASE i = n + 1
      <4>1. i # 0 /\ i - 1 = n /\ n \in 0 .. n
        BY <3>1
      <4> HIDE DEF e
      <4> QED
        BY <2>3, <2>4, <2>5, <3>1, <4>1, Zenon
    <3>2. CASE i # n + 1
      <4>1. i \in 0 .. n /\ (i # 0 => i - 1 \in 0 .. n /\ i \in 1 .. n)
        BY <3>2
      <4> HIDE DEF e
      <4> QED
        BY <2>2, <2>3, <2>5, <4>1, Zenon
    <3> QED
      BY <3>1, <3>2
  <2>7. e = [i \in 0 .. n + 1 |-> IF i = 0 THEN 0 ELSE Further(e[i - 1], r[i])]
    BY <2>6, Zenon
  <2> HIDE DEF e
  <2>8. Ends(r, e)
    BY <2>3, <2>7, Zenon DEF Ends
  <2> QED
    BY <2>3, <2>8, Zenon
<1> HIDE DEF S
<1>3. l \in S
  BY <1>1, <1>2, SequenceInduction
<1> QED
  BY <1>3 DEF S

LEMMA EndIs ==
  ASSUME NEW l \in Seq(Fragment)
  PROVE  /\ End(l)[0] = 0
         /\ \A i \in 1 .. Len(l) : End(l)[i] = Further(End(l)[i - 1], l[i])
<1> DEFINE c == CHOOSE e : e = [i \in 0 .. Len(l) |-> IF i = 0 THEN 0
                                  ELSE IF e[i - 1] > l[i].off + l[i].len THEN e[i - 1]
                                  ELSE l[i].off + l[i].len]
<1>1. c = [i \in 0 .. Len(l) |-> IF i = 0 THEN 0
                                  ELSE IF c[i - 1] > l[i].off + l[i].len THEN c[i - 1]
                                  ELSE l[i].off + l[i].len]
  BY EndsExist, Zenon DEF Ends, Further
<1>2. End(l) = c
  BY Zenon DEF End
<1> HIDE DEF c
<1>3. \A i \in 0 .. Len(l) : c[i] = IF i = 0 THEN 0 ELSE Further(c[i - 1], l[i])
  BY <1>1, Zenon DEF Further
<1>4. Len(l) \in Nat
  OBVIOUS
<1>5. 0 \in 0 .. Len(l) /\ \A i \in 1 .. Len(l) : i \in 0 .. Len(l) /\ i # 0
  BY <1>4
<1> QED
  BY <1>2, <1>3, <1>5, Zenon

\* It is where one of them ends, and no other ends later.
LEMMA EndReached ==
  ASSUME NEW l \in Seq(Fragment), NEW i \in 0 .. Len(l)
  PROVE  /\ End(l)[i] \in Nat
         /\ \A j \in 1 .. i : l[j].off + l[j].len <= End(l)[i]
         /\ i > 0 => \E j \in 1 .. i : End(l)[i] = l[j].off + l[j].len
<1> DEFINE E == End(l)
           S == {k \in Nat : k <= Len(l) =>
                   /\ E[k] \in Nat
                   /\ \A j \in 1 .. k : l[j].off + l[j].len <= E[k]
                   /\ k > 0 => \E j \in 1 .. k : E[k] = l[j].off + l[j].len}
<1>1. E[0] = 0 /\ \A k \in 1 .. Len(l) : E[k] = Further(E[k - 1], l[k])
  BY EndIs
<1>2. \A j \in 1 .. Len(l) : l[j].off \in Nat /\ l[j].len \in Nat /\ l[j].len > 0
  <2>1. \A j \in 1 .. Len(l) : l[j] \in Fragment
    OBVIOUS
  <2> QED
    BY <2>1 DEF Fragment
<1> HIDE DEF E
<1>3. 0 \in S
  BY <1>1
<1>4. ASSUME NEW k \in Nat, k \in S
      PROVE  k + 1 \in S
  <2>0. k + 1 \in Nat
    BY ONLY k \in Nat
  <2> SUFFICES ASSUME k + 1 <= Len(l)
               PROVE  /\ E[k + 1] \in Nat
                      /\ \A j \in 1 .. k + 1 : l[j].off + l[j].len <= E[k + 1]
                      /\ \E j \in 1 .. k + 1 : E[k + 1] = l[j].off + l[j].len
    BY <2>0, Zenon
  <2>1. /\ E[k] \in Nat
        /\ \A j \in 1 .. k : l[j].off + l[j].len <= E[k]
        /\ k > 0 => \E j \in 1 .. k : E[k] = l[j].off + l[j].len
    BY <1>4
  <2> HIDE DEF S
  <2> PICK x : x = l[k + 1]
    OBVIOUS
  <2>2. k + 1 \in 1 .. Len(l) /\ x.off \in Nat /\ x.len \in Nat /\ x.len > 0
    BY <1>2
  <2>3. E[k + 1] = Further(E[k], x)
    BY <1>1, <2>2
  <2>4. E[k + 1] \in Nat /\ E[k] <= E[k + 1] /\ x.off + x.len <= E[k + 1]
    BY SMTT(40), <2>1, <2>2, <2>3 DEF Further
  <2>5. ASSUME NEW j \in 1 .. k + 1
        PROVE  l[j].off + l[j].len <= E[k + 1]
    <3>1. CASE j = k + 1
      BY <2>4, <3>1
    <3>2. CASE j # k + 1
      <4>1. j \in 1 .. k /\ j \in 1 .. Len(l)
        BY <2>2, <3>2
      <4>2. l[j].off + l[j].len <= E[k] /\ l[j].off \in Nat /\ l[j].len \in Nat
        BY <1>2, <2>1, <4>1
      <4> QED
        BY ONLY SMTT(40), <2>1, <2>4, <4>2
    <3> QED
      BY <3>1, <3>2
  <2>6. \E j \in 1 .. k + 1 : E[k + 1] = l[j].off + l[j].len
    <3>1. CASE E[k] > x.off + x.len
      <4>1. E[k + 1] = E[k] /\ k > 0
        <5>1. k = 0 => E[k] = 0
          BY <1>1
        <5> QED
          BY <2>2, <2>3, <3>1, <5>1 DEF Further
      <4>2. PICK j \in 1 .. k : E[k] = l[j].off + l[j].len
        BY <2>1, <4>1
      <4>3. j \in 1 .. k + 1
        OBVIOUS
      <4> QED
        BY <4>1, <4>2, <4>3, Zenon
    <3>2. CASE ~ (E[k] > x.off + x.len)
      <4>1. E[k + 1] = x.off + x.len /\ k + 1 \in 1 .. k + 1
        BY <2>3, <3>2 DEF Further
      <4> QED
        BY <4>1, Zenon
    <3> QED
      BY <3>1, <3>2
  <2> QED
    BY <2>4, <2>5, <2>6
<1> HIDE DEF S
<1>5. i \in S /\ i \in Nat /\ i <= Len(l)
  BY <1>3, <1>4, SetInduction
<1> QED
  BY <1>5 DEF S, E

----------------------------------------------------------------------------
(* The loops of GetPacket and GetPartialPacket, which stops at a gap unless*)
(* always holds.                                                           *)

Glued(always, q, f) ==
  IF always \/ Len(q) >= f.off THEN q \o SubSeq(Units(f), Len(q) - f.off + 1, f.len) ELSE q
Gluing(always, l, S, iter) ==
  iter = [u \in SUBSET S |-> IF u = {} THEN << >>
                             ELSE LET x == Max(u) IN Glued(always, iter[u \ {x}], l[x])]

LEMMA LastPlace ==
  ASSUME NEW n \in Nat, NEW u \in SUBSET (1 .. n + 1), n + 1 \in u
  PROVE  Max(u) = n + 1
<1>1. \A y \in u : n + 1 >= y
  OBVIOUS
<1> DEFINE m == CHOOSE x \in u : \A y \in u : x >= y
<1>2. m \in u /\ m >= n + 1
  BY <1>1
<1> HIDE DEF m
<1>3. m = n + 1
  BY <1>2
<1> QED
  BY <1>3, Zenon DEF Max, m

LEMMA GluingExists ==
  ASSUME NEW always, NEW l, NEW n \in Nat
  PROVE  \E iter : Gluing(always, l, 1 .. n, iter)
<1> DEFINE S == {k \in Nat : \E iter : Gluing(always, l, 1 .. k, iter)}
<1>1. 0 \in S
  <2> DEFINE f == [u \in SUBSET (1 .. 0) |-> << >>]
  <2>1. \A u \in SUBSET (1 .. 0) : u = {}
    OBVIOUS
  <2>2. f = [u \in SUBSET (1 .. 0) |-> IF u = {} THEN << >>
                                       ELSE LET x == Max(u) IN Glued(always, f[u \ {x}], l[x])]
    BY <2>1, Zenon
  <2>3. Gluing(always, l, 1 .. 0, f)
    BY <2>2, Zenon DEF Gluing
  <2> HIDE DEF f
  <2> QED
    BY <2>3
<1>2. ASSUME NEW k \in Nat, k \in S
      PROVE  k + 1 \in S
  <2>1. PICK g : Gluing(always, l, 1 .. k, g)
    BY <1>2
  <2> DEFINE T == SUBSET (1 .. k + 1)
             body(u, h) == IF u = {} THEN << >>
                           ELSE LET x == Max(u) IN Glued(always, h[u \ {x}], l[x])
             f == [u \in T |-> IF k + 1 \in u THEN Glued(always, g[u \ {k + 1}], l[k + 1]) ELSE g[u]]
  <2>2. \A u \in SUBSET (1 .. k) : g[u] = body(u, g)
    BY <2>1, Zenon DEF Gluing
  <2>3. \A u \in T : f[u] = IF k + 1 \in u THEN Glued(always, g[u \ {k + 1}], l[k + 1]) ELSE g[u]
    OBVIOUS
  <2>4. ASSUME NEW u \in T
        PROVE  f[u] = body(u, f)
    <3>1. CASE k + 1 \in u
      <4>1. Max(u) = k + 1 /\ u # {}
        BY <3>1, LastPlace
      <4>2. u \ {k + 1} \in T /\ ~ (k + 1 \in u \ {k + 1})
        OBVIOUS
      <4>3. f[u \ {k + 1}] = g[u \ {k + 1}]
        BY <2>3, <4>2, Zenon
      <4> HIDE DEF f
      <4>4. f[u] = Glued(always, f[u \ {k + 1}], l[k + 1])
        BY <2>3, <3>1, <4>3, Zenon
      <4> QED
        BY <4>1, <4>4, Zenon
    <3>2. CASE ~ (k + 1 \in u)
      <4>1. u \in SUBSET (1 .. k)
        BY <3>2
      <4>2. f[u] = g[u]
        BY <2>3, <3>2, Zenon
      <4>3. u \ {Max(u)} \in T /\ ~ (k + 1 \in u \ {Max(u)})
        BY <3>2, Zenon
      <4>4. f[u \ {Max(u)}] = g[u \ {Max(u)}]
        BY <2>3, <4>3, Zenon
      <4> HIDE DEF f
      <4>5. g[u] = body(u, g)
        BY <2>2, <4>1, Zenon
      <4> QED
        BY <4>2, <4>4, <4>5, Zenon
    <3> QED
      BY <3>1, <3>2
  <2>5. f = [u \in T |-> body(u, f)]
    BY <2>4, Zenon
  <2>6. Gluing(always, l, 1 .. k + 1, f)
    BY <2>5, Zenon DEF Gluing
  <2> HIDE DEF f
  <2> QED
    BY <2>6, k + 1 \in Nat
<1> HIDE DEF S
<1>3. n \in S
  BY <1>1, <1>2, SetInduction
<1> QED
  BY <1>3 DEF S

LEMMA GluingAt ==
  ASSUME NEW always, NEW l, NEW S, NEW iter
  PROVE  Gluing(always, l, S, iter)
         <=> /\ iter = [u \in SUBSET S |-> iter[u]]
             /\ \A u \in SUBSET S : iter[u] = IF u = {} THEN << >>
                                              ELSE Glued(always, iter[u \ {Max(u)}], l[Max(u)])
<1> DEFINE body(u) == IF u = {} THEN << >> ELSE Glued(always, iter[u \ {Max(u)}], l[Max(u)])
<1>1. Gluing(always, l, S, iter) <=> iter = [u \in SUBSET S |-> body(u)]
  BY Zenon DEF Gluing
<1>2. ASSUME iter = [u \in SUBSET S |-> body(u)]
      PROVE  iter = [u \in SUBSET S |-> iter[u]] /\ \A u \in SUBSET S : iter[u] = body(u)
  <2> HIDE DEF body
  <2>1. \A u \in SUBSET S : iter[u] = body(u)
    BY <1>2, Zenon
  <2>2. iter = [u \in SUBSET S |-> iter[u]]
    BY <1>2, <2>1, Zenon
  <2> QED
    BY <2>1, <2>2
<1>3. ASSUME iter = [u \in SUBSET S |-> iter[u]], \A u \in SUBSET S : iter[u] = body(u)
      PROVE  iter = [u \in SUBSET S |-> body(u)]
  <2> HIDE DEF body
  <2> QED
    BY <1>3, Zenon
<1> QED
  BY <1>1, <1>2, <1>3, Zenon

LEMMA PacketIsGlued ==
  ASSUME NEW l \in Seq(Fragment)
  PROVE  /\ \E iter : Gluing(TRUE, l, 1 .. Len(l), iter) /\ GetPacket(l) = iter[1 .. Len(l)]
         /\ \E iter : Gluing(FALSE, l, 1 .. Len(l), iter) /\ GetPartialPacket(l) = iter[1 .. Len(l)]
<1> DEFINE S == 1 .. Len(l)
           rest(q, f) == q \o SubSeq(Units(f), Len(q) - f.off + 1, f.len)
           ifNoGap(q, f) == IF Len(q) >= f.off THEN rest(q, f) ELSE q
<1>1. Len(l) \in Nat /\ DOMAIN l = S
  OBVIOUS
<1>2. \A q, f : Glued(TRUE, q, f) = rest(q, f) /\ Glued(FALSE, q, f) = ifNoGap(q, f)
  BY Zenon DEF Glued
<1>3. \E iter : Gluing(TRUE, l, S, iter) /\ GetPacket(l) = iter[S]
  <2> DEFINE body(u, h) == IF u = {} THEN << >> ELSE LET x == Max(u) IN rest(h[u \ {x}], l[x])
             c == CHOOSE iter : iter = [u \in SUBSET S |-> body(u, iter)]
  <2>1. GetPacket(l) = c[S]
    BY <1>1, Zenon DEF GetPacket, FoldLeft, MapThenFoldSet
  <2> HIDE DEF rest
  <2>2. \E iter : iter = [u \in SUBSET S |-> body(u, iter)]
    <3>1. PICK g : Gluing(TRUE, l, S, g)
      BY <1>1, GluingExists
    <3>2. g = [u \in SUBSET S |-> g[u]] /\ \A u \in SUBSET S : g[u] = body(u, g)
      BY <1>2, <3>1, GluingAt, Zenon
    <3> HIDE DEF body
    <3>3. g = [u \in SUBSET S |-> body(u, g)]
      BY <3>2, Zenon
    <3> QED
      BY <3>3, Zenon
  <2>3. c = [u \in SUBSET S |-> body(u, c)]
    BY <2>2, Zenon
  <2> HIDE DEF c
  <2>4. \A u \in SUBSET S : c[u] = body(u, c)
    <3> HIDE DEF body
    <3> QED
      BY <2>3, Zenon
  <2>5. c = [u \in SUBSET S |-> c[u]]
    <3> HIDE DEF body
    <3> QED
      BY <2>3, <2>4, Zenon
  <2>6. Gluing(TRUE, l, S, c)
    BY <1>2, <2>4, <2>5, GluingAt, ZenonT(40)
  <2> QED
    BY <2>1, <2>6, Zenon
<1>4. \E iter : Gluing(FALSE, l, S, iter) /\ GetPartialPacket(l) = iter[S]
  <2> DEFINE body(u, h) == IF u = {} THEN << >> ELSE LET x == Max(u) IN ifNoGap(h[u \ {x}], l[x])
             c == CHOOSE iter : iter = [u \in SUBSET S |-> body(u, iter)]
  <2>1. GetPartialPacket(l) = c[S]
    BY <1>1, Zenon DEF GetPartialPacket, FoldLeft, MapThenFoldSet
  <2> HIDE DEF ifNoGap
  <2>2. \E iter : iter = [u \in SUBSET S |-> body(u, iter)]
    <3>1. PICK g : Gluing(FALSE, l, S, g)
      BY <1>1, GluingExists
    <3>2. g = [u \in SUBSET S |-> g[u]] /\ \A u \in SUBSET S : g[u] = body(u, g)
      BY <1>2, <3>1, GluingAt, Zenon
    <3> HIDE DEF body
    <3>3. g = [u \in SUBSET S |-> body(u, g)]
      BY <3>2, Zenon
    <3> QED
      BY <3>3, Zenon
  <2>3. c = [u \in SUBSET S |-> body(u, c)]
    BY <2>2, Zenon
  <2> HIDE DEF c
  <2>4. \A u \in SUBSET S : c[u] = body(u, c)
    <3> HIDE DEF body
    <3> QED
      BY <2>3, Zenon
  <2>5. c = [u \in SUBSET S |-> c[u]]
    <3> HIDE DEF body
    <3> QED
      BY <2>3, <2>4, Zenon
  <2>6. Gluing(FALSE, l, S, c)
    BY <1>2, <2>4, <2>5, GluingAt, ZenonT(40)
  <2> QED
    BY <2>1, <2>6, Zenon
<1> QED
  BY <1>3, <1>4

\* A beginning of packet p, and what a fragment adds to it.
Start(p, n) == [i \in 1 .. n |-> <<p, i>>]

UnitsOf(p) == {<<p, i>> : i \in Nat}

LEMMA StartTyped ==
  ASSUME NEW p \in DOMAIN IpLengths, NEW n \in Nat
  PROVE  /\ Start(p, n) \in Seq(UnitsOf(p)) /\ Len(Start(p, n)) = n
         /\ \A i \in 1 .. n : Start(p, n)[i] = <<p, i>>
<1>1. \A i \in 1 .. n : <<p, i>> \in UnitsOf(p)
  <2>1. \A i \in 1 .. n : i \in Nat
    OBVIOUS
  <2> QED
    BY <2>1, Zenon DEF UnitsOf
<1>2. PICK x : x = Start(p, n)
  OBVIOUS
<1>3. x = [i \in 1 .. n |-> <<p, i>>]
  BY <1>2, Zenon DEF Start
<1>4. \A i \in 1 .. n : x[i] = <<p, i>>
  BY <1>3, Zenon
<1>5. x \in [1 .. n -> UnitsOf(p)]
  BY <1>1, <1>3, Zenon
<1>6. x \in Seq(UnitsOf(p)) /\ Len(x) = n
  BY ONLY <1>5, n \in Nat
<1> QED
  BY <1>2, <1>4, <1>6, Zenon

LEMMA RestGlued ==
  ASSUME NEW p \in DOMAIN IpLengths, NEW m \in Nat, NEW o \in Nat, NEW n \in Nat, o <= m, m <= o + n
  PROVE  Start(p, m) \o SubSeq([i \in 1 .. n |-> <<p, o + i>>], m - o + 1, n) = Start(p, o + n)
<1> PICK u : u = [i \in 1 .. n |-> <<p, o + i>>]
  OBVIOUS
<1>0. PICK a \in Nat : m = o + a /\ m - o + 1 = a + 1 /\ a <= n /\ a + 1 \in Int /\ n \in Int
  <2>1. m - o \in Nat /\ m = o + (m - o) /\ m - o <= n
    OBVIOUS
  <2> QED
    BY <2>1
<1>1. PICK b \in Nat : n = a + b /\ n - (a + 1) + 1 = b
  <2>1. n - a \in Nat /\ n = a + (n - a) /\ n - (a + 1) + 1 = n - a
    BY ONLY <1>0, n \in Nat, a \in Nat
  <2> QED
    BY <2>1
<1>2. o + n \in Nat
  OBVIOUS
<1>3. PICK x : x = Start(p, m)
  OBVIOUS
<1>4. PICK z : z = Start(p, o + n)
  OBVIOUS
<1>5. PICK y : y = SubSeq(u, a + 1, n)
  OBVIOUS
<1>6. x \in Seq(UnitsOf(p)) /\ Len(x) = m /\ \A i \in 1 .. m : x[i] = <<p, i>>
  BY <1>3, StartTyped, Zenon
<1>7. z \in Seq(UnitsOf(p)) /\ Len(z) = o + n /\ \A i \in 1 .. o + n : z[i] = <<p, i>>
  BY <1>2, <1>4, StartTyped, Zenon
<1>8. \A i \in a + 1 .. n : u[i] \in UnitsOf(p)
  <2>1. \A i \in 1 .. n : o + i \in Nat
    BY ONLY o \in Nat, n \in Nat
  <2>2. \A i \in a + 1 .. n : i \in 1 .. n
    BY ONLY a \in Nat, n \in Nat
  <2>3. \A i \in 1 .. n : u[i] = <<p, o + i>>
    BY Zenon
  <2>4. \A j \in Nat : <<p, j>> \in UnitsOf(p)
    BY Zenon DEF UnitsOf
  <2> QED
    BY <2>1, <2>2, <2>3, <2>4, Zenon
<1>9. /\ y \in Seq(UnitsOf(p)) /\ Len(y) = (IF a + 1 <= n THEN n - (a + 1) + 1 ELSE 0)
      /\ \A i \in 1 .. n - (a + 1) + 1 : y[i] = u[(a + 1) + i - 1]
  <2>1. a + 1 \in Int /\ n \in Int
    BY <1>0
  <2>2. SubSeq(u, a + 1, n) \in Seq(UnitsOf(p))
    BY <1>8, <2>1, SubSeqProperties, Zenon
  <2>3. Len(SubSeq(u, a + 1, n)) = (IF a + 1 <= n THEN n - (a + 1) + 1 ELSE 0)
    BY <1>8, <2>1, SubSeqProperties
  <2>4. \A i \in 1 .. n - (a + 1) + 1 : SubSeq(u, a + 1, n)[i] = u[(a + 1) + i - 1]
    BY SMTT(40), <1>8, <2>1, SubSeqProperties
  <2> QED
    BY <1>5, <2>2, <2>3, <2>4, Zenon
<1>10. Len(y) = b
  <2>1. Len(y) = (IF a + 1 <= n THEN n - (a + 1) + 1 ELSE 0)
    BY <1>9
  <2> QED
    BY ONLY <2>1, <1>0, <1>1, a \in Nat, b \in Nat, n \in Nat
<1>11. \A i \in 1 .. b : y[i] = <<p, m + i>>
  <2>1. ASSUME NEW i \in 1 .. b
        PROVE  (a + 1) + i - 1 \in 1 .. n /\ o + ((a + 1) + i - 1) = m + i
    BY ONLY <1>0, <1>1, a \in Nat, b \in Nat, n \in Nat, o \in Nat, i \in 1 .. b
  <2>2. \A i \in 1 .. n : u[i] = <<p, o + i>>
    BY Zenon
  <2> QED
    BY <1>1, <1>9, <2>1, <2>2, Zenon
<1>12. /\ x \o y \in Seq(UnitsOf(p)) /\ Len(x \o y) = Len(x) + Len(y)
       /\ \A i \in 1 .. Len(x) + Len(y) : (x \o y)[i] = IF i <= Len(x) THEN x[i] ELSE y[i - Len(x)]
  BY <1>6, <1>9, ConcatProperties, Zenon
<1>13. m + b = o + n
  BY ONLY <1>0, <1>1, a \in Nat, b \in Nat, n \in Nat, o \in Nat
<1>14. ASSUME NEW i \in 1 .. o + n
       PROVE  (x \o y)[i] = z[i]
  <2>1. CASE i <= m
    <3>1. i \in 1 .. m
      BY ONLY <2>1, i \in 1 .. o + n, o \in Nat, n \in Nat, m \in Nat
    <3> QED
      BY <1>6, <1>7, <1>10, <1>12, <1>13, <2>1, <3>1, Zenon
  <2>2. CASE ~ (i <= m)
    <3>1. i - m \in 1 .. b /\ m + (i - m) = i
      BY ONLY <1>13, <2>2, i \in 1 .. o + n, o \in Nat, n \in Nat, m \in Nat, b \in Nat
    <3> QED
      BY <1>6, <1>7, <1>10, <1>11, <1>12, <1>13, <2>2, <3>1, ZenonT(40)
  <2> QED
    BY <2>1, <2>2
<1>15. x \o y = z
  BY <1>6, <1>7, <1>10, <1>12, <1>13, <1>14, SeqEqual, Zenon
<1> QED
  BY <1>0, <1>3, <1>4, <1>5, <1>15, Zenon

LEMMA GluedLonger ==
  ASSUME NEW f \in Piece, NEW m \in Nat, f.off <= m
  PROVE  Start(f.pkt, m) \o SubSeq(Units(f), m - f.off + 1, f.len) = Start(f.pkt, Further(m, f))
<1>1. f.pkt \in DOMAIN IpLengths /\ f.off \in Nat /\ f.len \in Nat /\ f.len > 0
  BY PieceTyped
<1>2. CASE m > f.off + f.len
  <2>1. f.len < m - f.off + 1 /\ m - f.off + 1 \in Int /\ f.len \in Int
    BY ONLY <1>1, <1>2, m \in Nat
  <2>2. SubSeq(Units(f), m - f.off + 1, f.len) = << >>
    BY <2>1, SubSeqEmpty, Zenon
  <2>3. Further(m, f) = m
    BY <1>2, Zenon DEF Further
  <2>4. Start(f.pkt, m) \o << >> = Start(f.pkt, m)
    BY <1>1, StartTyped, ConcatEmptySeq, Zenon
  <2> QED
    BY <2>2, <2>3, <2>4, Zenon
<1>3. CASE ~ (m > f.off + f.len)
  <2>1. m <= f.off + f.len
    BY ONLY <1>1, <1>3, m \in Nat
  <2>2. Further(m, f) = f.off + f.len
    BY <1>3, Zenon DEF Further
  <2>3. Units(f) = [i \in 1 .. f.len |-> <<f.pkt, f.off + i>>]
    BY Zenon DEF Units
  <2> QED
    <3>1. PICK p \in DOMAIN IpLengths, o \in Nat, n \in Nat : p = f.pkt /\ o = f.off /\ n = f.len
      BY <1>1, Zenon
    <3>2. o <= m /\ m <= o + n
      BY <2>1, <3>1, Zenon
    <3>3. Start(p, m) \o SubSeq([i \in 1 .. n |-> <<p, o + i>>], m - o + 1, n) = Start(p, o + n)
      BY <3>2, RestGlued
    <3> QED
      BY <2>2, <2>3, <3>1, <3>3, Zenon
<1> QED
  BY <1>2, <1>3

----------------------------------------------------------------------------
(* What is put together from a sorted list of the pieces of one packet.    *)

PiecesOf(p) == {f \in Piece : f.pkt = p}
Sorted(l) == \A i, j \in 1 .. Len(l) : i <= j => l[i].off <= l[j].off
NoGap(l, k) == \A j \in 1 .. k : l[j].off <= End(l)[j - 1]

\* After k fragments, m bytes of p: all of them, or up to a gap.
Begun(always, l, k, p, q, m) ==
  /\ q = Start(p, m)
  /\ \/ NoGap(l, k) /\ m = End(l)[k]
     \/ ~always /\ \E j \in 1 .. k : l[j].off > m

LEMMA PieceListTyped ==
  ASSUME NEW p, NEW l \in Seq(PiecesOf(p))
  PROVE  /\ l \in Seq(Fragment) /\ Len(l) \in Nat
         /\ \A i \in 1 .. Len(l) : l[i] \in Piece /\ l[i].pkt = p /\ l[i].off \in Nat /\ l[i].len \in Nat /\ l[i].len > 0
<1>1. PiecesOf(p) \subseteq Fragment
  BY Zenon DEF PiecesOf, Piece
<1>2. l \in Seq(Fragment) /\ Len(l) \in Nat /\ \A i \in 1 .. Len(l) : l[i] \in PiecesOf(p)
  BY <1>1
<1>3. \A i \in 1 .. Len(l) : l[i] \in Piece /\ l[i].pkt = p
  BY <1>2, Zenon DEF PiecesOf
<1> QED
  BY <1>2, <1>3, PieceTyped, Zenon

LEMMA GluedBegins ==
  ASSUME NEW always \in BOOLEAN, NEW p \in DOMAIN IpLengths, NEW l \in Seq(PiecesOf(p)), Sorted(l),
         always => NoGap(l, Len(l)),
         NEW g, Gluing(always, l, 1 .. Len(l), g), NEW n \in 0 .. Len(l)
  PROVE  \E m \in Nat : Begun(always, l, n, p, g[1 .. n], m)
<1> DEFINE T == {k \in Nat : k <= Len(l) => \E m \in Nat : Begun(always, l, k, p, g[1 .. k], m)}
<1>1. /\ l \in Seq(Fragment) /\ Len(l) \in Nat
      /\ \A i \in 1 .. Len(l) : l[i] \in Piece /\ l[i].pkt = p /\ l[i].off \in Nat /\ l[i].len \in Nat /\ l[i].len > 0
  BY PieceListTyped
<1>2. \A u \in SUBSET (1 .. Len(l)) : g[u] = IF u = {} THEN << >>
                                             ELSE Glued(always, g[u \ {Max(u)}], l[Max(u)])
  BY GluingAt, Zenon
<1>3. End(l)[0] = 0 /\ \A i \in 1 .. Len(l) : End(l)[i] = Further(End(l)[i - 1], l[i])
  BY <1>1, EndIs, Zenon
<1>4. \A i \in 0 .. Len(l) : End(l)[i] \in Nat
  BY <1>1, EndReached, Zenon
<1>5. 0 \in T
  <2>1. 1 .. 0 = {} /\ {} \in SUBSET (1 .. Len(l))
    OBVIOUS
  <2>2. g[1 .. 0] = << >>
    BY <1>2, <2>1, Zenon
  <2>3. Start(p, 0) = << >>
    <3>1. Start(p, 0) \in Seq(UnitsOf(p)) /\ Len(Start(p, 0)) = 0
      BY StartTyped, 0 \in Nat, Zenon
    <3> QED
      BY <3>1, EmptySeq, Zenon
  <2>4. NoGap(l, 0)
    BY <2>1, Zenon DEF NoGap
  <2>5. Begun(always, l, 0, p, g[1 .. 0], 0)
    BY <1>3, <2>2, <2>3, <2>4, Zenon DEF Begun
  <2> QED
    BY <2>5, 0 \in Nat, Zenon
<1>6. ASSUME NEW k \in Nat, k \in T
      PROVE  k + 1 \in T
  <2> SUFFICES ASSUME k + 1 <= Len(l)
               PROVE  \E m \in Nat : Begun(always, l, k + 1, p, g[1 .. k + 1], m)
    OBVIOUS
  <2>1. /\ k <= Len(l) /\ k + 1 \in 1 .. Len(l) /\ k \in 0 .. Len(l)
        /\ (k + 1) - 1 = k /\ k + 1 \in 1 .. k + 1
    BY <1>1
  <2>2. PICK m \in Nat : Begun(always, l, k, p, g[1 .. k], m)
    BY <1>6, <2>1, Zenon
  <2> HIDE DEF T
  <2>3. PICK f \in Piece : f = l[k + 1]
    BY <1>1, <2>1, Zenon
  <2>4. f.pkt = p /\ f.off \in Nat /\ f.len \in Nat /\ f.len > 0
    BY <1>1, <2>1, <2>3, Zenon
  <2>5. g[1 .. k + 1] = Glued(always, g[1 .. k], f)
    <3>1. 1 .. k + 1 \in SUBSET (1 .. Len(l)) /\ 1 .. k + 1 # {}
      <4>1. Len(l) \in Nat
        BY <1>1
      <4>2. \A i \in 1 .. k + 1 : i \in 1 .. Len(l)
        BY ONLY <2>1, <4>1, k \in Nat
      <4> QED
        BY <2>1, <4>2, Zenon
    <3>2. Max(1 .. k + 1) = k + 1
      BY LastPlace
    <3>3. (1 .. k + 1) \ {k + 1} = 1 .. k
      OBVIOUS
    <3> QED
      BY <1>2, <2>3, <3>1, <3>2, <3>3, Zenon
  <2>6. PICK q : q = g[1 .. k]
    OBVIOUS
  <2>7. q = Start(p, m) /\ Len(q) = m
    BY <2>2, <2>6, StartTyped, Zenon DEF Begun
  <2>8. CASE f.off <= m
    <3>1. Glued(always, q, f) = q \o SubSeq(Units(f), m - f.off + 1, f.len)
      <4>1. m >= f.off
        BY <2>4, <2>8
      <4> QED
        BY <2>7, <4>1, Zenon DEF Glued
    <3>2. Glued(always, q, f) = Start(p, Further(m, f))
      BY <2>4, <2>7, <2>8, <3>1, GluedLonger, Zenon
    <3>3. NoGap(l, k) /\ m = End(l)[k]
      <4>1. ASSUME NEW j \in 1 .. k, l[j].off > m
            PROVE  FALSE
        <5>1. j \in 1 .. Len(l) /\ j <= k + 1
          BY <2>1
        <5>2. l[j].off <= f.off /\ l[j].off \in Nat
          BY <1>1, <2>1, <2>3, <5>1, Zenon DEF Sorted
        <5> QED
          BY ONLY <2>4, <2>8, <4>1, <5>2, m \in Nat
      <4> QED
        BY <2>2, <4>1, Zenon DEF Begun
    <3>4. NoGap(l, k + 1)
      <4>1. \A j \in 1 .. k + 1 : j \in 1 .. k \/ j = k + 1
        OBVIOUS
      <4> QED
        BY <2>1, <2>3, <2>8, <3>3, <4>1, Zenon DEF NoGap
    <3>5. End(l)[k + 1] = Further(m, f)
      BY <1>3, <2>1, <2>3, <3>3, Zenon
    <3>6. Begun(always, l, k + 1, p, g[1 .. k + 1], End(l)[k + 1])
      BY <2>5, <2>6, <3>2, <3>4, <3>5, Zenon DEF Begun
    <3>7. End(l)[k + 1] \in Nat
      <4>1. k + 1 \in 0 .. Len(l)
        BY <2>1
      <4> QED
        BY <1>4, <4>1, Zenon
    <3> QED
      BY <3>6, <3>7, Zenon
  <2>9. CASE ~ (f.off <= m)
    <3>1. f.off > m /\ ~ (m >= f.off)
      BY <2>4, <2>9
    <3>2. ~always
      <4>1. SUFFICES ASSUME always PROVE FALSE
        BY Zenon
      <4>2. m = End(l)[k]
        BY <2>2, <4>1, Zenon DEF Begun
      <4>3. f.off <= End(l)[k]
        BY <2>1, <2>3, <4>1, Zenon DEF NoGap
      <4> QED
        BY <2>9, <4>2, <4>3, Zenon
    <3>3. Glued(always, q, f) = q
      BY <2>7, <3>1, <3>2, Zenon DEF Glued
    <3>4. Begun(always, l, k + 1, p, g[1 .. k + 1], m)
      BY <2>1, <2>3, <2>5, <2>6, <2>7, <3>1, <3>2, <3>3, Zenon DEF Begun
    <3> QED
      BY <3>4, Zenon
  <2> QED
    BY <2>8, <2>9
<1> HIDE DEF T
<1>7. n \in T /\ n <= Len(l)
  BY <1>5, <1>6, SetInduction
<1> QED
  BY <1>7 DEF T

LEMMA WholeIsStart ==
  ASSUME NEW p \in DOMAIN IpLengths
  PROVE  Whole(p) = Start(p, IpLengths[p]) /\ IpLengths[p] \in Nat /\ IpLengths[p] > 0
BY IpConstants, Zenon DEF Whole, Start

\* An entire list gives the packet.
LEMMA PacketWhole ==
  ASSUME NEW p \in DOMAIN IpLengths, NEW l \in Seq(PiecesOf(p)), Sorted(l), Len(l) > 0,
         ~l[Len(l)].more, NoGap(l, Len(l))
  PROVE  GetPacket(l) = Whole(p)
<1> PICK n \in Nat : n = Len(l)
  OBVIOUS
<1>1. /\ l \in Seq(Fragment)
      /\ \A i \in 1 .. n : l[i] \in Piece /\ l[i].pkt = p /\ l[i].off \in Nat /\ l[i].len \in Nat /\ l[i].len > 0
  BY PieceListTyped, Zenon
<1>2. PICK g : Gluing(TRUE, l, 1 .. n, g) /\ GetPacket(l) = g[1 .. n]
  BY <1>1, PacketIsGlued, Zenon
<1>3. n \in 0 .. n /\ n \in 1 .. n
  BY Zenon, SMT
<1>4. PICK m \in Nat : Begun(TRUE, l, n, p, g[1 .. n], m)
  BY <1>2, <1>3, GluedBegins, Zenon
<1>5. GetPacket(l) = Start(p, End(l)[n])
  BY <1>2, <1>4, Zenon DEF Begun
<1>6. PICK E \in Nat : E = End(l)[n]
  BY <1>1, <1>3, EndReached, Zenon
<1>7. l[n].off + l[n].len <= E /\ \E j \in 1 .. n : E = l[j].off + l[j].len
  BY <1>1, <1>3, <1>6, EndReached
<1>8. PICK L \in Nat : L = IpLengths[p] /\ Whole(p) = Start(p, L)
  BY WholeIsStart, Zenon
<1>9. \A j \in 1 .. n : l[j].off + l[j].len <= L /\ (l[j].more <=> l[j].off + l[j].len < L)
  BY <1>1, <1>8, PieceTyped, Zenon
<1>10. E <= L /\ L <= E
  <2>1. PICK j \in 1 .. n : E = l[j].off + l[j].len
    BY <1>7
  <2>2. E <= L
    BY <1>9, <2>1, Zenon
  <2>3. ~ (l[n].off + l[n].len < L) /\ l[n].off \in Nat /\ l[n].len \in Nat
    BY <1>1, <1>3, <1>9, Zenon
  <2> QED
    BY ONLY SMTT(40), <1>7, <2>2, <2>3, L \in Nat, E \in Nat
<1>11. E = L
  BY ONLY <1>10, L \in Nat, E \in Nat
<1> QED
  BY <1>5, <1>6, <1>8, <1>11, Zenon

\* What a list gives up to the first gap.
LEMMA PartialStarts ==
  ASSUME NEW p \in DOMAIN IpLengths, NEW l \in Seq(PiecesOf(p)), Sorted(l), Len(l) > 0
  PROVE  \E m \in 0 .. IpLengths[p] :
           /\ GetPartialPacket(l) = Start(p, m)
           /\ m = IpLengths[p] => NoGap(l, Len(l)) /\ \E j \in 1 .. Len(l) : l[j].off + l[j].len = IpLengths[p]
<1> PICK n \in Nat : n = Len(l)
  OBVIOUS
<1>1. /\ l \in Seq(Fragment)
      /\ \A i \in 1 .. n : l[i] \in Piece /\ l[i].pkt = p /\ l[i].off \in Nat /\ l[i].len \in Nat /\ l[i].len > 0
  BY PieceListTyped, Zenon
<1>2. PICK g : Gluing(FALSE, l, 1 .. n, g) /\ GetPartialPacket(l) = g[1 .. n]
  BY <1>1, PacketIsGlued, Zenon
<1>3. n \in 0 .. n /\ n \in 1 .. n /\ n > 0
  BY Zenon, SMT
<1>4. PICK m \in Nat : Begun(FALSE, l, n, p, g[1 .. n], m)
  BY <1>2, <1>3, GluedBegins, Zenon
<1>5. GetPartialPacket(l) = Start(p, m)
  BY <1>2, <1>4, Zenon DEF Begun
<1>6. PICK L \in Nat : L = IpLengths[p]
  BY WholeIsStart, Zenon
<1>7. \A j \in 1 .. n : l[j].off + l[j].len <= L
  BY <1>1, <1>6, PieceTyped, Zenon
<1>8. CASE NoGap(l, n) /\ m = End(l)[n]
  <2>1. PICK j \in 1 .. n : m = l[j].off + l[j].len
    BY <1>1, <1>3, <1>8, EndReached
  <2>2. m <= L
    BY <1>7, <2>1, Zenon
  <2>3. m \in 0 .. L
    BY ONLY <2>2, m \in Nat, L \in Nat
  <2> QED
    BY <1>5, <1>6, <1>8, <2>1, <2>3, Zenon
<1>9. CASE \E j \in 1 .. n : l[j].off > m
  <2>1. PICK j \in 1 .. n : l[j].off > m
    BY <1>9
  <2>2. l[j].off + l[j].len <= L /\ l[j].off \in Nat /\ l[j].len \in Nat
    BY <1>1, <1>7, Zenon
  <2>3. m \in 0 .. L /\ m # L
    BY ONLY SMTT(40), <1>1, <2>1, <2>2, m \in Nat, L \in Nat
  <2> QED
    BY <1>5, <1>6, <2>3, Zenon
<1> QED
  BY <1>4, <1>8, <1>9, Zenon DEF Begun

LEMMA StartPrefix ==
  ASSUME NEW p \in DOMAIN IpLengths, NEW m \in 0 .. IpLengths[p]
  PROVE  IsPrefix(Start(p, m), Whole(p)) /\ (Start(p, m) = Whole(p) => m = IpLengths[p])
<1>1. PICK L \in Nat : L = IpLengths[p] /\ Whole(p) = Start(p, L)
  BY WholeIsStart, Zenon
<1>2. m \in Nat /\ m <= L
  BY <1>1
<1>3. PICK x, y : x = Start(p, m) /\ y = Start(p, L)
  OBVIOUS
<1>4. /\ x \in Seq(UnitsOf(p)) /\ Len(x) = m /\ \A i \in 1 .. m : x[i] = <<p, i>>
      /\ y \in Seq(UnitsOf(p)) /\ Len(y) = L /\ \A i \in 1 .. L : y[i] = <<p, i>>
  BY <1>2, <1>3, StartTyped, Zenon
<1>5. \A i \in 1 .. m : x[i] = y[i]
  <2>1. \A i \in 1 .. m : i \in 1 .. L
    BY <1>2
  <2> QED
    BY <1>4, <2>1, Zenon
<1>6. SubSeq(x, 1, m) = SubSeq(y, 1, m)
  <2>1. 1 \in Int /\ m \in Int /\ m - 1 + 1 = m
    BY <1>2
  <2>2. \A i \in 1 .. m : x[i] \in UnitsOf(p) /\ y[i] \in UnitsOf(p)
    <3>1. \A i \in 1 .. m : <<p, i>> \in UnitsOf(p)
      <4>1. \A i \in 1 .. m : i \in Nat
        OBVIOUS
      <4> QED
        BY <4>1, Zenon DEF UnitsOf
    <3> QED
      BY <1>4, <1>5, <3>1, Zenon
  <2>3. /\ SubSeq(x, 1, m) \in Seq(UnitsOf(p)) /\ Len(SubSeq(x, 1, m)) = (IF 1 <= m THEN m - 1 + 1 ELSE 0)
        /\ \A i \in 1 .. m - 1 + 1 : SubSeq(x, 1, m)[i] = x[1 + i - 1]
    BY ONLY <2>1, <2>2, SubSeqProperties
  <2>4. /\ SubSeq(y, 1, m) \in Seq(UnitsOf(p)) /\ Len(SubSeq(y, 1, m)) = (IF 1 <= m THEN m - 1 + 1 ELSE 0)
        /\ \A i \in 1 .. m - 1 + 1 : SubSeq(y, 1, m)[i] = y[1 + i - 1]
    BY ONLY <2>1, <2>2, SubSeqProperties
  <2>5. (IF 1 <= m THEN m - 1 + 1 ELSE 0) = m
    BY <1>2
  <2>6. \A i \in 1 .. m : 1 + i - 1 = i
    BY <1>2
  <2>7. PICK a, b : a = SubSeq(x, 1, m) /\ b = SubSeq(y, 1, m)
    OBVIOUS
  <2>8. \A i \in 1 .. m : a[i] = b[i]
    BY <1>5, <2>1, <2>3, <2>4, <2>6, <2>7, Zenon
  <2>9. a = b
    BY <2>3, <2>4, <2>5, <2>7, <2>8, SeqEqual, Zenon
  <2> QED
    BY <2>7, <2>9
<1>7. IsPrefix(x, y)
  BY <1>2, <1>4, <1>6, Zenon DEF IsPrefix
<1> QED
  BY <1>1, <1>3, <1>4, <1>7, Zenon

----------------------------------------------------------------------------
(* Places: a set of numbers that holds what is below each of them.         *)

DownClosed(S) == \A i \in S : \A j \in 1 .. i : j \in S

LEMMA DownClosedPlaces ==
  ASSUME NEW n \in Nat, NEW S \in SUBSET (1 .. n), DownClosed(S)
  PROVE  Cardinality(S) \in 0 .. n /\ S = 1 .. Cardinality(S)
<1> DEFINE T == {k \in Nat : \A U \in SUBSET (1 .. k) : DownClosed(U) => \E i \in 0 .. k : U = 1 .. i}
<1>1. 0 \in T
  <2>1. \A U \in SUBSET (1 .. 0) : U = 1 .. 0 /\ 0 \in 0 .. 0
    OBVIOUS
  <2> QED
    BY <2>1, 0 \in Nat, Zenon
<1>2. ASSUME NEW k \in Nat, k \in T
      PROVE  k + 1 \in T
  <2>1. ASSUME NEW U \in SUBSET (1 .. k + 1), DownClosed(U)
        PROVE  \E i \in 0 .. k + 1 : U = 1 .. i
    <3>1. CASE k + 1 \in U
      <4>1. \A j \in 1 .. k + 1 : j \in U
        BY <2>1, <3>1, Zenon DEF DownClosed
      <4>2. U \subseteq 1 .. k + 1 /\ k + 1 \in 0 .. k + 1
        BY ONLY U \in SUBSET (1 .. k + 1), k \in Nat
      <4>3. U = 1 .. k + 1
        BY ONLY <4>1, <4>2
      <4> QED
        BY <4>2, <4>3, Zenon
    <3>2. CASE k + 1 \notin U
      <4>1. U \in SUBSET (1 .. k)
        BY <3>2
      <4>2. PICK i \in 0 .. k : U = 1 .. i
        BY <1>2, <2>1, <4>1, Zenon
      <4>3. i \in 0 .. k + 1
        OBVIOUS
      <4> QED
        BY <4>2, <4>3, Zenon
    <3> QED
      BY <3>1, <3>2
  <2>2. k + 1 \in Nat
    OBVIOUS
  <2> QED
    BY <2>1, <2>2, Zenon
<1> HIDE DEF T
<1>3. n \in T
  BY <1>1, <1>2, SetInduction
<1>4. PICK i \in 0 .. n : S = 1 .. i
  BY <1>3, Zenon DEF T
<1>5. Cardinality(1 .. i) = i
  <2>1. i \in Nat /\ 1 \in Int
    OBVIOUS
  <2>2. Cardinality(1 .. i) = IF 1 > i THEN 0 ELSE i - 1 + 1
    BY <2>1, FS_Interval
  <2> QED
    BY <2>1, <2>2
<1> QED
  BY <1>4, <1>5

\* What is put in behind the first k of a sequence.
PutBehind(T, l, f, k, r) ==
  /\ r \in Seq(T) /\ Len(r) = Len(l) + 1 /\ r[k + 1] = f
  /\ \A i \in 1 .. k : r[i] = l[i]
  /\ \A i \in k + 2 .. Len(l) + 1 : r[i] = l[i - 1]

LEMMA PutIn ==
  ASSUME NEW T, NEW l \in Seq(T), NEW f \in T, NEW k \in 0 .. Len(l),
         NEW r, r = SubSeq(l, 1, k) \o <<f>> \o SubSeq(l, k + 1, Len(l))
  PROVE  PutBehind(T, l, f, k, r)
<1> PICK n \in Nat : n = Len(l)
  OBVIOUS
<1>1. k \in Nat /\ k <= n
  OBVIOUS
<1> DEFINE a == SubSeq(l, 1, k)
           b == SubSeq(l, k + 1, Len(l))
<1>2. a \in Seq(T) /\ Len(a) = k /\ \A i \in 1 .. k : a[i] = l[i]
  BY <1>1, SubSeqProperties
<1>3. b \in Seq(T) /\ Len(b) = n - k /\ \A i \in 1 .. n - k : b[i] = l[k + i]
  BY <1>1, SubSeqProperties
<1>4. r = a \o <<f>> \o b
  OBVIOUS
<1> HIDE DEF a, b
<1>5. <<f>> \in Seq(T) /\ Len(<<f>>) = 1 /\ <<f>>[1] = f
  OBVIOUS
<1> PICK c : c = a \o <<f>>
  OBVIOUS
<1>6. /\ c \in Seq(T) /\ Len(c) = Len(a) + Len(<<f>>)
      /\ \A i \in 1 .. Len(a) + Len(<<f>>) : c[i] = IF i <= Len(a) THEN a[i] ELSE <<f>>[i - Len(a)]
  BY <1>2, <1>5, ConcatProperties, ZenonT(40)
<1>7. Len(c) = k + 1 /\ c[k + 1] = f /\ \A i \in 1 .. k : c[i] = l[i]
  <2>1. Len(c) = k + 1 /\ \A i \in 1 .. k + 1 : c[i] = IF i <= k THEN a[i] ELSE <<f>>[i - k]
    BY <1>2, <1>5, <1>6, Zenon
  <2>2. k + 1 \in 1 .. k + 1 /\ ~ (k + 1 <= k) /\ (k + 1) - k = 1
    BY <1>1
  <2>3. \A i \in 1 .. k : i \in 1 .. k + 1 /\ i <= k
    BY <1>1
  <2> QED
    BY <1>2, <1>5, <2>1, <2>2, <2>3, ZenonT(40)
<1>8. /\ r \in Seq(T) /\ Len(r) = Len(c) + Len(b)
      /\ \A i \in 1 .. Len(c) + Len(b) : r[i] = IF i <= Len(c) THEN c[i] ELSE b[i - Len(c)]
  <2>1. r = c \o b
    BY <1>4
  <2>2. /\ c \o b \in Seq(T) /\ Len(c \o b) = Len(c) + Len(b)
        /\ \A i \in 1 .. Len(c) + Len(b) : (c \o b)[i] = IF i <= Len(c) THEN c[i] ELSE b[i - Len(c)]
    <3>1. c \in Seq(T) /\ b \in Seq(T)
      BY <1>3, <1>6, Zenon
    <3> QED
      BY ONLY <3>1, ConcatProperties, Zenon
  <2> QED
    BY <2>1, <2>2, Zenon
<1>9. Len(r) = n + 1 /\ \A i \in 1 .. n + 1 : r[i] = IF i <= k + 1 THEN c[i] ELSE b[i - (k + 1)]
  <2>1. Len(c) + Len(b) = n + 1
    BY ONLY <1>1, <1>3, <1>7, n \in Nat
  <2> QED
    BY <1>7, <1>8, <2>1, Zenon
<1>10. \A i \in 1 .. k + 1 : i \in 1 .. n + 1 /\ i <= k + 1
  BY <1>1
<1>11. r[k + 1] = f /\ \A i \in 1 .. k : r[i] = l[i]
  <2>1. k + 1 \in 1 .. k + 1 /\ \A i \in 1 .. k : i \in 1 .. k + 1
    BY <1>1
  <2> QED
    BY <1>7, <1>9, <1>10, <2>1, Zenon
<1>12. ASSUME NEW i \in k + 2 .. n + 1
       PROVE  r[i] = l[i - 1]
  <2>1. i \in 1 .. n + 1 /\ ~ (i <= k + 1) /\ i - (k + 1) \in 1 .. n - k /\ k + (i - (k + 1)) = i - 1
    BY <1>1
  <2> QED
    BY <1>3, <1>9, <2>1, Zenon
<1> QED
  BY <1>8, <1>9, <1>11, <1>12, Zenon DEF PutBehind

\* AddFragment keeps the list sorted, and "more" the one of the last.
Added(l, f, x) ==
  /\ x.list \in Seq(Piece) /\ Len(x.list) = Len(l) + 1 /\ Sorted(x.list)
  /\ x = [list |-> x.list, more |-> x.list[Len(l) + 1].more]
  /\ \A i \in 1 .. Len(l) + 1 : x.list[i] = f \/ \E j \in 1 .. Len(l) : x.list[i] = l[j]

LEMMA FragmentAdded ==
  ASSUME NEW l \in Seq(Piece), Sorted(l), NEW f \in Piece, NEW b, Len(l) > 0 => b = l[Len(l)].more,
         NEW x, x = AddFragment([list |-> l, more |-> b], f)
  PROVE  Added(l, f, x)
<1> PICK n \in Nat : n = Len(l) /\ DOMAIN l = 1 .. n
  OBVIOUS
<1> DEFINE I == {j \in DOMAIN l : l[j].off <= f.off}
<1>1. f.off \in Nat /\ \A j \in 1 .. n : l[j].off \in Nat
  <2>1. \A j \in 1 .. n : l[j] \in Piece
    OBVIOUS
  <2> QED
    BY <2>1, PieceTyped, Zenon
<1>2. Cardinality(I) \in 0 .. n /\ I = 1 .. Cardinality(I)
  <2>1. I \in SUBSET (1 .. n)
    OBVIOUS
  <2>2. ASSUME NEW i \in I, NEW j \in 1 .. i
        PROVE  j \in I
    <3>1. j \in 1 .. n /\ i \in 1 .. n /\ j <= i
      BY <2>1
    <3>2. l[j].off <= l[i].off /\ l[i].off <= f.off
      BY <3>1, Zenon DEF Sorted
    <3>3. l[j].off <= f.off
      <4>1. l[j].off \in Nat /\ l[i].off \in Nat
        BY <1>1, <3>1, Zenon
      <4> QED
        BY ONLY <1>1, <3>2, <4>1
    <3> QED
      BY <3>1, <3>3, Zenon
  <2> HIDE DEF I
  <2>3. DownClosed(I)
    BY <2>2, Zenon DEF DownClosed
  <2> QED
    BY <2>1, <2>3, DownClosedPlaces, Zenon
<1>3. PICK k \in 0 .. n : k = Cardinality(I) /\ I = 1 .. k
  BY <1>2, Zenon
<1>4. k \in Nat /\ k <= n
  OBVIOUS
<1>5. PICK r : r = SubSeq(l, 1, k) \o <<f>> \o SubSeq(l, k + 1, Len(l))
  OBVIOUS
<1>6. x = [list |-> r, more |-> IF k = n THEN f.more ELSE b]
  <2>1. [list |-> l, more |-> b].list = l /\ [list |-> l, more |-> b].more = b
    OBVIOUS
  <2> QED
    BY <1>3, <1>5, <2>1, Zenon DEF AddFragment
<1>7. \A j \in 1 .. n : l[j].off <= f.off <=> j \in 1 .. k
  BY <1>3, Zenon
<1> HIDE DEF I
<1>8. /\ r \in Seq(Piece) /\ Len(r) = n + 1 /\ r[k + 1] = f
      /\ \A i \in 1 .. k : r[i] = l[i]
      /\ \A i \in k + 2 .. n + 1 : r[i] = l[i - 1]
  <2>1. k \in 0 .. Len(l)
    OBVIOUS
  <2>2. PutBehind(Piece, l, f, k, r)
    BY <1>5, <2>1, PutIn
  <2> QED
    BY <2>2, Zenon DEF PutBehind
<1>9. x.list = r
  BY <1>6
<1>10. ASSUME NEW i \in 1 .. n + 1
       PROVE  r[i] = f \/ \E j \in 1 .. n : r[i] = l[j]
  <2>1. i = k + 1 \/ (i \in 1 .. k /\ i \in 1 .. n) \/ (i \in k + 2 .. n + 1 /\ i - 1 \in 1 .. n)
    BY <1>4
  <2> QED
    BY <1>8, <2>1, Zenon
<1>11. ASSUME NEW i \in 1 .. n + 1, NEW j \in 1 .. n + 1, i <= j
       PROVE  r[i].off <= r[j].off
  <2>1. \A a, c \in 1 .. n : a <= c => l[a].off <= l[c].off
    BY Zenon DEF Sorted
  <2>2. \A c \in 1 .. n : c \notin 1 .. k => f.off <= l[c].off
    BY SMTT(40), <1>1, <1>7
  <2>3. CASE i \in 1 .. k /\ j \in 1 .. k
    <3>1. i \in 1 .. n /\ j \in 1 .. n
      BY <1>4, <2>3
    <3> QED
      BY <1>8, <1>11, <2>1, <2>3, <3>1, Zenon
  <2>4. CASE i \in 1 .. k /\ j = k + 1
    <3>1. i \in 1 .. n
      BY <1>4, <2>4
    <3> QED
      BY <1>7, <1>8, <2>4, <3>1, Zenon
  <2>5. CASE i \in 1 .. k /\ j \in k + 2 .. n + 1
    <3>1. i \in 1 .. n /\ j - 1 \in 1 .. n /\ i <= j - 1
      BY <1>4, <2>5
    <3> QED
      BY <1>8, <2>1, <2>5, <3>1, Zenon
  <2>6. CASE i = k + 1 /\ j = k + 1
    BY <1>1, <1>8, <2>6
  <2>7. CASE i = k + 1 /\ j \in k + 2 .. n + 1
    <3>1. j - 1 \in 1 .. n /\ j - 1 \notin 1 .. k
      BY <1>4, <2>7
    <3> QED
      BY <1>8, <2>2, <2>7, <3>1, Zenon
  <2>8. CASE i \in k + 2 .. n + 1 /\ j \in k + 2 .. n + 1
    <3>1. i - 1 \in 1 .. n /\ j - 1 \in 1 .. n /\ i - 1 <= j - 1
      BY <1>4, <1>11, <2>8
    <3> QED
      BY <1>8, <2>1, <2>8, <3>1, Zenon
  <2>9. \/ i \in 1 .. k /\ j \in 1 .. k
        \/ i \in 1 .. k /\ j = k + 1
        \/ i \in 1 .. k /\ j \in k + 2 .. n + 1
        \/ i = k + 1 /\ j = k + 1
        \/ i = k + 1 /\ j \in k + 2 .. n + 1
        \/ i \in k + 2 .. n + 1 /\ j \in k + 2 .. n + 1
    BY <1>4, <1>11
  <2> QED
    BY <2>3, <2>4, <2>5, <2>6, <2>7, <2>8, <2>9, Zenon
<1>12. Sorted(r)
  BY <1>8, <1>11, Zenon DEF Sorted
<1>13. (IF k = n THEN f.more ELSE b) = r[n + 1].more
  <2>1. CASE k = n
    BY <1>8, <2>1, Zenon
  <2>2. CASE k # n
    <3>1. n > 0 /\ n + 1 \in k + 2 .. n + 1 /\ (n + 1) - 1 = n
      BY <1>4, <2>2
    <3> QED
      BY <1>8, <2>2, <3>1, Zenon
  <2> QED
    BY <2>1, <2>2
<1> QED
  BY <1>6, <1>8, <1>9, <1>10, <1>12, <1>13, Zenon DEF Added

----------------------------------------------------------------------------
(* The fragments there are, on their way and in the lists.                 *)

HeldIn(fr) == UNION {{fr[k].list[i] : i \in 1 .. Len(fr[k].list)} : k \in DOMAIN fr}
Everywhere(net, fr) == net \cup HeldIn(fr)

ListKept(x, k) ==
  /\ x.list \in Seq(Piece) /\ Len(x.list) > 0 /\ Sorted(x.list)
  /\ x = [list |-> x.list, more |-> x.list[Len(x.list)].more]
  /\ ~IsEntire(x) /\ \A i \in 1 .. Len(x.list) : IdOf(x.list[i].pkt) = k

OnePacket(A) == \A f, g \in A : IdOf(f.pkt) = IdOf(g.pkt) => f.pkt = g.pkt
AllApart(A) == \A f, g \in A : AreApart(f, g)

\* A fragment that is in a list and on its way too was duplicated.
FragInv ==
  /\ sentPackets \in Nat /\ copies \in Nat
  /\ \A f \in Everywhere(ipNet, frags) : f \in Piece /\ f.pkt \in 1 .. sentPackets
  /\ \A k \in DOMAIN frags : ListKept(frags[k], k)
  /\ ~idReused => OnePacket(Everywhere(ipNet, frags))
  /\ ~cutTwice => AllApart(Everywhere(ipNet, frags))
  /\ copies = 0 => ipNet \cap HeldIn(frags) = {}
  /\ cutTwice => copies > 0

LEMMA HeldIs ==
  ASSUME NEW fr, NEW f
  PROVE  f \in HeldIn(fr) <=> \E k \in DOMAIN fr : \E i \in 1 .. Len(fr[k].list) : f = fr[k].list[i]
<1> DEFINE of(k) == {fr[k].list[i] : i \in 1 .. Len(fr[k].list)}
<1>1. HeldIn(fr) = UNION {of(k) : k \in DOMAIN fr}
  BY Zenon DEF HeldIn
<1>2. \A k : f \in of(k) <=> \E i \in 1 .. Len(fr[k].list) : f = fr[k].list[i]
  BY Zenon
<1> HIDE DEF of
<1>3. f \in HeldIn(fr) <=> \E k \in DOMAIN fr : f \in of(k)
  BY <1>1
<1> QED
  BY <1>2, <1>3, Zenon

\* No fragment is new, and every list is in order.
LEMMA FewerKept ==
  ASSUME FragInv, sentPackets' = sentPackets, idReused' = idReused, cutTwice' = cutTwice,
         copies' \in Nat, copies' >= copies,
         Everywhere(ipNet', frags') \subseteq Everywhere(ipNet, frags),
         \A k \in DOMAIN frags' : ListKept(frags'[k], k),
         copies' = 0 => ipNet' \cap HeldIn(frags') = {}
  PROVE  FragInv'
<1>1. sentPackets \in Nat /\ copies \in Nat
  BY DEF FragInv
<1>2. \A f \in Everywhere(ipNet', frags') : f \in Piece /\ f.pkt \in 1 .. sentPackets'
  BY Zenon DEF FragInv
<1>3. ~idReused' => OnePacket(Everywhere(ipNet', frags'))
  BY Zenon DEF FragInv, OnePacket
<1>4. ~cutTwice' => AllApart(Everywhere(ipNet', frags'))
  BY Zenon DEF FragInv, AllApart
<1>5. cutTwice' => copies' > 0
  <2>1. ASSUME cutTwice' PROVE copies' > 0
    <3>1. copies > 0
      BY <2>1, Zenon DEF FragInv
    <3> QED
      BY <1>1, <3>1
  <2> QED
    BY <2>1, Zenon
<1> QED
  BY <1>1, <1>2, <1>3, <1>4, <1>5, Zenon DEF FragInv

LEMMA FragInvInit == IpInit => FragInv
<1> SUFFICES ASSUME IpInit PROVE FragInv
  OBVIOUS
<1>1. ipNet = {} /\ frags = << >> /\ sentPackets = 0 /\ copies = 0
  BY DEF IpInit
<1>2. cutTwice = FALSE
  BY DEF IpInit
<1>3. DOMAIN frags = {}
  BY <1>1
<1>4. HeldIn(frags) = {}
  BY <1>3, HeldIs, Zenon
<1>5. Everywhere(ipNet, frags) = {}
  BY <1>1, <1>4, Zenon DEF Everywhere
<1>6. sentPackets \in Nat /\ copies \in Nat
  BY <1>1
<1> QED
  BY <1>1, <1>2, <1>3, <1>4, <1>5, <1>6, Zenon DEF FragInv, OnePacket, AllApart

LEMMA SendKeepsFragments ==
  ASSUME FragInv, SendRealOut
  PROVE  FragInv'
<1> DEFINE p == sentPackets + 1
           w == [pkt |-> p, off |-> 0, len |-> IpLengths[p], more |-> FALSE]
           A == Everywhere(ipNet, frags)
<1>1. /\ p \in DOMAIN IpLengths /\ sentPackets' = p
      /\ ipNet' = ipNet \cup DoFragmentation(w, FragmentSize)
      /\ copies' = copies /\ frags' = frags /\ cutTwice' = cutTwice
  BY DEF SendRealOut
<1>2. ~idReused' => ~idReused /\ IdOf(p) \notin DOMAIN frags /\ \A f \in ipNet : IdOf(f.pkt) # IdOf(p)
  BY DEF SendRealOut
<1>3. w \in Piece /\ w.pkt = p
  <2>1. IpLengths[p] \in Nat \ {0}
    BY <1>1, IpConstants
  <2> PICK L \in Nat \ {0} : L = IpLengths[p]
    BY <2>1
  <2>2. w \in Fragment /\ w.pkt = p /\ w.off = 0 /\ w.len = L /\ w.more = FALSE
    BY <1>1, <2>1 DEF Fragment
  <2> HIDE DEF w, p
  <2>3. PieceOf(w)
    BY <2>2 DEF PieceOf
  <2> QED
    BY <2>2, <2>3 DEF Piece
<1> HIDE DEF w
<1> PICK P : P = DoFragmentation(w, FragmentSize)
  OBVIOUS
<1>4. /\ P \subseteq Piece /\ (\A g \in P : g.pkt = p) /\ \A g, h \in P : AreApart(g, h)
  BY <1>3, IpConstants, CutPieces, Zenon
<1>5. sentPackets \in Nat /\ copies \in Nat
  BY DEF FragInv
<1>6. p \in Nat /\ p \in 1 .. p /\ \A q \in 1 .. sentPackets : q \in 1 .. p /\ q # p
  BY <1>5
<1>7. \A f \in A : f \in Piece /\ f.pkt \in 1 .. sentPackets
  BY Zenon DEF FragInv
<1> HIDE DEF p
<1>8. Everywhere(ipNet', frags') = A \cup P
  BY <1>1, Zenon DEF Everywhere
<1> HIDE DEF A
<1>9. \A f \in A \cup P : f \in Piece /\ f.pkt \in 1 .. p
  BY <1>4, <1>6, <1>7, Zenon
<1>10. ~idReused' => OnePacket(A \cup P)
  <2> SUFFICES ASSUME ~idReused' PROVE OnePacket(A \cup P)
    BY Zenon
  <2>1. OnePacket(A)
    BY <1>2, Zenon DEF FragInv, A
  <2>2. \A f \in A : IdOf(f.pkt) # IdOf(p)
    <3>1. ASSUME NEW f \in HeldIn(frags) PROVE IdOf(f.pkt) # IdOf(p)
      <4>1. PICK k \in DOMAIN frags : \E i \in 1 .. Len(frags[k].list) : f = frags[k].list[i]
        BY HeldIs
      <4>2. IdOf(f.pkt) = k
        BY <4>1, ZenonT(40) DEF FragInv, ListKept
      <4> QED
        BY <1>2, <4>2, Zenon
    <3> QED
      BY <1>2, <3>1, Zenon DEF A, Everywhere
  <2> QED
    BY <1>4, <2>1, <2>2, Zenon DEF OnePacket
<1>11. ~cutTwice' => AllApart(A \cup P)
  <2> SUFFICES ASSUME ~cutTwice' PROVE AllApart(A \cup P)
    BY Zenon
  <2>1. AllApart(A)
    BY <1>1, Zenon DEF FragInv, A
  <2>2. \A f \in A, g \in P : f.pkt # g.pkt
    BY <1>4, <1>6, <1>7, Zenon
  <2>3. \A f \in A, g \in P : AreApart(f, g) /\ AreApart(g, f)
    BY <2>2, Zenon DEF AreApart
  <2> QED
    BY <1>4, <2>1, <2>3, Zenon DEF AllApart
<1>12. copies' = 0 => ipNet' \cap HeldIn(frags') = {}
  <2> SUFFICES ASSUME copies = 0, NEW f \in P, f \in HeldIn(frags) PROVE FALSE
    BY <1>1, Zenon DEF FragInv
  <2>1. f \in A
    BY Zenon DEF A, Everywhere
  <2> QED
    BY <1>4, <1>6, <1>7, <2>1, Zenon
<1>13. sentPackets' \in Nat /\ copies' \in Nat
  BY <1>1, <1>5, <1>6
<1> QED
  BY <1>1, <1>8, <1>9, <1>10, <1>11, <1>12, <1>13, Zenon DEF FragInv

\* What is apart from a fragment is apart from what lies inside it.
LEMMA InsideApart ==
  ASSUME NEW f \in Piece, NEW g \in Piece, NEW h \in Piece, AreApart(f, g), f # g,
         h.pkt = f.pkt, f.off <= h.off, h.off + h.len <= f.off + f.len
  PROVE  AreApart(g, h) /\ AreApart(h, g) /\ g # h
<1>1. /\ f.off \in Nat /\ f.len \in Nat /\ f.len > 0 /\ g.off \in Nat /\ g.len \in Nat /\ g.len > 0
      /\ h.off \in Nat /\ h.len \in Nat /\ h.len > 0
  BY PieceTyped
<1>2. CASE g.pkt # f.pkt
  BY <1>2, Zenon DEF AreApart
<1>3. CASE g.pkt = f.pkt
  <2>1. f.off + f.len <= g.off \/ g.off + g.len <= f.off
    BY <1>3, Zenon DEF AreApart
  <2>2. h.off + h.len <= g.off \/ g.off + g.len <= h.off
    BY ONLY <1>1, <2>1, f.off <= h.off, h.off + h.len <= f.off + f.len
  <2>3. g # h
    <3> SUFFICES ASSUME g = h PROVE FALSE
      BY Zenon
    <3>1. g.off + g.len <= g.off
      BY <2>2, Zenon
    <3> QED
      BY ONLY <1>1, <3>1
  <2> QED
    BY <2>2, <2>3, Zenon DEF AreApart
<1> QED
  BY <1>2, <1>3, Zenon

LEMMA RefragmentKeepsFragments ==
  ASSUME FragInv, Refragment
  PROVE  FragInv'
<1> DEFINE A == Everywhere(ipNet, frags)
<1>1. PICK f \in ipNet, dup \in BOOLEAN :
        /\ copies' = copies + (IF dup THEN 1 ELSE 0)
        /\ ipNet' = (IF dup THEN ipNet ELSE ipNet \ {f}) \cup DoFragmentation(f, SmallSize)
        /\ cutTwice' = (copies' > 0)
  BY DEF Refragment
<1>2. sentPackets' = sentPackets /\ frags' = frags /\ idReused' = idReused
  BY DEF Refragment
<1>3. f \in A /\ f \in Piece
  BY Zenon DEF A, Everywhere, FragInv
<1> PICK P : P = DoFragmentation(f, SmallSize)
  OBVIOUS
<1>4. /\ P \subseteq Piece
      /\ \A g \in P : g.pkt = f.pkt /\ f.off <= g.off /\ g.off + g.len <= f.off + f.len
      /\ \A g, h \in P : AreApart(g, h)
  BY <1>3, IpConstants, CutPieces, Zenon
<1>5. sentPackets \in Nat /\ copies \in Nat
  BY DEF FragInv
<1>6. \A g \in A : g \in Piece /\ g.pkt \in 1 .. sentPackets
  BY Zenon DEF FragInv
<1>7. Everywhere(ipNet', frags') \subseteq A \cup P
  BY <1>1, <1>2, Zenon DEF Everywhere
<1> PICK B : B = Everywhere(ipNet', frags')
  OBVIOUS
<1>8. copies' \in Nat /\ copies' >= copies /\ (copies' = 0 => copies = 0 /\ ~dup)
  BY <1>1, <1>5
<1>9. cutTwice' <=> copies' > 0
  BY <1>1
<1>10. \A g \in B : g \in Piece /\ g.pkt \in 1 .. sentPackets
  BY <1>3, <1>4, <1>6, <1>7, Zenon
<1>11. ~idReused' => OnePacket(B)
  <2> SUFFICES ASSUME ~idReused' PROVE OnePacket(B)
    BY Zenon
  <2>1. OnePacket(A)
    BY <1>2, Zenon DEF FragInv
  <2> HIDE DEF A
  <2>2. \A g \in B : \E h \in A : h.pkt = g.pkt
    BY <1>3, <1>4, <1>7, Zenon
  <2>3. ASSUME NEW g \in B, NEW h \in B, IdOf(g.pkt) = IdOf(h.pkt)
        PROVE  g.pkt = h.pkt
    <3>1. PICK a \in A : a.pkt = g.pkt
      BY <2>2
    <3>2. PICK b \in A : b.pkt = h.pkt
      BY <2>2
    <3>3. IdOf(a.pkt) = IdOf(b.pkt)
      BY <2>3, <3>1, <3>2, Zenon
    <3> QED
      BY <2>1, <3>1, <3>2, <3>3, Zenon DEF OnePacket
  <2> QED
    BY <2>3, Zenon DEF OnePacket
<1>12. copies' = 0 => AllApart(B) /\ ipNet' \cap HeldIn(frags') = {}
  <2> SUFFICES ASSUME copies' = 0 PROVE AllApart(B) /\ ipNet' \cap HeldIn(frags') = {}
    BY Zenon
  <2>1. copies = 0 /\ ~dup /\ ipNet' = (ipNet \ {f}) \cup P /\ ~cutTwice
    <3>1. copies = 0 /\ ~dup
      BY <1>8
    <3>2. ~ (copies > 0)
      BY <3>1
    <3> QED
      BY <1>1, <3>1, <3>2, Zenon DEF FragInv
  <2>2. AllApart(A) /\ ipNet \cap HeldIn(frags) = {}
    BY <2>1, Zenon DEF FragInv
  <2>3. f \notin HeldIn(frags)
    BY <2>2, Zenon
  <2>4. B \subseteq (A \ {f}) \cup P
    BY <1>2, <2>1, <2>3, Zenon DEF A, Everywhere
  <2>5. ASSUME NEW g \in A, g # f, NEW h \in P
        PROVE  AreApart(g, h) /\ AreApart(h, g) /\ g # h
    <3>1. AreApart(f, g) /\ g \in Piece /\ h \in Piece
      BY <1>3, <1>4, <1>6, <2>2, Zenon DEF AllApart
    <3>2. h.pkt = f.pkt /\ f.off <= h.off /\ h.off + h.len <= f.off + f.len /\ f # g
      BY <1>4, <2>5, Zenon
    <3> QED
      BY ONLY <1>3, <3>1, <3>2, InsideApart, Zenon
  <2>6. AllApart(B)
    <3> HIDE DEF A
    <3>1. ASSUME NEW g \in B, NEW h \in B
          PROVE  AreApart(g, h)
      <4>1. ((g \in A /\ g # f) \/ g \in P) /\ ((h \in A /\ h # f) \/ h \in P)
        BY <2>4, Zenon
      <4> QED
        BY <1>4, <2>2, <2>5, <4>1, Zenon DEF AllApart
    <3> QED
      BY <3>1, Zenon DEF AllApart
  <2>7. ASSUME NEW g \in ipNet', g \in HeldIn(frags)
        PROVE  FALSE
    <3>1. g \in P
      BY <2>1, <2>2, <2>7, Zenon
    <3>2. g \in A /\ g # f
      BY <2>3, <2>7, Zenon DEF A, Everywhere
    <3> QED
      BY <2>5, <3>1, <3>2, Zenon
  <2> QED
    BY <1>2, <2>6, <2>7, Zenon
<1>13. \A k \in DOMAIN frags' : ListKept(frags'[k], k)
  BY <1>2, Zenon DEF FragInv
<1>14. ~ (copies' > 0) => copies' = 0
  BY <1>8
<1> QED
  BY <1>2, <1>5, <1>8, <1>9, <1>10, <1>11, <1>12, <1>13, <1>14, Zenon DEF FragInv

LEMMA LoseKeepsFragments ==
  ASSUME FragInv, LoseFragment
  PROVE  FragInv'
<1>1. PICK f \in ipNet : ipNet' = ipNet \ {f}
  BY DEF LoseFragment
<1>2. /\ sentPackets' = sentPackets /\ idReused' = idReused /\ cutTwice' = cutTwice
      /\ frags' = frags /\ copies' = copies + 1
  BY DEF LoseFragment
<1>3. copies \in Nat
  BY DEF FragInv
<1>4. copies' \in Nat /\ copies' >= copies /\ copies' # 0
  BY <1>2, <1>3
<1>5. Everywhere(ipNet', frags') \subseteq Everywhere(ipNet, frags)
  BY <1>1, <1>2, Zenon DEF Everywhere
<1>6. \A k \in DOMAIN frags' : ListKept(frags'[k], k)
  BY <1>2, Zenon DEF FragInv
<1> QED
  BY <1>2, <1>4, <1>5, <1>6, FewerKept, Zenon

LEMMA TickKeepsFragments ==
  ASSUME FragInv, IpTick
  PROVE  FragInv'
<1>1. /\ sentPackets' = sentPackets /\ idReused' = idReused /\ cutTwice' = cutTwice
      /\ frags' = frags /\ copies' = copies /\ ipNet' = ipNet
  BY DEF IpTick
<1> QED
  BY <1>1, Zenon DEF FragInv

\* Some lists are gone.
LEMMA FewerLists ==
  ASSUME NEW fr, NEW S, NEW new, new = [k \in DOMAIN fr \ S |-> fr[k]]
  PROVE  HeldIn(new) \subseteq HeldIn(fr) /\ \A k \in DOMAIN new : k \in DOMAIN fr /\ new[k] = fr[k]
<1>1. \A k \in DOMAIN new : k \in DOMAIN fr /\ new[k] = fr[k]
  BY Zenon
<1>2. ASSUME NEW f, f \in HeldIn(new) PROVE f \in HeldIn(fr)
  <2>1. PICK k \in DOMAIN new : \E i \in 1 .. Len(new[k].list) : f = new[k].list[i]
    BY <1>2, HeldIs
  <2>2. \E i \in 1 .. Len(fr[k].list) : f = fr[k].list[i]
    BY <1>1, <2>1, Zenon
  <2> QED
    BY <1>1, <2>2, HeldIs, Zenon
<1> QED
  BY <1>1, <1>2, Zenon

LEMMA TimeoutKeepsFragments ==
  ASSUME FragInv, HandleTimeout
  PROVE  FragInv'
<1>1. /\ sentPackets' = sentPackets /\ idReused' = idReused /\ cutTwice' = cutTwice
      /\ copies' = copies /\ ipNet' = ipNet
  BY DEF HandleTimeout
<1>2. PICK S : frags' = [k \in DOMAIN frags \ S |-> frags[k]]
  BY Zenon DEF HandleTimeout
<1>3. HeldIn(frags') \subseteq HeldIn(frags) /\ \A k \in DOMAIN frags' : k \in DOMAIN frags /\ frags'[k] = frags[k]
  BY <1>2, FewerLists
<1>4. copies \in Nat
  BY DEF FragInv
<1>5. copies' \in Nat /\ copies' >= copies
  BY <1>1, <1>4
<1>6. Everywhere(ipNet', frags') \subseteq Everywhere(ipNet, frags)
  BY <1>1, <1>3, Zenon DEF Everywhere
<1>7. \A k \in DOMAIN frags' : ListKept(frags'[k], k)
  BY <1>3, Zenon DEF FragInv
<1>8. copies' = 0 => ipNet' \cap HeldIn(frags') = {}
  <2>1. copies = 0 => ipNet \cap HeldIn(frags) = {}
    BY Zenon DEF FragInv
  <2> QED
    BY <1>1, <1>3, <2>1, Zenon
<1> QED
  BY <1>1, <1>5, <1>6, <1>7, <1>8, FewerKept, Zenon

LEMMA EntireIs ==
  ASSUME NEW x, x.list \in Seq(Piece)
  PROVE  IsEntire(x) <=> ~x.more /\ NoGap(x.list, Len(x.list))
<1>1. DOMAIN x.list = 1 .. Len(x.list)
  OBVIOUS
<1> QED
  BY <1>1, Zenon DEF IsEntire, NoGap

\* The list the fragment goes to, and what is there with it in.
OldList(fr, k) == IF k \in DOMAIN fr THEN fr[k] ELSE [list |-> << >>, more |-> FALSE]
NewList(fr, f) == AddFragment(OldList(fr, IdOf(f.pkt)), f)

\* All that ListKept asks, but that it is not entire.
ListFor(x, k) ==
  /\ x.list \in Seq(Piece) /\ Len(x.list) > 0 /\ Sorted(x.list)
  /\ x = [list |-> x.list, more |-> x.list[Len(x.list)].more]
  /\ \A i \in 1 .. Len(x.list) : IdOf(x.list[i].pkt) = k

LEMMA NewListFor ==
  ASSUME FragInv, NEW f \in Piece, NEW x, x = NewList(frags, f)
  PROVE  /\ ListFor(x, IdOf(f.pkt))
         /\ \A i \in 1 .. Len(x.list) : x.list[i] = f \/ x.list[i] \in HeldIn(frags)
<1> PICK k : k = IdOf(f.pkt)
  OBVIOUS
<1> PICK o : o = OldList(frags, k)
  OBVIOUS
<1>1. \E l \in Seq(Piece) : \E b :
        /\ o = [list |-> l, more |-> b] /\ Sorted(l) /\ (Len(l) > 0 => b = l[Len(l)].more)
        /\ \A i \in 1 .. Len(l) : l[i] \in HeldIn(frags) /\ IdOf(l[i].pkt) = k
  <2>1. CASE k \in DOMAIN frags
    <3>1. o = frags[k] /\ ListKept(o, k)
      BY <2>1, Zenon DEF OldList, FragInv
    <3> PICK l : l = o.list
      OBVIOUS
    <3>2. /\ l \in Seq(Piece) /\ Sorted(l) /\ o = [list |-> l, more |-> l[Len(l)].more]
          /\ \A i \in 1 .. Len(l) : IdOf(l[i].pkt) = k
      BY <3>1, Zenon DEF ListKept
    <3>3. \A i \in 1 .. Len(l) : l[i] \in HeldIn(frags)
      BY <2>1, <3>1, HeldIs, Zenon
    <3> QED
      BY <3>2, <3>3, Zenon
  <2>2. CASE k \notin DOMAIN frags
    <3> PICK l : l = << >>
      OBVIOUS
    <3>1. l \in Seq(Piece) /\ Len(l) = 0
      OBVIOUS
    <3>2. 1 .. Len(l) = {} /\ ~ (Len(l) > 0)
      BY <3>1
    <3>3. o = [list |-> l, more |-> FALSE]
      BY <2>2, Zenon DEF OldList
    <3> QED
      BY <3>1, <3>2, <3>3, Zenon DEF Sorted
  <2> QED
    BY <2>1, <2>2
<1> PICK l \in Seq(Piece) : \E b :
        /\ o = [list |-> l, more |-> b] /\ Sorted(l) /\ (Len(l) > 0 => b = l[Len(l)].more)
        /\ \A i \in 1 .. Len(l) : l[i] \in HeldIn(frags) /\ IdOf(l[i].pkt) = k
  BY <1>1
<1>2. PICK b : /\ o = [list |-> l, more |-> b] /\ Sorted(l) /\ (Len(l) > 0 => b = l[Len(l)].more)
               /\ \A i \in 1 .. Len(l) : l[i] \in HeldIn(frags) /\ IdOf(l[i].pkt) = k
  BY Zenon
<1>3. x = AddFragment([list |-> l, more |-> b], f)
  BY <1>2, Zenon DEF NewList
<1>4. /\ x.list \in Seq(Piece) /\ Len(x.list) = Len(l) + 1 /\ Sorted(x.list)
      /\ x = [list |-> x.list, more |-> x.list[Len(l) + 1].more]
      /\ \A i \in 1 .. Len(l) + 1 : x.list[i] = f \/ \E j \in 1 .. Len(l) : x.list[i] = l[j]
  <2>1. Added(l, f, x)
    BY ONLY <1>2, <1>3, f \in Piece, l \in Seq(Piece), FragmentAdded, Zenon
  <2> QED
    BY <2>1, Zenon DEF Added
<1>5. Len(x.list) > 0
  BY <1>4
<1>6. \A i \in 1 .. Len(x.list) : IdOf(x.list[i].pkt) = k /\ (x.list[i] = f \/ x.list[i] \in HeldIn(frags))
  BY <1>2, <1>4, ZenonT(40)
<1> QED
  BY <1>4, <1>5, <1>6, Zenon DEF ListFor

\* A fragment handed to the receiver: alone, as the last of its packet, or put by.
LEMMA ProcessIs ==
  ASSUME NEW f, ProcessFragment(f), NEW k, k = IdOf(f.pkt), NEW x, x = NewList(frags, f)
  PROVE  \/ f.off = 0 /\ ~f.more /\ assembled' = assembled \cup {Units(f)}
            /\ frags' = frags /\ timeouts' = timeouts /\ fragEvents' = fragEvents
         \/ IsEntire(x) /\ assembled' = assembled \cup {GetPacket(x.list)} /\ frags' = Without(k)
            /\ (\E i \in DOMAIN timeouts : timeouts[i].key = k /\ timeouts' = RemoveAt(timeouts, i))
            /\ fragEvents' = fragEvents
         \/ ~IsEntire(x) /\ assembled' = assembled
            /\ frags' = [j \in DOMAIN frags \cup {k} |-> IF j = k THEN x ELSE frags[j]]
            /\ (k \notin DOMAIN frags => SetTimeout(k))
            /\ (k \in DOMAIN frags => timeouts' = timeouts /\ fragEvents' = fragEvents)
<1>1. x = AddFragment(IF k \in DOMAIN frags THEN frags[k] ELSE [list |-> << >>, more |-> FALSE], f)
  BY Zenon DEF NewList, OldList
<1>2. IF f.off = 0 /\ ~f.more
      THEN assembled' = assembled \cup {Units(f)} /\ UNCHANGED <<frags, timeouts, fragEvents>>
      ELSE IF IsEntire(x)
      THEN /\ assembled' = assembled \cup {GetPacket(x.list)} /\ frags' = Without(k)
           /\ \E i \in DOMAIN timeouts : timeouts[i].key = k /\ timeouts' = RemoveAt(timeouts, i)
           /\ UNCHANGED fragEvents
      ELSE /\ frags' = [j \in DOMAIN frags \cup {k} |-> IF j = k THEN x ELSE frags[j]]
           /\ IF k \notin DOMAIN frags THEN SetTimeout(k) ELSE UNCHANGED <<timeouts, fragEvents>>
           /\ UNCHANGED assembled
  BY <1>1, Zenon DEF ProcessFragment
<1>3. /\ UNCHANGED <<frags, timeouts, fragEvents>> <=> frags' = frags /\ timeouts' = timeouts /\ fragEvents' = fragEvents
      /\ UNCHANGED <<timeouts, fragEvents>> <=> timeouts' = timeouts /\ fragEvents' = fragEvents
  OBVIOUS
<1> QED
  BY <1>2, <1>3, Zenon

\* What is left of the lists, and what is handed up.
LEMMA ProcessKeepsLists ==
  ASSUME FragInv, NEW f \in ipNet, ProcessFragment(f)
  PROVE  /\ HeldIn(frags') \subseteq HeldIn(frags) \cup {f}
         /\ \A j \in DOMAIN frags' : ListKept(frags'[j], j)
         /\ ~idReused => \A q \in assembled' : q \in assembled \/ q = Whole(f.pkt)
<1>1. f \in Piece /\ f \in Everywhere(ipNet, frags)
  BY Zenon DEF Everywhere, FragInv
<1> PICK k : k = IdOf(f.pkt)
  OBVIOUS
<1> PICK x : x = NewList(frags, f)
  OBVIOUS
<1>2. ListFor(x, k) /\ \A i \in 1 .. Len(x.list) : x.list[i] = f \/ x.list[i] \in HeldIn(frags)
  BY <1>1, NewListFor, Zenon
<1>3. \A j \in DOMAIN frags : ListKept(frags[j], j)
  BY Zenon DEF FragInv
<1>4. CASE f.off = 0 /\ ~f.more /\ assembled' = assembled \cup {Units(f)} /\ frags' = frags
  <2>1. Units(f) = Whole(f.pkt)
    <3>1. f.len = IpLengths[f.pkt] /\ \A i \in 1 .. f.len : f.off + i = i
      BY <1>1, <1>4, PieceTyped
    <3>2. Units(f) = [i \in 1 .. f.len |-> <<f.pkt, f.off + i>>]
      BY Zenon DEF Units
    <3> QED
      BY <3>1, <3>2, Zenon DEF Whole
  <2> QED
    BY <1>3, <1>4, <2>1, Zenon
<1>5. CASE IsEntire(x) /\ assembled' = assembled \cup {GetPacket(x.list)} /\ frags' = Without(k)
  <2>1. HeldIn(frags') \subseteq HeldIn(frags) /\ \A j \in DOMAIN frags' : j \in DOMAIN frags /\ frags'[j] = frags[j]
    <3>1. frags' = [j \in DOMAIN frags \ {k} |-> frags[j]]
      BY <1>5, Zenon DEF Without
    <3> QED
      BY <3>1, FewerLists
  <2>2. ASSUME ~idReused PROVE GetPacket(x.list) = Whole(f.pkt)
    <3> PICK l : l = x.list
      OBVIOUS
    <3>1. /\ l \in Seq(Piece) /\ Len(l) > 0 /\ Sorted(l) /\ x = [list |-> l, more |-> l[Len(l)].more]
          /\ \A i \in 1 .. Len(l) : IdOf(l[i].pkt) = k
      BY <1>2, Zenon DEF ListFor
    <3>2. ~x.more /\ NoGap(l, Len(l))
      BY <1>5, <3>1, EntireIs, Zenon
    <3>3. x.more = l[Len(l)].more
      <4> PICK m : m = l[Len(l)].more
        OBVIOUS
      <4>1. x = [list |-> l, more |-> m]
        BY <3>1
      <4> QED
        BY <4>1
    <3>4. OnePacket(Everywhere(ipNet, frags))
      BY <2>2, Zenon DEF FragInv
    <3>5. \A i \in 1 .. Len(l) : l[i] \in Piece
      BY <3>1
    <3>6. \A i \in 1 .. Len(l) : l[i] \in PiecesOf(f.pkt)
      <4>1. ASSUME NEW i \in 1 .. Len(l) PROVE l[i].pkt = f.pkt
        <5>1. l[i] \in Everywhere(ipNet, frags)
          BY <1>1, <1>2, Zenon DEF Everywhere
        <5>2. IdOf(l[i].pkt) = IdOf(f.pkt)
          BY <3>1, Zenon
        <5> QED
          BY <1>1, <3>4, <5>1, <5>2, Zenon DEF OnePacket
      <4> QED
        BY <3>5, <4>1, Zenon DEF PiecesOf
    <3>7. l \in Seq(PiecesOf(f.pkt))
      <4> PICK S : S = PiecesOf(f.pkt)
        OBVIOUS
      <4>1. \A i \in 1 .. Len(l) : l[i] \in S
        BY <3>6
      <4> QED
        BY <3>1, <4>1
    <3>8. f.pkt \in DOMAIN IpLengths
      BY <1>1, PieceTyped, Zenon
    <3> QED
      BY <3>1, <3>2, <3>3, <3>7, <3>8, PacketWhole, Zenon
  <2> QED
    BY <1>3, <1>5, <2>1, <2>2, Zenon
<1>6. CASE /\ ~IsEntire(x) /\ assembled' = assembled
           /\ frags' = [j \in DOMAIN frags \cup {k} |-> IF j = k THEN x ELSE frags[j]]
  <2>1. /\ \A j \in DOMAIN frags' : j = k \/ j \in DOMAIN frags
        /\ \A j \in DOMAIN frags' : frags'[j] = IF j = k THEN x ELSE frags[j]
    BY <1>6, Zenon
  <2>2. ListKept(x, k)
    BY <1>2, <1>6, Zenon DEF ListFor, ListKept
  <2>3. \A j \in DOMAIN frags' : ListKept(frags'[j], j)
    BY <1>3, <2>1, <2>2, Zenon
  <2>4. ASSUME NEW h, h \in HeldIn(frags') PROVE h \in HeldIn(frags) \cup {f}
    <3>1. PICK j \in DOMAIN frags' : \E i \in 1 .. Len(frags'[j].list) : h = frags'[j].list[i]
      BY <2>4, HeldIs
    <3>2. CASE j = k
      <4>1. \E i \in 1 .. Len(x.list) : h = x.list[i]
        BY <2>1, <3>1, <3>2, Zenon
      <4> QED
        BY <1>2, <4>1, Zenon
    <3>3. CASE j # k
      <4>1. j \in DOMAIN frags /\ \E i \in 1 .. Len(frags[j].list) : h = frags[j].list[i]
        BY <2>1, <3>1, <3>3, Zenon
      <4> QED
        BY <4>1, HeldIs, Zenon
    <3> QED
      BY <3>2, <3>3
  <2> QED
    BY <1>6, <2>3, <2>4, Zenon
<1>7. \/ f.off = 0 /\ ~f.more /\ assembled' = assembled \cup {Units(f)} /\ frags' = frags
      \/ IsEntire(x) /\ assembled' = assembled \cup {GetPacket(x.list)} /\ frags' = Without(k)
      \/ /\ ~IsEntire(x) /\ assembled' = assembled
         /\ frags' = [j \in DOMAIN frags \cup {k} |-> IF j = k THEN x ELSE frags[j]]
  BY ONLY ProcessFragment(f), k = IdOf(f.pkt), x = NewList(frags, f), ProcessIs
<1> QED
  BY <1>4, <1>5, <1>6, <1>7, Zenon

LEMMA DeliverKeepsFragments ==
  ASSUME FragInv, LocalDeliver
  PROVE  FragInv'
<1>1. PICK f \in ipNet :
        /\ ProcessFragment(f)
        /\ \/ ipNet' = ipNet \ {f} /\ copies' = copies
           \/ copies' = copies + 1 /\ ipNet' = ipNet
  BY DEF LocalDeliver
<1>2. sentPackets' = sentPackets /\ idReused' = idReused /\ cutTwice' = cutTwice
  BY DEF LocalDeliver
<1>3. HeldIn(frags') \subseteq HeldIn(frags) \cup {f} /\ \A j \in DOMAIN frags' : ListKept(frags'[j], j)
  BY <1>1, ProcessKeepsLists, Zenon
<1>4. Everywhere(ipNet', frags') \subseteq Everywhere(ipNet, frags)
  BY <1>1, <1>3, Zenon DEF Everywhere
<1>5. copies \in Nat
  BY DEF FragInv
<1>6. copies' \in Nat /\ copies' >= copies /\ (copies' = 0 => copies = 0 /\ copies' # copies + 1)
  BY <1>1, <1>5
<1>7. copies' = 0 => ipNet' \cap HeldIn(frags') = {}
  <2>1. copies = 0 => ipNet \cap HeldIn(frags) = {}
    BY Zenon DEF FragInv
  <2>2. ASSUME copies' = 0 PROVE ipNet' \cap HeldIn(frags') = {}
    <3>1. ipNet' = ipNet \ {f} /\ ipNet \cap HeldIn(frags) = {}
      BY <1>1, <1>6, <2>1, <2>2, Zenon
    <3> QED
      BY <1>3, <3>1, Zenon
  <2> QED
    BY <2>2
<1> QED
  BY <1>2, <1>3, <1>4, <1>6, <1>7, FewerKept, Zenon

----------------------------------------------------------------------------
(* The list of timeouts.                                                   *)

Entries == [at : Nat, key : {IdOf(p) : p \in DOMAIN IpLengths}]
KeysOf(ts) == {ts[i].key : i \in 1 .. Len(ts)}

\* In the order of time, none overdue or too late, no key twice.
InOrder(ts, now) ==
  /\ ts \in Seq(Entries)
  /\ \A i \in 1 .. Len(ts) : now <= ts[i].at /\ ts[i].at <= now + m_fragmentExpirationTimeout
  /\ \A i, j \in 1 .. Len(ts) : i <= j => ts[i].at <= ts[j].at
  /\ \A i, j \in 1 .. Len(ts) : ts[i].key = ts[j].key => i = j

TimeInv ==
  /\ ipNow \in 0 .. MaxIpTime
  /\ fragEvents \in [0 .. MaxIpTime + m_fragmentExpirationTimeout -> Nat]
  /\ InOrder(timeouts, ipNow) /\ DOMAIN frags = KeysOf(timeouts)
  /\ Len(timeouts) > 0 => \E t \in ipNow .. timeouts[1].at : fragEvents[t] > 0

LEMMA TimeoutsTyped ==
  ASSUME NEW now, NEW ts, InOrder(ts, now)
  PROVE  ts \in Seq(Entries) /\ Len(ts) \in Nat /\ DOMAIN ts = 1 .. Len(ts) /\ \A i \in 1 .. Len(ts) : ts[i].at \in Nat
<1>1. ts \in Seq(Entries)
  BY Zenon DEF InOrder
<1>2. \A i \in 1 .. Len(ts) : ts[i] \in Entries
  BY <1>1
<1> QED
  BY <1>1, <1>2 DEF Entries

WithoutOne(ts, r, now, k) ==
  /\ InOrder(r, now) /\ KeysOf(r) = KeysOf(ts) \ {k}
  /\ Len(r) > 0 => Len(ts) > 0 /\ ts[1].at <= r[1].at

LEMMA OneGone ==
  ASSUME NEW now, NEW ts, InOrder(ts, now), NEW i \in 1 .. Len(ts), NEW r, r = RemoveAt(ts, i)
  PROVE  WithoutOne(ts, r, now, ts[i].key)
<1>1. ts \in Seq(Entries) /\ Len(ts) \in Nat
  BY TimeoutsTyped, Zenon
<1> PICK n \in Nat : n = Len(ts)
  BY <1>1
<1>2. /\ r \in Seq(Entries) /\ Len(r) = n - 1
      /\ \A j \in 1 .. n - 1 : r[j] = IF j < i THEN ts[j] ELSE ts[j + 1]
  BY <1>1, RemovedAt, ZenonT(40)
<1> DEFINE w(j) == IF j < i THEN j ELSE j + 1
<1>3. i \in 1 .. n /\ i \in Nat
  OBVIOUS
<1>4. \A j \in 1 .. n - 1 : w(j) \in 1 .. n /\ w(j) # i
  BY <1>3
<1>5. \A j, k \in 1 .. n - 1 : (j <= k => w(j) <= w(k)) /\ (w(j) = w(k) => j = k)
  BY <1>3
<1>6. \A j \in 1 .. n : j # i => \E k \in 1 .. n - 1 : w(k) = j
  <2>1. ASSUME NEW j \in 1 .. n, j # i PROVE \E k \in 1 .. n - 1 : w(k) = j
    <3>1. CASE j < i
      <4>1. j \in 1 .. n - 1 /\ w(j) = j
        BY <1>3, <3>1
      <4> QED
        BY <4>1, Zenon
    <3>2. CASE ~ (j < i)
      <4>1. j - 1 \in 1 .. n - 1 /\ w(j - 1) = j
        BY <1>3, <2>1, <3>2
      <4> QED
        BY <4>1, Zenon
    <3> QED
      BY <3>1, <3>2
  <2> QED
    BY <2>1
<1>7. \A j \in 1 .. n - 1 : r[j] = ts[w(j)]
  BY <1>2, Zenon
<1> HIDE DEF w
<1>8. \A j \in 1 .. n - 1 : now <= r[j].at /\ r[j].at <= now + m_fragmentExpirationTimeout
  BY <1>4, <1>7, Zenon DEF InOrder
<1>9. \A j, k \in 1 .. n - 1 : (j <= k => r[j].at <= r[k].at) /\ (r[j].key = r[k].key => j = k)
  <2>1. ASSUME NEW j \in 1 .. n - 1, NEW k \in 1 .. n - 1
        PROVE  (j <= k => r[j].at <= r[k].at) /\ (r[j].key = r[k].key => j = k)
    <3>1. w(j) \in 1 .. n /\ w(k) \in 1 .. n /\ r[j] = ts[w(j)] /\ r[k] = ts[w(k)]
      BY <1>4, <1>7, Zenon
    <3> QED
      BY <1>5, <3>1, Zenon DEF InOrder
  <2> QED
    BY <2>1, Zenon
<1>10. InOrder(r, now)
  BY <1>2, <1>8, <1>9, ZenonT(40) DEF InOrder
<1>11. ASSUME NEW a PROVE a \in KeysOf(r) <=> a \in KeysOf(ts) /\ a # ts[i].key
  <2>1. a \in KeysOf(r) <=> \E j \in 1 .. n - 1 : a = r[j].key
    BY <1>2, Zenon DEF KeysOf
  <2>2. a \in KeysOf(ts) <=> \E j \in 1 .. n : a = ts[j].key
    BY Zenon DEF KeysOf
  <2>3. ASSUME NEW j \in 1 .. n - 1, a = r[j].key PROVE a \in KeysOf(ts) /\ a # ts[i].key
    <3>1. a = ts[w(j)].key /\ w(j) \in 1 .. n /\ w(j) # i
      BY <1>4, <1>7, <2>3, Zenon
    <3> QED
      BY <1>3, <2>2, <3>1, Zenon DEF InOrder
  <2>4. ASSUME NEW j \in 1 .. n, a = ts[j].key, a # ts[i].key PROVE \E k \in 1 .. n - 1 : a = r[k].key
    <3>1. PICK k \in 1 .. n - 1 : w(k) = j
      BY <1>6, <2>4, Zenon
    <3> QED
      BY <1>7, <2>4, <3>1, Zenon
  <2> QED
    BY <2>1, <2>2, <2>3, <2>4, Zenon
<1>12. Len(r) > 0 => Len(ts) > 0 /\ ts[1].at <= r[1].at
  <2>1. ASSUME Len(r) > 0 PROVE Len(ts) > 0 /\ ts[1].at <= r[1].at
    <3>1. n > 0 /\ 1 \in 1 .. n - 1 /\ 1 \in 1 .. n
      BY <1>2, <2>1
    <3>2. w(1) \in 1 .. n /\ r[1] = ts[w(1)] /\ 1 <= w(1)
      BY <1>4, <1>7, <3>1
    <3> QED
      BY <3>1, <3>2, Zenon DEF InOrder
  <2> QED
    BY <2>1
<1> QED
  BY <1>10, <1>11, <1>12, Zenon DEF WithoutOne

WithOne(ts, r, now, k) ==
  /\ InOrder(r, now) /\ KeysOf(r) = KeysOf(ts) \cup {k} /\ Len(r) > 0
  /\ r[1].at = IF Len(ts) > 0 THEN ts[1].at ELSE now + m_fragmentExpirationTimeout

LEMMA OneMore ==
  ASSUME NEW now \in Nat, NEW ts, InOrder(ts, now), NEW p \in DOMAIN IpLengths, IdOf(p) \notin KeysOf(ts),
         NEW r, r = Append(ts, [at |-> now + m_fragmentExpirationTimeout, key |-> IdOf(p)])
  PROVE  WithOne(ts, r, now, IdOf(p))
<1>1. ts \in Seq(Entries) /\ Len(ts) \in Nat
  BY TimeoutsTyped, Zenon
<1> PICK n \in Nat : n = Len(ts)
  BY <1>1
<1> PICK T \in Nat : T = m_fragmentExpirationTimeout /\ now + T \in Nat
  BY IpConstants
<1> PICK k : k = IdOf(p)
  OBVIOUS
<1> PICK e : e = [at |-> now + T, key |-> k]
  OBVIOUS
<1>2. e \in Entries
  <2>1. now + T \in Nat /\ k \in {IdOf(q) : q \in DOMAIN IpLengths}
    BY Zenon
  <2> QED
    BY <2>1, Zenon DEF Entries
<1>3. e.at = now + T /\ e.key = k
  OBVIOUS
<1>4. r = Append(ts, e)
  BY Zenon
<1>5. r \in Seq(Entries) /\ Len(r) = n + 1 /\ r[n + 1] = e /\ \A i \in 1 .. n : r[i] = ts[i]
  BY <1>1, <1>2, <1>4
<1>6. \A i \in 1 .. n + 1 : i \in 1 .. n \/ i = n + 1
  OBVIOUS
<1>7. n + 1 \in 1 .. n + 1 /\ (\A i \in 1 .. n : i \in 1 .. n + 1 /\ ~ (n + 1 <= i)) /\ now <= now + T /\ now + T <= now + T
  OBVIOUS
<1>8. \A i \in 1 .. n : now <= ts[i].at /\ ts[i].at <= now + T
  BY Zenon DEF InOrder
<1>9. \A i \in 1 .. n + 1 : now <= r[i].at /\ r[i].at <= now + T
  BY <1>3, <1>5, <1>6, <1>7, <1>8, Zenon
<1>10. \A i, j \in 1 .. n + 1 : i <= j => r[i].at <= r[j].at
  <2>1. ASSUME NEW i \in 1 .. n + 1, NEW j \in 1 .. n + 1, i <= j PROVE r[i].at <= r[j].at
    <3>1. CASE j = n + 1
      BY <1>3, <1>5, <1>9, <3>1, Zenon
    <3>2. CASE j # n + 1
      <4>1. j \in 1 .. n /\ i \in 1 .. n
        BY <1>6, <1>7, <2>1, <3>2, Zenon
      <4> QED
        BY <1>5, <2>1, <4>1, Zenon DEF InOrder
    <3> QED
      BY <3>1, <3>2
  <2> QED
    BY <2>1
<1>11. \A i \in 1 .. n : ts[i].key # k
  BY Zenon DEF KeysOf
<1>12. \A i, j \in 1 .. n + 1 : r[i].key = r[j].key => i = j
  <2>1. ASSUME NEW i \in 1 .. n + 1, NEW j \in 1 .. n + 1, r[i].key = r[j].key PROVE i = j
    <3>1. CASE i \in 1 .. n /\ j \in 1 .. n
      BY <1>5, <2>1, <3>1, Zenon DEF InOrder
    <3>2. CASE ~ (i \in 1 .. n /\ j \in 1 .. n)
      BY <1>3, <1>5, <1>6, <1>11, <2>1, <3>2, ZenonT(40)
    <3> QED
      BY <3>1, <3>2
  <2> QED
    BY <2>1
<1>13. InOrder(r, now)
  BY <1>5, <1>9, <1>10, <1>12, Zenon DEF InOrder
<1>14. ASSUME NEW a PROVE a \in KeysOf(r) <=> a \in KeysOf(ts) \/ a = k
  <2>1. a \in KeysOf(r) <=> \E j \in 1 .. n + 1 : a = r[j].key
    BY <1>5, Zenon DEF KeysOf
  <2>2. a \in KeysOf(ts) <=> \E j \in 1 .. n : a = ts[j].key
    BY Zenon DEF KeysOf
  <2> QED
    BY <1>3, <1>5, <1>6, <1>7, <2>1, <2>2, ZenonT(40)
<1>15. Len(r) > 0 /\ r[1].at = IF n > 0 THEN ts[1].at ELSE now + T
  <2>1. CASE n > 0
    <3>1. 1 \in 1 .. n /\ n + 1 > 0
      BY <2>1
    <3> QED
      BY <1>5, <2>1, <3>1, Zenon
  <2>2. CASE ~ (n > 0)
    <3>1. n + 1 = 1 /\ n + 1 > 0
      BY <2>2
    <3> QED
      BY <1>3, <1>5, <2>2, <3>1, Zenon
  <2> QED
    BY <2>1, <2>2
<1> QED
  BY <1>13, <1>14, <1>15, Zenon DEF WithOne

WithoutFirst(ts, r, now, d) ==
  /\ InOrder(r, now) /\ KeysOf(r) = KeysOf(ts) \ {ts[i].key : i \in 1 .. d}
  /\ Len(r) = Len(ts) - d /\ (Len(r) > 0 => r[1] = ts[d + 1])

LEMMA FirstGone ==
  ASSUME NEW now, NEW ts, InOrder(ts, now), NEW d \in 0 .. Len(ts), NEW r, r = SubSeq(ts, d + 1, Len(ts))
  PROVE  WithoutFirst(ts, r, now, d)
<1>1. ts \in Seq(Entries) /\ Len(ts) \in Nat
  BY TimeoutsTyped, Zenon
<1> PICK n \in Nat : n = Len(ts)
  BY <1>1
<1>2. d \in Nat /\ d <= n
  OBVIOUS
<1>3. r \in Seq(Entries) /\ Len(r) = n - d /\ \A i \in 1 .. n - d : r[i] = ts[d + i]
  BY <1>1, <1>2, SubSeqProperties
<1>4. \A i \in 1 .. n - d : d + i \in 1 .. n
  BY <1>2
<1>5. \A i, j \in 1 .. n - d : (i <= j => d + i <= d + j) /\ (d + i = d + j => i = j)
  BY <1>2
<1>6. \A i \in 1 .. n - d : now <= r[i].at /\ r[i].at <= now + m_fragmentExpirationTimeout
  BY <1>3, <1>4, Zenon DEF InOrder
<1>7. \A i, j \in 1 .. n - d : (i <= j => r[i].at <= r[j].at) /\ (r[i].key = r[j].key => i = j)
  <2>1. ASSUME NEW i \in 1 .. n - d, NEW j \in 1 .. n - d
        PROVE  (i <= j => r[i].at <= r[j].at) /\ (r[i].key = r[j].key => i = j)
    <3>1. d + i \in 1 .. n /\ d + j \in 1 .. n /\ r[i] = ts[d + i] /\ r[j] = ts[d + j]
      BY <1>3, <1>4, Zenon
    <3> QED
      BY <1>5, <3>1, Zenon DEF InOrder
  <2> QED
    BY <2>1, Zenon
<1>8. InOrder(r, now)
  BY <1>3, <1>6, <1>7, ZenonT(40) DEF InOrder
<1>9. ASSUME NEW a PROVE a \in KeysOf(r) <=> a \in KeysOf(ts) /\ a \notin {ts[i].key : i \in 1 .. d}
  <2>1. a \in KeysOf(r) <=> \E j \in 1 .. n - d : a = r[j].key
    BY <1>3, Zenon DEF KeysOf
  <2>2. a \in KeysOf(ts) <=> \E j \in 1 .. n : a = ts[j].key
    BY Zenon DEF KeysOf
  <2>3. ASSUME NEW j \in 1 .. n - d, a = r[j].key PROVE a \in KeysOf(ts) /\ \A i \in 1 .. d : a # ts[i].key
    <3>1. a = ts[d + j].key /\ d + j \in 1 .. n
      BY <1>3, <1>4, <2>3, Zenon
    <3>2. \A i \in 1 .. d : i \in 1 .. n /\ i # d + j
      BY <1>2
    <3> QED
      BY <2>2, <3>1, <3>2, Zenon DEF InOrder
  <2>4. ASSUME NEW j \in 1 .. n, a = ts[j].key, \A i \in 1 .. d : a # ts[i].key
        PROVE  \E k \in 1 .. n - d : a = r[k].key
    <3>1. j \notin 1 .. d
      BY <2>4, Zenon
    <3>2. j - d \in 1 .. n - d /\ d + (j - d) = j
      BY <1>2, <3>1
    <3> QED
      BY <1>3, <2>4, <3>2, Zenon
  <2> QED
    BY <2>1, <2>2, <2>3, <2>4, Zenon
<1>10. Len(r) > 0 => r[1] = ts[d + 1]
  <2>1. ASSUME Len(r) > 0 PROVE r[1] = ts[d + 1]
    <3>1. 1 \in 1 .. n - d
      BY <1>2, <1>3, <2>1
    <3> QED
      BY <1>3, <3>1, Zenon
  <2> QED
    BY <2>1
<1> QED
  BY <1>3, <1>8, <1>9, <1>10, Zenon DEF WithoutFirst

LEMMA TimeInvInit == IpInit => TimeInv
<1> SUFFICES ASSUME IpInit PROVE TimeInv
  OBVIOUS
<1> PICK T \in Nat : T = m_fragmentExpirationTimeout
  BY IpConstants
<1> PICK M \in Nat : M = MaxIpTime
  BY IpConstants
<1>1. ipNow = 0 /\ frags = << >> /\ timeouts = << >> /\ fragEvents = [t \in 0 .. M + T |-> 0]
  BY Zenon DEF IpInit
<1>2. fragEvents \in [0 .. M + T -> Nat] /\ ipNow \in 0 .. M
  BY <1>1
<1>3. timeouts \in Seq(Entries) /\ Len(timeouts) = 0
  BY <1>1
<1>4. 1 .. Len(timeouts) = {} /\ ~ (Len(timeouts) > 0)
  BY <1>3
<1>5. DOMAIN frags = {}
  BY <1>1
<1>6. InOrder(timeouts, ipNow)
  BY <1>3, <1>4, Zenon DEF InOrder
<1>7. KeysOf(timeouts) = {}
  BY <1>4, Zenon DEF KeysOf
<1> QED
  BY <1>2, <1>4, <1>5, <1>6, <1>7, Zenon DEF TimeInv

\* An event is added where there may be one already, or one of them is gone.
LEMMA EventCounts ==
  ASSUME NEW S, NEW e \in [S -> Nat], NEW t \in S
  PROVE  /\ [e EXCEPT ![t] = @ + 1] \in [S -> Nat] /\ [e EXCEPT ![t] = @ + 1][t] > 0
         /\ e[t] > 0 => [e EXCEPT ![t] = @ - 1] \in [S -> Nat]
<1>1. e[t] \in Nat
  OBVIOUS
<1>2. e[t] + 1 \in Nat /\ e[t] + 1 > 0 /\ (e[t] > 0 => e[t] - 1 \in Nat)
  BY <1>1
<1>3. [e EXCEPT ![t] = @ + 1] \in [S -> Nat] /\ [e EXCEPT ![t] = @ + 1][t] = e[t] + 1
  BY <1>2, Zenon
<1>4. e[t] > 0 => [e EXCEPT ![t] = @ - 1] \in [S -> Nat]
  BY <1>2, Zenon
<1> QED
  BY <1>2, <1>3, <1>4, Zenon

LEMMA DeliverKeepsTimeouts ==
  ASSUME FragInv, TimeInv, LocalDeliver
  PROVE  TimeInv'
<1>1. PICK f \in ipNet : ProcessFragment(f)
  BY DEF LocalDeliver
<1>2. ipNow' = ipNow
  BY DEF LocalDeliver
<1>3. f.pkt \in DOMAIN IpLengths
  <2>1. f \in Piece
    BY Zenon DEF Everywhere, FragInv
  <2> QED
    BY <2>1, PieceTyped, Zenon
<1> PICK k : k = IdOf(f.pkt)
  OBVIOUS
<1> PICK x : x = NewList(frags, f)
  OBVIOUS
<1> PICK ts : ts = timeouts
  OBVIOUS
<1> PICK rs : rs = timeouts'
  OBVIOUS
<1> PICK fr : fr = frags
  OBVIOUS
<1> PICK now : now = ipNow
  OBVIOUS
<1> PICK S : S = 0 .. MaxIpTime + m_fragmentExpirationTimeout
  OBVIOUS
<1>4. /\ now \in 0 .. MaxIpTime /\ fragEvents \in [S -> Nat]
      /\ InOrder(ts, now) /\ DOMAIN fr = KeysOf(ts)
      /\ Len(ts) > 0 => \E t \in now .. ts[1].at : fragEvents[t] > 0
  BY Zenon DEF TimeInv
<1>5. now \in Nat /\ now <= MaxIpTime
  BY <1>4, IpConstants
<1> SUFFICES /\ fragEvents' \in [S -> Nat] /\ InOrder(rs, now) /\ DOMAIN frags' = KeysOf(rs)
             /\ Len(rs) > 0 => \E t \in now .. rs[1].at : fragEvents'[t] > 0
  BY <1>2, <1>4, Zenon DEF TimeInv
<1>6. CASE frags' = frags /\ timeouts' = timeouts /\ fragEvents' = fragEvents
  BY <1>4, <1>6, Zenon
<1>7. CASE /\ frags' = Without(k) /\ fragEvents' = fragEvents
           /\ \E i \in DOMAIN timeouts : timeouts[i].key = k /\ timeouts' = RemoveAt(timeouts, i)
  <2>1. PICK i \in 1 .. Len(ts) : ts[i].key = k /\ rs = RemoveAt(ts, i)
    BY <1>4, <1>7, TimeoutsTyped, Zenon
  <2>2. /\ InOrder(rs, now) /\ KeysOf(rs) = KeysOf(ts) \ {ts[i].key}
        /\ Len(rs) > 0 => Len(ts) > 0 /\ ts[1].at <= rs[1].at
    <3>1. InOrder(ts, now)
      BY <1>4
    <3>2. WithoutOne(ts, rs, now, ts[i].key)
      BY <2>1, <3>1, OneGone, Zenon
    <3> QED
      BY <3>2, Zenon DEF WithoutOne
  <2>3. DOMAIN frags' = KeysOf(rs)
    <3>1. DOMAIN frags' = DOMAIN fr \ {k}
      BY <1>7, Zenon DEF Without
    <3> QED
      BY <1>4, <2>1, <2>2, <3>1, Zenon
  <2>4. ASSUME Len(rs) > 0 PROVE \E t \in now .. rs[1].at : fragEvents'[t] > 0
    <3>1. PICK t \in now .. ts[1].at : fragEvents[t] > 0
      BY <1>4, <2>2, <2>4
    <3>2. ts[1].at <= rs[1].at /\ 1 \in 1 .. Len(ts) /\ 1 \in 1 .. Len(rs)
      <4>1. Len(ts) \in Nat /\ Len(rs) \in Nat /\ Len(ts) > 0
        BY <1>4, <2>2, <2>4, TimeoutsTyped, Zenon
      <4> QED
        BY <2>2, <2>4, <4>1
    <3>3. ts[1].at \in Nat /\ rs[1].at \in Nat
      BY <1>4, <2>2, <3>2, TimeoutsTyped, Zenon
    <3>4. t \in now .. rs[1].at
      BY ONLY <1>5, <3>2, <3>3, t \in now .. ts[1].at
    <3> QED
      BY <1>7, <3>1, <3>4, Zenon
  <2> QED
    BY <1>4, <1>7, <2>2, <2>3, <2>4, Zenon
<1>8. CASE /\ k \notin DOMAIN frags /\ SetTimeout(k)
           /\ frags' = [j \in DOMAIN frags \cup {k} |-> IF j = k THEN x ELSE frags[j]]
  <2> PICK T \in Nat : T = m_fragmentExpirationTimeout
    BY IpConstants
  <2>1. /\ rs = Append(ts, [at |-> now + T, key |-> k])
        /\ fragEvents' = IF ts # << >> THEN fragEvents ELSE [fragEvents EXCEPT ![now + T] = @ + 1]
    BY <1>8, Zenon DEF SetTimeout
  <2>2. /\ InOrder(rs, now) /\ KeysOf(rs) = KeysOf(ts) \cup {k} /\ Len(rs) > 0
        /\ rs[1].at = IF Len(ts) > 0 THEN ts[1].at ELSE now + T
    <3> PICK p \in DOMAIN IpLengths : p = f.pkt
      BY <1>3
    <3>1. InOrder(ts, now) /\ now \in Nat /\ k = IdOf(p) /\ k \notin KeysOf(ts)
      BY <1>4, <1>5, <1>8, Zenon
    <3>2. rs = Append(ts, [at |-> now + m_fragmentExpirationTimeout, key |-> IdOf(p)])
      BY <2>1, <3>1, Zenon
    <3>3. WithOne(ts, rs, now, IdOf(p))
      BY <3>1, <3>2, OneMore, Zenon
    <3> QED
      BY <3>1, <3>3, Zenon DEF WithOne
  <2>3. DOMAIN frags' = KeysOf(rs)
    <3>1. DOMAIN frags' = DOMAIN fr \cup {k}
      BY <1>8, Zenon
    <3> QED
      BY <1>4, <2>2, <3>1, Zenon
  <2>4. CASE ts # << >>
    <3>1. Len(ts) > 0
      <4>1. ts \in Seq(Entries)
        BY <1>4, TimeoutsTyped, Zenon
      <4> QED
        BY <2>4, <4>1
    <3> QED
      BY <1>4, <2>1, <2>2, <2>3, <2>4, <3>1, Zenon
  <2>5. CASE ts = << >>
    <3>1. ~ (Len(ts) > 0)
      BY <2>5
    <3>2. now + T \in S /\ now + T \in now .. now + T
      <4>1. MaxIpTime \in Nat
        BY IpConstants
      <4> QED
        BY ONLY <1>5, <4>1, T \in Nat, T = m_fragmentExpirationTimeout,
           S = 0 .. MaxIpTime + m_fragmentExpirationTimeout
    <3>3. fragEvents' \in [S -> Nat] /\ fragEvents'[now + T] > 0
      BY <1>4, <2>1, <2>5, <3>2, EventCounts, ZenonT(40)
    <3> QED
      BY <2>2, <2>3, <3>1, <3>2, <3>3, Zenon
  <2> QED
    BY <2>4, <2>5
<1>9. CASE /\ k \in DOMAIN frags /\ timeouts' = timeouts /\ fragEvents' = fragEvents
           /\ frags' = [j \in DOMAIN frags \cup {k} |-> IF j = k THEN x ELSE frags[j]]
  <2>1. DOMAIN frags' = DOMAIN fr
    BY <1>9, Zenon
  <2> QED
    BY <1>4, <1>9, <2>1, Zenon
<1>10. \/ frags' = frags /\ timeouts' = timeouts /\ fragEvents' = fragEvents
       \/ /\ frags' = Without(k) /\ fragEvents' = fragEvents
          /\ \E i \in DOMAIN timeouts : timeouts[i].key = k /\ timeouts' = RemoveAt(timeouts, i)
       \/ /\ frags' = [j \in DOMAIN frags \cup {k} |-> IF j = k THEN x ELSE frags[j]]
          /\ (k \notin DOMAIN frags => SetTimeout(k))
          /\ (k \in DOMAIN frags => timeouts' = timeouts /\ fragEvents' = fragEvents)
  BY ONLY <1>1, k = IdOf(f.pkt), x = NewList(frags, f), ProcessIs
<1> QED
  BY <1>6, <1>7, <1>8, <1>9, <1>10, Zenon

LEMMA DueIs ==
  ASSUME TimeInv
  PROVE  Cardinality(Due) \in 0 .. Len(timeouts) /\ Due = 1 .. Cardinality(Due)
<1>1. DOMAIN timeouts = 1 .. Len(timeouts) /\ Len(timeouts) \in Nat
  BY TimeoutsTyped, Zenon DEF TimeInv
<1>2. Due = {i \in 1 .. Len(timeouts) : \A j \in 1 .. i : timeouts[j].at = ipNow}
  BY <1>1, Zenon DEF Due
<1>3. Due \in SUBSET (1 .. Len(timeouts))
  BY <1>2
<1>4. ASSUME NEW i \in Due, NEW j \in 1 .. i PROVE j \in Due
  <2>1. i \in 1 .. Len(timeouts) /\ \A m \in 1 .. i : timeouts[m].at = ipNow
    BY <1>2
  <2>2. j \in 1 .. Len(timeouts) /\ \A m \in 1 .. j : m \in 1 .. i
    BY <1>1, <2>1
  <2> QED
    BY <1>2, <2>1, <2>2, Zenon
<1>5. DownClosed(Due)
  BY <1>4, Zenon DEF DownClosed
<1> QED
  BY <1>1, <1>3, <1>5, DownClosedPlaces, Zenon

LEMMA TimeoutKeepsTimeouts ==
  ASSUME TimeInv, HandleTimeout
  PROVE  TimeInv'
<1> PICK d : d = Cardinality(Due)
  OBVIOUS
<1> PICK ts : ts = timeouts
  OBVIOUS
<1> PICK rs : rs = timeouts'
  OBVIOUS
<1> PICK S : S = 0 .. MaxIpTime + m_fragmentExpirationTimeout
  OBVIOUS
<1> PICK e : e = fragEvents
  OBVIOUS
<1> PICK now : now = ipNow
  OBVIOUS
<1>1. /\ now \in 0 .. MaxIpTime /\ e \in [S -> Nat] /\ InOrder(ts, now) /\ DOMAIN frags = KeysOf(ts)
  BY Zenon DEF TimeInv
<1>2. d \in 0 .. Len(ts) /\ Due = 1 .. d
  BY DueIs, Zenon
<1>3. /\ e[now] > 0 /\ rs = SubSeq(ts, d + 1, Len(ts)) /\ ipNow' = now
      /\ frags' = [k \in DOMAIN frags \ {ts[i].key : i \in 1 .. d} |-> frags[k]]
      /\ fragEvents' = IF rs = << >> THEN [e EXCEPT ![now] = @ - 1]
                       ELSE [[e EXCEPT ![now] = @ - 1] EXCEPT ![Head(rs).at] = @ + 1]
  BY <1>2, Zenon DEF HandleTimeout
<1>4. /\ InOrder(rs, now) /\ KeysOf(rs) = KeysOf(ts) \ {ts[i].key : i \in 1 .. d}
  <2>1. InOrder(ts, now) /\ rs = SubSeq(ts, d + 1, Len(ts))
    BY <1>1, <1>3
  <2>2. WithoutFirst(ts, rs, now, d)
    BY <1>2, <2>1, FirstGone, Zenon
  <2> QED
    BY <2>2, Zenon DEF WithoutFirst
<1>5. DOMAIN frags' = KeysOf(rs)
  BY <1>1, <1>3, <1>4, Zenon
<1>6. now \in S /\ now \in Nat
  <2>1. MaxIpTime \in Nat /\ m_fragmentExpirationTimeout \in Nat
    BY IpConstants
  <2> QED
    BY <1>1, <2>1
<1> PICK g : g = [e EXCEPT ![now] = @ - 1]
  OBVIOUS
<1>7. g \in [S -> Nat]
  BY <1>1, <1>3, <1>6, EventCounts, ZenonT(40)
<1>8. fragEvents' \in [S -> Nat] /\ (Len(rs) > 0 => \E t \in now .. rs[1].at : fragEvents'[t] > 0)
  <2>1. CASE rs = << >>
    <3>1. ~ (Len(rs) > 0)
      BY <2>1
    <3> QED
      BY <1>3, <1>7, <2>1, <3>1, Zenon
  <2>2. CASE rs # << >>
    <3>1. rs \in Seq(Entries) /\ Len(rs) \in Nat /\ \A i \in 1 .. Len(rs) : rs[i].at \in Nat
      BY <1>4, TimeoutsTyped, Zenon
    <3>2. Head(rs) = rs[1] /\ 1 \in 1 .. Len(rs)
      BY <2>2, <3>1
    <3> PICK t : t = rs[1].at
      OBVIOUS
    <3>3. t \in Nat /\ now <= t /\ t <= now + m_fragmentExpirationTimeout
      BY <1>4, <3>1, <3>2, Zenon DEF InOrder
    <3>4. t \in S /\ t \in now .. t
      <4>1. MaxIpTime \in Nat /\ m_fragmentExpirationTimeout \in Nat /\ now <= MaxIpTime
        BY <1>1, IpConstants
      <4> QED
        BY ONLY <1>6, <3>3, <4>1, S = 0 .. MaxIpTime + m_fragmentExpirationTimeout
    <3>5. fragEvents' = [g EXCEPT ![t] = @ + 1]
      BY <1>3, <2>2, <3>2, Zenon
    <3>6. fragEvents' \in [S -> Nat] /\ fragEvents'[t] > 0
      <4> PICK h : h = [g EXCEPT ![t] = @ + 1]
        OBVIOUS
      <4>1. h \in [S -> Nat] /\ h[t] > 0
        <5>1. [g EXCEPT ![t] = @ + 1] \in [S -> Nat] /\ [g EXCEPT ![t] = @ + 1][t] > 0
          BY SMTT(40), <1>7, <3>4, EventCounts
        <5> QED
          BY <5>1
      <4>2. fragEvents' = h
        BY <3>5
      <4> QED
        BY <4>1, <4>2, Zenon
    <3> QED
      BY <3>4, <3>6, Zenon
  <2> QED
    BY <2>1, <2>2
<1> QED
  BY <1>1, <1>3, <1>4, <1>5, <1>8, Zenon DEF TimeInv

LEMMA TickKeepsTimeouts ==
  ASSUME TimeInv, IpTick
  PROVE  TimeInv'
<1> PICK ts : ts = timeouts
  OBVIOUS
<1> PICK e : e = fragEvents
  OBVIOUS
<1> PICK now : now = ipNow
  OBVIOUS
<1> PICK T \in Nat, M \in Nat : T = m_fragmentExpirationTimeout /\ M = MaxIpTime
  BY IpConstants
<1>1. /\ now < M /\ e[now] = 0 /\ ipNow' = now + 1 /\ frags' = frags /\ timeouts' = ts /\ fragEvents' = e
  BY DEF IpTick
<1>2. /\ now \in 0 .. M /\ e \in [0 .. M + T -> Nat] /\ InOrder(ts, now) /\ DOMAIN frags = KeysOf(ts)
      /\ Len(ts) > 0 => \E t \in now .. ts[1].at : e[t] > 0
  BY Zenon DEF TimeInv
<1>3. now \in Nat /\ now + 1 \in 0 .. M
  BY <1>1, <1>2
<1>4. ts \in Seq(Entries) /\ Len(ts) \in Nat /\ \A i \in 1 .. Len(ts) : ts[i].at \in Nat
  BY <1>2, TimeoutsTyped, Zenon
<1>5. ASSUME Len(ts) > 0 PROVE now + 1 <= ts[1].at /\ \E t \in now + 1 .. ts[1].at : e[t] > 0
  <2>1. PICK t \in now .. ts[1].at : e[t] > 0
    BY <1>2, <1>5
  <2>2. t # now
    <3> SUFFICES ASSUME t = now PROVE FALSE
      BY Zenon
    <3>1. e[now] > 0 /\ e[now] = 0
      BY <1>1, <2>1, Zenon
    <3> QED
      BY ONLY <3>1
  <2>3. 1 \in 1 .. Len(ts)
    BY <1>4, <1>5
  <2>4. ts[1].at \in Nat
    BY <1>4, <2>3, Zenon
  <2>5. t \in now + 1 .. ts[1].at /\ now + 1 <= ts[1].at
    BY ONLY <1>3, <2>2, <2>4, t \in now .. ts[1].at
  <2> QED
    BY <2>1, <2>5, Zenon
<1>6. ASSUME NEW i \in 1 .. Len(ts) PROVE now + 1 <= ts[i].at /\ ts[i].at <= (now + 1) + T
  <2>1. Len(ts) > 0 /\ 1 \in 1 .. Len(ts) /\ 1 <= i
    BY <1>4
  <2>2. now + 1 <= ts[1].at /\ ts[1].at <= ts[i].at /\ ts[i].at <= now + T /\ ts[1].at \in Nat /\ ts[i].at \in Nat
    BY <1>2, <1>4, <1>5, <2>1, Zenon DEF InOrder
  <2> QED
    BY ONLY <1>3, <2>2, T \in Nat
<1>7. InOrder(ts, now + 1)
  BY <1>2, <1>6, Zenon DEF InOrder
<1> QED
  BY <1>1, <1>2, <1>3, <1>5, <1>7, Zenon DEF TimeInv

LEMMA TimeInvKept ==
  ASSUME FragInv, TimeInv, [IpNext]_ipVars
  PROVE  TimeInv'
<1>1. CASE SendRealOut
  BY <1>1, Zenon DEF TimeInv, SendRealOut
<1>2. CASE Refragment
  BY <1>2, Zenon DEF TimeInv, Refragment
<1>3. CASE LoseFragment
  BY <1>3, ZenonT(40) DEF TimeInv, LoseFragment
<1>4. CASE LocalDeliver
  BY <1>4, DeliverKeepsTimeouts
<1>5. CASE HandleTimeout
  BY <1>5, TimeoutKeepsTimeouts
<1>6. CASE IpTick
  BY <1>6, TickKeepsTimeouts
<1>7. CASE UNCHANGED ipVars
  BY <1>7, Zenon DEF TimeInv, ipVars
<1> QED
  BY <1>1, <1>2, <1>3, <1>4, <1>5, <1>6, <1>7 DEF IpNext

LEMMA FragInvKept ==
  ASSUME FragInv, [IpNext]_ipVars
  PROVE  FragInv'
<1>1. CASE UNCHANGED ipVars
  <2>1. /\ sentPackets' = sentPackets /\ ipNet' = ipNet /\ copies' = copies /\ frags' = frags
        /\ idReused' = idReused /\ cutTwice' = cutTwice
    BY <1>1 DEF ipVars
  <2> QED
    BY <2>1, Zenon DEF FragInv
<1> QED
  BY <1>1, SendKeepsFragments, RefragmentKeepsFragments, LoseKeepsFragments, DeliverKeepsFragments,
     TimeoutKeepsFragments, TickKeepsFragments DEF IpNext

\* The list has an entry for every partial packet, and no other.
LEMMA KeysCounted ==
  ASSUME NEW now, NEW ts, InOrder(ts, now)
  PROVE  Cardinality(KeysOf(ts)) = Len(ts)
<1> PICK n \in Nat : n = Len(ts)
  BY TimeoutsTyped, Zenon
<1> PICK K : K = KeysOf(ts)
  OBVIOUS
<1> PICK f : f = [i \in 1 .. n |-> ts[i].key]
  OBVIOUS
<1>1. K = {ts[i].key : i \in 1 .. n}
  BY Zenon DEF KeysOf
<1>2. \A i \in 1 .. n : f[i] = ts[i].key
  BY Zenon
<1>3. f \in [1 .. n -> K]
  BY <1>1, Zenon
<1>4. \A i, j \in 1 .. n : f[i] = f[j] => i = j
  BY <1>2, Zenon DEF InOrder
<1>5. \A k \in K : \E i \in 1 .. n : f[i] = k
  BY <1>1, <1>2, Zenon
<1>6. f \in Bijection(1 .. n, K)
  BY <1>3, <1>4, <1>5, ZenonT(40) DEF Bijection, Injection, Surjection, IsInjective
<1>7. IsFiniteSet(1 .. n) /\ Cardinality(1 .. n) = n
  <2>1. 1 \in Int /\ n \in Int
    OBVIOUS
  <2>2. IsFiniteSet(1 .. n) /\ Cardinality(1 .. n) = IF 1 > n THEN 0 ELSE n - 1 + 1
    BY <2>1, FS_Interval
  <2> QED
    BY <2>2
<1>8. ExistsBijection(1 .. n, K)
  BY <1>6, Zenon DEF ExistsBijection
<1>9. Cardinality(1 .. n) = Cardinality(K)
  BY <1>7, <1>8, FS_Bijection
<1> QED
  BY <1>7, <1>9, Zenon

LEMMA TimeInvMeans == TimeInv => TimeoutsKept
<1> SUFFICES ASSUME TimeInv PROVE TimeoutsKept
  OBVIOUS
<1> PICK ts : ts = timeouts
  OBVIOUS
<1>1. /\ InOrder(ts, ipNow) /\ DOMAIN frags = KeysOf(ts)
      /\ Len(ts) > 0 => \E t \in ipNow .. ts[1].at : fragEvents[t] > 0
  BY Zenon DEF TimeInv
<1>2. ts \in Seq(Entries) /\ Len(ts) \in Nat /\ DOMAIN ts = 1 .. Len(ts)
  BY <1>1, TimeoutsTyped, Zenon
<1>3. DOMAIN frags = {ts[i].key : i \in DOMAIN ts}
  BY <1>1, <1>2, Zenon DEF KeysOf
<1>4. Len(ts) = Cardinality(DOMAIN frags)
  BY <1>1, KeysCounted, Zenon
<1>5. \A i \in 1 .. Len(ts) - 1 : ts[i].at <= ts[i + 1].at
  <2>1. \A i \in 1 .. Len(ts) - 1 : i \in 1 .. Len(ts) /\ i + 1 \in 1 .. Len(ts) /\ i <= i + 1
    BY <1>2
  <2> QED
    BY <1>1, <2>1, Zenon DEF InOrder
<1>6. ts # << >> => Len(ts) > 0 /\ Head(ts) = ts[1]
  BY <1>2
<1> QED
  BY <1>1, <1>3, <1>4, <1>5, <1>6, Zenon DEF TimeoutsKept

----------------------------------------------------------------------------
(* What was handed up and what was given up.                               *)

History(q, sent, twice) ==
  q # << >> => \E p \in 1 .. sent : IsPrefix(q, Whole(p)) /\ (q = Whole(p) => twice)

LEMMA HistoryIs ==
  /\ AssembledWhole <=> (~idReused => \A q \in assembled : \E p \in 1 .. sentPackets : q = Whole(p))
  /\ PartialIsPrefix <=> (~idReused => \A q \in partials : History(q, sentPackets, cutTwice))
<1>1. AssembledWhole <=> (~idReused => \A q \in assembled : \E p \in 1 .. sentPackets : q = Whole(p))
  BY Zenon DEF AssembledWhole
<1>2. PartialIsPrefix <=> (~idReused => \A q \in partials : History(q, sentPackets, cutTwice))
  BY Zenon DEF PartialIsPrefix, History
<1> QED
  BY <1>1, <1>2

LEMMA PartialGivenUp ==
  ASSUME FragInv, NEW k \in DOMAIN frags, ~idReused
  PROVE  History(GetPartialPacket(frags[k].list), sentPackets, cutTwice)
<1> PICK x : x = frags[k]
  OBVIOUS
<1> PICK l : l = x.list
  OBVIOUS
<1>1. ListKept(x, k)
  BY Zenon DEF FragInv
<1>2. /\ l \in Seq(Piece) /\ Len(l) > 0 /\ Sorted(l)
      /\ x = [list |-> l, more |-> l[Len(l)].more]
      /\ ~IsEntire(x) /\ \A i \in 1 .. Len(l) : IdOf(l[i].pkt) = k
  BY <1>1, Zenon DEF ListKept
<1> PICK n \in Nat : n = Len(l)
  BY <1>2
<1>3. 1 \in 1 .. n /\ n \in 1 .. n /\ \A i \in 1 .. n : i <= n
  BY <1>2
<1>4. \A i \in 1 .. n : l[i] \in Everywhere(ipNet, frags)
  BY HeldIs, Zenon DEF Everywhere
<1>5. \A i \in 1 .. n : l[i] \in Piece /\ l[i].pkt \in 1 .. sentPackets
  BY <1>4, Zenon DEF FragInv
<1> PICK p : p = l[1].pkt
  OBVIOUS
<1>6. p \in 1 .. sentPackets /\ p \in DOMAIN IpLengths
  BY <1>3, <1>5, PieceTyped, Zenon
<1>7. \A i \in 1 .. n : l[i].pkt = p
  <2>1. OnePacket(Everywhere(ipNet, frags))
    BY Zenon DEF FragInv
  <2>2. ASSUME NEW i \in 1 .. n PROVE l[i].pkt = p
    <3>1. IdOf(l[i].pkt) = IdOf(l[1].pkt) /\ l[i] \in Everywhere(ipNet, frags) /\ l[1] \in Everywhere(ipNet, frags)
      BY <1>2, <1>3, <1>4, Zenon
    <3> QED
      BY <2>1, <3>1, Zenon DEF OnePacket
  <2> QED
    BY <2>2
<1>8. l \in Seq(PiecesOf(p))
  <2> PICK S : S = PiecesOf(p)
    OBVIOUS
  <2>1. \A i \in 1 .. n : l[i] \in S
    BY <1>5, <1>7, Zenon DEF PiecesOf
  <2> QED
    BY <1>2, <2>1
<1>9. PICK m \in 0 .. IpLengths[p] :
        /\ GetPartialPacket(l) = Start(p, m)
        /\ m = IpLengths[p] => NoGap(l, n) /\ \E j \in 1 .. n : l[j].off + l[j].len = IpLengths[p]
  BY <1>2, <1>6, <1>8, PartialStarts
<1>10. IsPrefix(Start(p, m), Whole(p)) /\ (Start(p, m) = Whole(p) => m = IpLengths[p])
  BY <1>6, StartPrefix, Zenon
<1>11. ASSUME m = IpLengths[p], ~cutTwice PROVE FALSE
  <2>1. NoGap(l, n)
    BY <1>9, <1>11, Zenon
  <2>2. PICK j \in 1 .. n : l[j].off + l[j].len = IpLengths[p]
    BY <1>9, <1>11
  <2>3. l[n].more
    <3>1. x.more = l[n].more
      <4> PICK b : b = l[n].more
        OBVIOUS
      <4>1. x = [list |-> l, more |-> b]
        BY <1>2
      <4> QED
        BY <4>1
    <3>2. x.more
      BY <1>2, <2>1, EntireIs, Zenon
    <3> QED
      BY <3>1, <3>2, Zenon
  <2>4. AllApart(Everywhere(ipNet, frags))
    BY <1>11, Zenon DEF FragInv
  <2>5. AreApart(l[j], l[n])
    BY <1>3, <1>4, <2>4, Zenon DEF AllApart
  <2> PICK a, b : a = l[j] /\ b = l[n]
    OBVIOUS
  <2>6. a \in Piece /\ b \in Piece /\ a.pkt = p /\ b.pkt = p /\ b.more
    BY <1>3, <1>5, <1>7, <2>3, Zenon
  <2> PICK L \in Nat : L = IpLengths[p]
    BY <1>6, WholeIsStart, Zenon
  <2>7. /\ a.off \in Nat /\ a.len \in Nat /\ a.len > 0
        /\ b.off \in Nat /\ b.len \in Nat /\ b.len > 0 /\ b.off + b.len < L
    BY <2>6, PieceTyped, Zenon
  <2>8. a.off + a.len = L /\ a.off <= b.off
    BY <1>2, <1>3, <2>2, Zenon DEF Sorted
  <2>9. a = b \/ a.off + a.len <= b.off \/ b.off + b.len <= a.off
    BY <2>5, <2>6, Zenon DEF AreApart
  <2>10. a # b
    <3> SUFFICES ASSUME a = b PROVE FALSE
      BY Zenon
    <3>1. b.off + b.len = L
      BY <2>8, Zenon
    <3> QED
      BY ONLY <2>7, <3>1, L \in Nat
  <2> QED
    BY ONLY <2>7, <2>8, <2>9, <2>10, L \in Nat
<1> QED
  BY <1>6, <1>9, <1>10, <1>11, Zenon DEF History

LEMMA HistoryKept ==
  ASSUME FragInv, TimeInv, AssembledWhole, PartialIsPrefix, [IpNext]_ipVars, FragInv'
  PROVE  AssembledWhole' /\ PartialIsPrefix'
<1>1. sentPackets \in Nat /\ sentPackets' \in Nat /\ copies \in Nat
  BY Zenon DEF FragInv
<1>2. /\ ~idReused => \A q \in assembled : \E p \in 1 .. sentPackets : q = Whole(p)
      /\ ~idReused => \A q \in partials : History(q, sentPackets, cutTwice)
  BY HistoryIs, Zenon
<1>3. SUFFICES /\ ~idReused' => \A q \in assembled' : \E p \in 1 .. sentPackets' : q = Whole(p)
               /\ ~idReused' => \A q \in partials' : History(q, sentPackets', cutTwice')
  BY Zenon DEF AssembledWhole, PartialIsPrefix, History
<1>4. CASE SendRealOut
  <2>1. /\ sentPackets' = sentPackets + 1 /\ assembled' = assembled /\ partials' = partials /\ cutTwice' = cutTwice
    BY <1>4 DEF SendRealOut
  <2>2. ~idReused' => ~idReused
    BY <1>4 DEF SendRealOut
  <2>3. \A p \in 1 .. sentPackets : p \in 1 .. sentPackets'
    BY <1>1, <2>1
  <2> QED
    BY <1>2, <2>1, <2>2, <2>3, Zenon DEF History
<1>5. CASE Refragment
  <2>1. sentPackets' = sentPackets /\ assembled' = assembled /\ partials' = partials /\ idReused' = idReused
    BY <1>5 DEF Refragment
  <2>2. cutTwice => cutTwice'
    <3>1. PICK dup \in BOOLEAN : copies' = copies + (IF dup THEN 1 ELSE 0) /\ cutTwice' = (copies' > 0)
      BY <1>5 DEF Refragment
    <3>2. cutTwice => copies > 0
      BY Zenon DEF FragInv
    <3>3. copies > 0 => copies' > 0
      BY <1>1, <3>1
    <3> QED
      BY <3>1, <3>2, <3>3
  <2> QED
    BY <1>2, <2>1, <2>2, Zenon DEF History
<1>6. CASE LoseFragment
  <2>1. /\ sentPackets' = sentPackets /\ assembled' = assembled /\ partials' = partials
        /\ idReused' = idReused /\ cutTwice' = cutTwice
    BY <1>6 DEF LoseFragment
  <2> QED
    BY <1>2, <2>1, Zenon
<1>7. CASE LocalDeliver
  <2>1. PICK f \in ipNet : ProcessFragment(f)
    BY <1>7 DEF LocalDeliver
  <2>2. sentPackets' = sentPackets /\ partials' = partials /\ idReused' = idReused /\ cutTwice' = cutTwice
    BY <1>7 DEF LocalDeliver
  <2>3. ~idReused => \A q \in assembled' : q \in assembled \/ q = Whole(f.pkt)
    BY <2>1, ProcessKeepsLists, Zenon
  <2>4. f.pkt \in 1 .. sentPackets
    BY Zenon DEF FragInv, Everywhere
  <2> QED
    BY <1>2, <2>2, <2>3, <2>4, Zenon
<1>8. CASE HandleTimeout
  <2>1. /\ sentPackets' = sentPackets /\ assembled' = assembled /\ idReused' = idReused /\ cutTwice' = cutTwice
        /\ partials' = partials \cup {GetPartialPacket(frags[k].list) : k \in {timeouts[i].key : i \in Due}}
    BY <1>8, Zenon DEF HandleTimeout
  <2>2. \A i \in Due : timeouts[i].key \in DOMAIN frags
    <3>1. DOMAIN frags = KeysOf(timeouts) /\ DOMAIN timeouts = 1 .. Len(timeouts)
      BY TimeoutsTyped, Zenon DEF TimeInv
    <3>2. \A i \in Due : i \in 1 .. Len(timeouts)
      BY <3>1, Zenon DEF Due
    <3> QED
      BY <3>1, <3>2, Zenon DEF KeysOf
  <2>3. ASSUME ~idReused, NEW q \in partials', q \notin partials
        PROVE  History(q, sentPackets, cutTwice)
    <3>1. PICK k \in {timeouts[i].key : i \in Due} : q = GetPartialPacket(frags[k].list)
      BY <2>1, <2>3, Zenon
    <3>2. k \in DOMAIN frags
      BY <2>2, Zenon
    <3> QED
      BY <2>3, <3>1, <3>2, PartialGivenUp, Zenon
  <2> QED
    BY <1>2, <2>1, <2>3, Zenon
<1>9. CASE IpTick
  <2>1. /\ sentPackets' = sentPackets /\ assembled' = assembled /\ partials' = partials
        /\ idReused' = idReused /\ cutTwice' = cutTwice
    BY <1>9 DEF IpTick
  <2> QED
    BY <1>2, <2>1, Zenon
<1>10. CASE UNCHANGED ipVars
  <2>1. /\ sentPackets' = sentPackets /\ assembled' = assembled /\ partials' = partials
        /\ idReused' = idReused /\ cutTwice' = cutTwice
    BY <1>10 DEF ipVars
  <2> QED
    BY <1>2, <2>1, Zenon
<1> QED
  BY <1>4, <1>5, <1>6, <1>7, <1>8, <1>9, <1>10 DEF IpNext

\* Ipv4L3Protocol::ProcessFragment and HandleFragmentsTimeout: whatever the
\* network does to the fragments, a packet is handed up whole and unmixed, what
\* a timeout reports is a beginning of its packet, and every partial packet has
\* its timeout, for which an event is pending in time.
THEOREM ReassemblySoundHolds == IpSpec => []ReassemblySound
<1> DEFINE Inv == FragInv /\ TimeInv /\ AssembledWhole /\ PartialIsPrefix
<1>1. IpInit => Inv
  <2> SUFFICES ASSUME IpInit PROVE Inv
    OBVIOUS
  <2>1. assembled = {} /\ partials = {}
    BY DEF IpInit
  <2>2. AssembledWhole /\ PartialIsPrefix
    BY <2>1, HistoryIs, Zenon
  <2> QED
    BY <2>2, FragInvInit, TimeInvInit
<1>2. Inv /\ [IpNext]_ipVars => Inv'
  <2> SUFFICES ASSUME Inv, [IpNext]_ipVars PROVE Inv'
    OBVIOUS
  <2>1. FragInv'
    BY FragInvKept
  <2>2. TimeInv'
    BY TimeInvKept
  <2>3. AssembledWhole' /\ PartialIsPrefix'
    BY <2>1, HistoryKept
  <2> QED
    BY <2>1, <2>2, <2>3
<1>3. Inv => ReassemblySound
  BY TimeInvMeans DEF ReassemblySound
<1> QED
  BY <1>1, <1>2, <1>3, PTL DEF IpSpec
=============================================================================
