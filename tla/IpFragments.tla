----------------------------- MODULE IpFragments -----------------------------
(***************************************************************************)
(* Fragmentation and reassembly in Ipv4L3Protocol, for the packets of one  *)
(* source, destination and protocol.  A router with a smaller MTU on some  *)
(* of the paths cuts fragments again; the network loses, duplicates and    *)
(* reorders them.                                                          *)
(*                                                                         *)
(* Abstractions.  Lengths and offsets are in units of 8 bytes.  A fragment *)
(* names the packet it was cut from (pkt), which is its payload, and which *)
(* the receiver never looks at: it knows the identification only, which is *)
(* 16 bits wide in the code.  Time is in ticks.                            *)
(***************************************************************************)
EXTENDS Integers, Sequences, FiniteSets, SequencesExt

CONSTANTS
  IpLengths,          \* IpLengths[p] is the length of the p-th packet sent
  FragmentSize,       \* what fits the MTU of the source
  SmallSize,          \* what fits that of the router
  IdBits,             \* width of the identification
  m_fragmentExpirationTimeout,
  MaxCopies, MaxIpTime    \* bounds: duplicates and losses, ticks

IpAssumption ==
  /\ \A p \in DOMAIN IpLengths : IpLengths[p] \in Nat \ {0}
  /\ FragmentSize \in Nat \ {0} /\ SmallSize \in Nat \ {0} /\ IdBits \in Nat
  /\ m_fragmentExpirationTimeout \in Nat \ {0} /\ MaxCopies \in Nat /\ MaxIpTime \in Nat

ASSUME IpAssumption

VARIABLES
  sentPackets,    \* packets sent so far
  ipNet,          \* fragments on their way
  copies,         \* bound: duplicates and losses so far
  frags,          \* m_fragments: for an identification, the list and m_moreFragment
  timeouts,       \* m_timeoutEventList
  fragEvents,     \* pending HandleTimeout events: how many, at each tick
  ipNow,
  assembled,      \* history: payloads handed up
  partials,       \* history: payloads of the packets given up
  idReused,       \* history: an identification was used again too early
  cutTwice        \* history: one of two copies may have been cut again

ipVars == <<sentPackets, ipNet, copies, frags, timeouts, fragEvents, ipNow, assembled, partials, idReused, cutTwice>>

IdOf(p) == p % (2 ^ IdBits)
Units(f) == [i \in 1 .. f.len |-> <<f.pkt, f.off + i>>]
Whole(p) == [i \in 1 .. IpLengths[p] |-> <<p, i>>]

IpInit ==
  /\ sentPackets = 0 /\ ipNet = {} /\ copies = 0 /\ frags = <<>> /\ timeouts = <<>>
  /\ fragEvents = [t \in 0 .. MaxIpTime + m_fragmentExpirationTimeout |-> 0]
  /\ ipNow = 0 /\ assembled = {} /\ partials = {} /\ idReused = FALSE /\ cutTwice = FALSE

----------------------------------------------------------------------------
(* DoFragmentation: every fragment but the last carries "more", and the    *)
(* last one what the packet, itself perhaps a fragment, carried.           *)

DoFragmentation(f, size) ==
  {[f EXCEPT !.off = f.off + k * size,
             !.len = IF (k + 1) * size < f.len THEN size ELSE f.len - k * size,
             !.more = (k + 1) * size < f.len \/ f.more] : k \in 0 .. (f.len - 1) \div size}

SendRealOut ==
  LET p == sentPackets + 1
      whole == [pkt |-> p, off |-> 0, len |-> IpLengths[p], more |-> FALSE]
  IN /\ p \in DOMAIN IpLengths /\ sentPackets' = p
     /\ ipNet' = ipNet \cup DoFragmentation(whole, FragmentSize)
     /\ idReused' = (idReused \/ IdOf(p) \in DOMAIN frags \/ \E f \in ipNet : IdOf(f.pkt) = IdOf(p))
     /\ UNCHANGED <<copies, frags, timeouts, fragEvents, ipNow, assembled, partials, cutTwice>>

\* The router forwards a copy of f, cut again; f itself is lost, or goes on
\* its way too (a duplicate over another path).
Refragment == \E f \in ipNet, dup \in BOOLEAN :
  /\ f.len > SmallSize /\ copies + (IF dup THEN 1 ELSE 0) <= MaxCopies
  /\ copies' = copies + IF dup THEN 1 ELSE 0
  /\ ipNet' = (IF dup THEN ipNet ELSE ipNet \ {f}) \cup DoFragmentation(f, SmallSize)
  /\ cutTwice' = (copies' > 0)
  /\ UNCHANGED <<sentPackets, frags, timeouts, fragEvents, ipNow, assembled, partials, idReused>>

LoseFragment == \E f \in ipNet :
  /\ copies < MaxCopies /\ copies' = copies + 1 /\ ipNet' = ipNet \ {f}
  /\ UNCHANGED <<sentPackets, frags, timeouts, fragEvents, ipNow, assembled, partials, idReused, cutTwice>>

----------------------------------------------------------------------------
(* Fragments.                                                              *)

\* AddFragment: behind all whose offset is not larger.
AddFragment_Append(x, f) == [list |-> Append(x.list, f), more |-> f.more]
AddFragment(x, f) ==
  LET i == Cardinality({j \in DOMAIN x.list : x.list[j].off <= f.off})
  IN [list |-> SubSeq(x.list, 1, i) \o <<f>> \o SubSeq(x.list, i + 1, Len(x.list)),
      more |-> IF i = Len(x.list) THEN f.more ELSE x.more]

\* End(l)[i] is where the first i fragments of l end.
End(l) == LET end[i \in 0 .. Len(l)] ==
                IF i = 0 THEN 0
                ELSE IF end[i - 1] > l[i].off + l[i].len THEN end[i - 1] ELSE l[i].off + l[i].len
          IN end

IsEntire(x) == ~x.more /\ \A i \in DOMAIN x.list : x.list[i].off <= End(x.list)[i - 1]

\* GetPacket: of a fragment that overlaps what is there, the rest.
GetPacket_Overlaps(l) == FlattenSeq([i \in DOMAIN l |-> Units(l[i])])
GetPacket(l) ==
  FoldLeft(LAMBDA p, f : p \o SubSeq(Units(f), Len(p) - f.off + 1, f.len), <<>>, l)

\* GetPartialPacket: up to the first gap.  Of a fragment that lies within what
\* is there nothing is added: the difference of its length and the overlap is
\* negative, but start and length wrap to the end of the fragment, so that
\* CreateFragment cuts an empty piece.
GetPartialPacket_OverGaps(l) == FlattenSeq([i \in DOMAIN l |-> Units(l[i])])
GetPartialPacket(l) ==
  FoldLeft(LAMBDA p, f : IF Len(p) >= f.off THEN p \o SubSeq(Units(f), Len(p) - f.off + 1, f.len) ELSE p,
           <<>>, l)

----------------------------------------------------------------------------
(* The receiver.                                                           *)

\* SetTimeout: an event is scheduled when no other partial packet is waited for.
SetTimeout(k) ==
  /\ timeouts' = Append(timeouts, [at |-> ipNow + m_fragmentExpirationTimeout, key |-> k])
  /\ fragEvents' = IF timeouts # <<>> THEN fragEvents
                   ELSE [fragEvents EXCEPT ![ipNow + m_fragmentExpirationTimeout] = @ + 1]

Without(k) == [j \in DOMAIN frags \ {k} |-> frags[j]]

\* LocalDeliver, ProcessFragment.
ProcessFragment(f) ==
  LET k == IdOf(f.pkt)
      old == IF k \in DOMAIN frags THEN frags[k] ELSE [list |-> <<>>, more |-> FALSE]
      x == AddFragment(old, f)
      isNew == k \notin DOMAIN frags
  IN IF f.off = 0 /\ ~f.more
     THEN assembled' = assembled \cup {Units(f)} /\ UNCHANGED <<frags, timeouts, fragEvents>>
     ELSE IF IsEntire(x)
     THEN /\ assembled' = assembled \cup {GetPacket(x.list)} /\ frags' = Without(k)
          /\ \E i \in DOMAIN timeouts : timeouts[i].key = k /\ timeouts' = RemoveAt(timeouts, i)
          /\ UNCHANGED fragEvents
     ELSE /\ frags' = [j \in DOMAIN frags \cup {k} |-> IF j = k THEN x ELSE frags[j]]
          /\ IF isNew THEN SetTimeout(k) ELSE UNCHANGED <<timeouts, fragEvents>>
          /\ UNCHANGED assembled

LocalDeliver == \E f \in ipNet :
  /\ ProcessFragment(f)
  /\ \/ ipNet' = ipNet \ {f} /\ UNCHANGED copies
     \/ copies < MaxCopies /\ copies' = copies + 1 /\ UNCHANGED ipNet      \* f was duplicated
  /\ UNCHANGED <<sentPackets, ipNow, partials, idReused, cutTwice>>

\* HandleTimeout: the first entries, as long as they are due now, are given up;
\* then the event is scheduled for the one that is first now.
Due == {i \in DOMAIN timeouts : \A j \in 1 .. i : timeouts[j].at = ipNow}
HandleTimeout_NoNext ==
  /\ fragEvents[ipNow] > 0 /\ fragEvents' = [fragEvents EXCEPT ![ipNow] = @ - 1]
  /\ timeouts' = SubSeq(timeouts, Cardinality(Due) + 1, Len(timeouts))
  /\ frags' = [k \in DOMAIN frags \ {timeouts[i].key : i \in Due} |-> frags[k]]
  /\ UNCHANGED <<sentPackets, ipNet, copies, ipNow, assembled, idReused, cutTwice, partials>>
HandleTimeout ==
  LET left == SubSeq(timeouts, Cardinality(Due) + 1, Len(timeouts))
      keys == {timeouts[i].key : i \in Due}
      fired == [fragEvents EXCEPT ![ipNow] = @ - 1]
  IN /\ fragEvents[ipNow] > 0 /\ timeouts' = left
     /\ partials' = partials \cup {GetPartialPacket(frags[k].list) : k \in keys}
     /\ frags' = [k \in DOMAIN frags \ keys |-> frags[k]]
     /\ fragEvents' = IF left = <<>> THEN fired ELSE [fired EXCEPT ![Head(left).at] = @ + 1]
     /\ UNCHANGED <<sentPackets, ipNet, copies, ipNow, assembled, idReused, cutTwice>>

IpTick ==
  /\ ipNow < MaxIpTime /\ fragEvents[ipNow] = 0 /\ ipNow' = ipNow + 1
  /\ UNCHANGED <<sentPackets, ipNet, copies, frags, timeouts, fragEvents, assembled, partials, idReused, cutTwice>>

IpNext == SendRealOut \/ Refragment \/ LoseFragment \/ LocalDeliver \/ HandleTimeout \/ IpTick
IpSpec == IpInit /\ [][IpNext]_ipVars

----------------------------------------------------------------------------
(* Properties.                                                             *)

\* Types; the list of a partial packet is sorted by offset.
IpTypeOK ==
  /\ sentPackets \in 0 .. Len(IpLengths) /\ copies \in 0 .. MaxCopies
  /\ DOMAIN frags \subseteq 0 .. 2 ^ IdBits - 1
  /\ \A k \in DOMAIN frags : \A i \in 1 .. Len(frags[k].list) - 1 :
       frags[k].list[i].off <= frags[k].list[i + 1].off

\* Whatever the network does to its fragments, a packet is handed up whole and
\* unmixed or not at all, unless its identification was in use.
AssembledWhole == ~idReused => assembled \subseteq {Whole(p) : p \in 1 .. sentPackets}

\* What a timeout reports is a beginning of the packet, and not all of it
\* unless fragments overlapped (a shorter one that comes last is believed
\* when it says that more will follow).
PartialIsPrefix == ~idReused => \A q \in partials : q # <<>> => \E p \in 1 .. sentPackets :
  IsPrefix(q, Whole(p)) /\ (q = Whole(p) => cutTwice)

\* Every partial packet has one entry in the list of timeouts, the list is in
\* the order of time, none of it is overdue, and an event comes no later than
\* the first: HandleTimeout looks for entries that are due exactly now.
TimeoutsKept ==
  /\ DOMAIN frags = {timeouts[i].key : i \in DOMAIN timeouts}
  /\ Len(timeouts) = Cardinality(DOMAIN frags)
  /\ \A i \in 1 .. Len(timeouts) - 1 : timeouts[i].at <= timeouts[i + 1].at
  /\ timeouts # <<>> => \E t \in ipNow .. Head(timeouts).at : fragEvents[t] > 0

\* Whatever the network does to fragments, a packet is whole or is given up in
\* time.
ReassemblySound == AssembledWhole /\ PartialIsPrefix /\ TimeoutsKept
==============================================================================
