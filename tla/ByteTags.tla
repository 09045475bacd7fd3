------------------------------- MODULE ByteTags -------------------------------
(***************************************************************************)
(* The byte tags of packets (ByteTagList, used by Packet): each tag covers *)
(* a range of bytes and must go on covering these bytes while headers and  *)
(* trailers come and go, packets are fragmented, joined and copied.  The   *)
(* lists of copies share their data until one of them writes where another *)
(* has written; data that nobody uses waits in a list to be used again.    *)
(*                                                                         *)
(* Abstractions: all tags take the same room, so the size of data is a     *)
(* number of tags; a tag is the number of the AddByteTag that added it;    *)
(* the list of free data is never full (FREE_LIST_SIZE is 1000).           *)
(***************************************************************************)
EXTENDS Integers, FiniteSets, Sequences, SequencesExt, FiniteSetsExt

CONSTANTS
  BytePackets,      \* the packets
  MaxSize,          \* bound: bytes of a packet
  MaxByteOps        \* bound: operations

ByteTagsAssumption ==
  /\ BytePackets # {} /\ IsFiniteSet(BytePackets) /\ MaxSize \in Nat \ {0} /\ MaxByteOps \in Nat

ASSUME ByteTagsAssumption

VARIABLES
  tagged,           \* tagged[p]: the size and the list of packet p
  store,            \* data, the list of free data, g_maxSize
  byteOps,          \* history: operations
  bytesOf           \* history: the tags that each byte of a packet should have

byteTagVars == <<tagged, store, byteOps, bytesOf>>

NoData == 0
Far == 100          \* INT32_MAX, OFFSET_MAX
EmptyList == [min |-> Far, max |-> -Far, adj |-> 0, used |-> 0, data |-> NoData]

----------------------------------------------------------------------------
(* Data, with its reference count and the length that somebody has         *)
(* written.                                                                *)

UnusedData(h) == Min({d \in 1 .. Cardinality(DOMAIN h.data) + 1 : d \notin DOMAIN h.data})

\* The last free data that is large enough; those after it are given up.
Allocate(h, n) ==
  LET fit == {i \in DOMAIN h.free : h.free[i] >= n}
      size == IF fit = {} THEN n ELSE h.free[Max(fit)]
      d == UnusedData(h)
  IN [h EXCEPT !.free = SubSeq(@, 1, IF fit = {} THEN 0 ELSE Max(fit) - 1),
               !.data = [x \in DOMAIN @ \cup {d} |->
                 IF x = d THEN [items |-> <<>>, size |-> size, count |-> 1, dirty |-> 0] ELSE @[x]]]

Deallocate(h, d) ==
  IF d = NoData THEN h
  ELSE LET max == Max({h.maxSize, h.data[d].size})
           last == h.data[d].count = 1
       IN [h EXCEPT !.maxSize = max,
                    !.data = IF last THEN [x \in DOMAIN @ \ {d} |-> @[x]] ELSE [@ EXCEPT ![d].count = @ - 1],
                    !.free = IF last /\ h.data[d].size = max THEN Append(@, max) ELSE @]

\* A copy of a list: one user of its data more.
Share(h, l) == IF l.data = NoData THEN h ELSE [h EXCEPT !.data[l.data].count = @ + 1]

\* The data that a tag can be written to behind the used part of list l.
HasSpace(h, l) ==
  /\ h.data[l.data].size > l.used
  /\ h.data[l.data].count = 1 \/ h.data[l.data].dirty = l.used
Room_Shared(m) ==
  IF m.l.data = NoData
  THEN [h |-> Allocate(m.h, m.l.used + 1), l |-> [m.l EXCEPT !.data = UnusedData(m.h), !.used = 0]]
  ELSE IF m.h.data[m.l.data].size > m.l.used THEN m
  ELSE LET h == Allocate(m.h, m.l.used + 1)
           d == UnusedData(m.h)
       IN [h |-> Deallocate([h EXCEPT !.data[d].items = SubSeq(h.data[m.l.data].items, 1, m.l.used)], m.l.data),
           l |-> [m.l EXCEPT !.data = d]]
Room(m) ==
  IF m.l.data = NoData
  THEN [h |-> Allocate(m.h, m.l.used + 1), l |-> [m.l EXCEPT !.data = UnusedData(m.h), !.used = 0]]
  ELSE IF HasSpace(m.h, m.l) THEN m
  ELSE LET h == Allocate(m.h, m.l.used + 1)
           d == UnusedData(m.h)
       IN [h |-> Deallocate([h EXCEPT !.data[d].items = SubSeq(h.data[m.l.data].items, 1, m.l.used)], m.l.data),
           l |-> [m.l EXCEPT !.data = d]]

Written(m, it) ==
  [h |-> [m.h EXCEPT !.data[m.l.data].items = SubSeq(@, 1, m.l.used) \o <<it>> \o SubSeq(@, m.l.used + 2, Len(@)),
                     !.data[m.l.data].dirty = m.l.used + 1],
   l |-> [m.l EXCEPT !.used = @ + 1, !.min = Min({@, it.start}), !.max = Max({@, it.end})]]

(* ByteTagList::Add; m is the data and a list.                             *)
AddByteTagTo(m, it) ==
  Written(Room(m), [it EXCEPT !.start = @ - m.l.adj, !.end = @ - m.l.adj])
AddByteTagsTo(m, items) == FoldLeft(AddByteTagTo, m, items)

----------------------------------------------------------------------------
(* Iterators, and what Packet does with its list.                          *)

Items(h, l) == IF l.data = NoData THEN <<>> ELSE SubSeq(h.data[l.data].items, 1, l.used)

\* The parts between two offsets of the tags that have one there.
Between(h, l, from, to) ==
  LET moved(it) == [it EXCEPT !.start = @ + l.adj, !.end = @ + l.adj]
      inside == SelectSeq([i \in DOMAIN Items(h, l) |-> moved(Items(h, l)[i])],
                          LAMBDA it : it.start < to /\ it.end > from)
  IN [i \in DOMAIN inside |-> [inside[i] EXCEPT !.start = Max({@, from}), !.end = Min({@, to})]]
BeginAll(h, l) == Between(h, l, 0, Far)

\* *this = list, for a list that was built from some of the tags of l.
Rebuilt(h, l, items) ==
  LET m == AddByteTagsTo([h |-> h, l |-> EmptyList], items) IN [m EXCEPT !.h = Deallocate(@, l.data)]

ByteTagsAddAtEnd(h, l, at) ==
  IF l.max <= at - l.adj THEN [h |-> h, l |-> l]
  ELSE LET before == SelectSeq(BeginAll(h, l), LAMBDA it : it.start < at)
       IN Rebuilt(h, l, [i \in DOMAIN before |-> [before[i] EXCEPT !.end = Min({@, at})]])

ByteTagsAddAtStart(h, l, at) ==
  IF l.min >= at - l.adj THEN [h |-> h, l |-> l]
  ELSE LET after == SelectSeq(BeginAll(h, l), LAMBDA it : it.end > at)
       IN Rebuilt(h, l, [i \in DOMAIN after |-> [after[i] EXCEPT !.start = Max({@, at})]])

Adjust(l, n) == [l EXCEPT !.adj = @ + n]

\* Earlier packets have left data with room for two tags.
ByteTagInit ==
  /\ tagged = [p \in BytePackets |-> [size |-> 2, list |-> EmptyList]]
  /\ store = [data |-> <<>>, free |-> <<2>>, maxSize |-> 2]
  /\ byteOps = 0 /\ bytesOf = [p \in BytePackets |-> <<{}, {}>>]

\* Packet p has now a list, with the data it is in, a size and bytes.
PktBecomes(p, m, size, bytes) ==
  /\ byteOps < MaxByteOps /\ byteOps' = byteOps + 1
  /\ tagged' = [tagged EXCEPT ![p] = [size |-> size, list |-> m.l]]
  /\ store' = m.h /\ bytesOf' = [bytesOf EXCEPT ![p] = bytes]

Now(p) == [h |-> store, l |-> tagged[p].list]

AddByteTag(p, from, to) ==
  /\ from <= to /\ to <= tagged[p].size
  /\ PktBecomes(p, AddByteTagTo(Now(p), [tag |-> byteOps, start |-> from, end |-> to]), tagged[p].size,
             [b \in DOMAIN bytesOf[p] |-> IF b \in from + 1 .. to THEN bytesOf[p][b] \cup {byteOps}
                                         ELSE bytesOf[p][b]])

PktAddHeader(p, n) ==
  /\ tagged[p].size + n <= MaxSize
  /\ PktBecomes(p, ByteTagsAddAtStart(store, Adjust(tagged[p].list, n), n), tagged[p].size + n,
             [b \in 1 .. n |-> {}] \o bytesOf[p])

\* RemoveHeader, RemoveAtStart.
PktRemoveAtStart(p, n) ==
  /\ n <= tagged[p].size
  /\ PktBecomes(p, [h |-> store, l |-> Adjust(tagged[p].list, 0 - n)], tagged[p].size - n,
             SubSeq(bytesOf[p], n + 1, tagged[p].size))

PktAddTrailer_NotCut(p, n) ==
  /\ tagged[p].size + n <= MaxSize
  /\ PktBecomes(p, Now(p), tagged[p].size + n, bytesOf[p] \o [b \in 1 .. n |-> {}])
\* AddTrailer, AddPaddingAtEnd.
PktAddTrailer(p, n) ==
  /\ tagged[p].size + n <= MaxSize
  /\ PktBecomes(p, ByteTagsAddAtEnd(store, tagged[p].list, tagged[p].size), tagged[p].size + n,
             bytesOf[p] \o [b \in 1 .. n |-> {}])

\* RemoveTrailer, RemoveAtEnd: the list is not touched.
PktRemoveAtEnd(p, n) ==
  /\ n <= tagged[p].size
  /\ PktBecomes(p, Now(p), tagged[p].size - n, SubSeq(bytesOf[p], 1, tagged[p].size - n))

\* Packet q, perhaps p itself, behind p: its tags go through a copy of its list.
PktAddAtEnd(p, q) ==
  /\ tagged[p].size + tagged[q].size <= MaxSize
  /\ LET cut == ByteTagsAddAtEnd(store, tagged[p].list, tagged[p].size)
         other == IF p = q THEN cut.l ELSE tagged[q].list
         copy == ByteTagsAddAtStart(Share(cut.h, other), other, 0)
         m == AddByteTagsTo([h |-> copy.h, l |-> cut.l],
                      BeginAll(copy.h, Adjust(copy.l, tagged[p].size)))
     IN PktBecomes(p, [m EXCEPT !.h = Deallocate(@, copy.l.data)],
                tagged[p].size + tagged[q].size, bytesOf[p] \o bytesOf[q])

\* Packet q is dropped and becomes a fragment of p; all of p, if it is copied.
Fragment(p, q, start, length) ==
  /\ p # q /\ start + length <= tagged[p].size
  /\ PktBecomes(q, [h |-> Deallocate(Share(store, tagged[p].list), tagged[q].list.data),
                 l |-> Adjust(tagged[p].list, 0 - start)],
             length, SubSeq(bytesOf[p], start + 1, start + length))

RemoveAllByteTags(p) ==
  PktBecomes(p, [h |-> Deallocate(store, tagged[p].list.data), l |-> EmptyList],
          tagged[p].size, [b \in DOMAIN bytesOf[p] |-> {}])

ByteTagNext == \E p \in BytePackets :
  \/ \E from, to \in 0 .. MaxSize : AddByteTag(p, from, to)
  \/ \E n \in 1 .. 2 : PktAddHeader(p, n) \/ PktRemoveAtStart(p, n) \/ PktAddTrailer(p, n) \/ PktRemoveAtEnd(p, n)
  \/ \E q \in BytePackets : PktAddAtEnd(p, q)
  \/ \E q \in BytePackets, start, length \in 0 .. MaxSize : Fragment(p, q, start, length)
  \/ RemoveAllByteTags(p)

ByteTagSpec == ByteTagInit /\ [][ByteTagNext]_byteTagVars

----------------------------------------------------------------------------
(* Properties.                                                             *)

ByteTagTypeOK ==
  /\ \A p \in BytePackets : tagged[p].size \in 0 .. MaxSize /\ tagged[p].list.used \in 0 .. MaxByteOps
  /\ \A d \in DOMAIN store.data : store.data[d].dirty \in 1 .. store.data[d].size
  /\ store.maxSize \in 0 .. MaxByteOps + 2 /\ byteOps \in 0 .. MaxByteOps

\* What GetByteTagIterator lists for a packet covers, byte for byte, what was
\* tagged, whatever headers, trailers, copies and fragments there were since.
TagsFollowBytes == \A p \in BytePackets :
  LET listed == Between(store, tagged[p].list, 0, tagged[p].size) IN
  \A b \in 1 .. tagged[p].size :
    {listed[i].tag : i \in {j \in DOMAIN listed : listed[j].start < b /\ b <= listed[j].end}} = bytesOf[p][b]

\* Data is counted once for each list that uses it, holds all of them, and is
\* given up exactly when nobody uses it.
DataCounted ==
  /\ \A d \in DOMAIN store.data :
       store.data[d].count = Cardinality({p \in BytePackets : tagged[p].list.data = d})
       /\ store.data[d].count > 0
  /\ \A p \in BytePackets : tagged[p].list.data # NoData =>
       /\ tagged[p].list.data \in DOMAIN store.data
       /\ tagged[p].list.used <= Len(store.data[tagged[p].list.data].items)

\* The bounds that allow ByteTagsAddAtStart and ByteTagsAddAtEnd to return at once are right.
BoundsRight == \A p \in BytePackets :
  LET l == tagged[p].list IN
  \A i \in 1 .. l.used : LET it == store.data[l.data].items[i] IN l.min <= it.start /\ it.end <= l.max

\* Byte tags stay on their bytes.
ByteTagsSound == TagsFollowBytes /\ DataCounted /\ BoundsRight
=============================================================================
