---------------------------- MODULE Network_proofs ----------------------------
(***************************************************************************)
(* Theorems about the upstream network code.  The point-to-point device,   *)
(* its queue and the layer above, for any packets, sizes, delays and       *)
(* limits: senders and stopped queues are always woken, and packets cross  *)
(* the link one at a time and in order.  The bytes of packets, for any     *)
(* buffers and operations on them: buffers that share bytes keep apart.    *)
(***************************************************************************)
EXTENDS P2pLink, PacketBuffer, Totals_proofs, FiniteSetTheorems

----------------------------------------------------------------------------
(* The bytes of the packets in a queue.                                    *)

Packets == 1 .. Len(BytesOf)

LEMMA SizesAreNumbers ==
  /\ Mtu \in Nat /\ MaxQueue \in Nat /\ Mtu <= MaxQueue
  /\ \A p \in Packets : BytesOf[p] \in Nat /\ BytesOf[p] > 0 /\ BytesOf[p] <= MaxQueue
BY P2pAssumption DEF P2pAssumption, Packets

Sizes(q) == [i \in DOMAIN q |-> BytesOf[q[i]]]

LEMMA SizesOf ==
  ASSUME NEW q \in Seq(Packets)
  PROVE  /\ Sizes(q) \in Seq(Nat) /\ Sizes(q) \in Seq(Int) /\ Len(Sizes(q)) = Len(q)
         /\ \A i \in 1 .. Len(q) : Sizes(q)[i] = BytesOf[q[i]]
<1>1. DOMAIN q = 1 .. Len(q) /\ Len(q) \in Nat /\ \A i \in 1 .. Len(q) : q[i] \in Packets
  BY SMTT(40)
<1>2. PICK n \in Nat : n = Len(q)
  BY <1>1
<1>3. PICK s : s = [i \in 1 .. n |-> BytesOf[q[i]]]
  OBVIOUS
<1>4. s \in [1 .. n -> Nat]
  BY <1>1, <1>2, <1>3, SizesAreNumbers
<1>5. s \in Seq(Nat) /\ s \in Seq(Int) /\ Len(s) = n
  BY <1>4
<1>6. s = Sizes(q)
  BY <1>1, <1>2, <1>3, Zenon DEF Sizes
<1>7. \A i \in 1 .. n : s[i] = BytesOf[q[i]]
  BY <1>3
<1> QED
  BY <1>2, <1>5, <1>6, <1>7, Zenon

LEMMA QueueBytesEmpty == QueueBytes(<< >>) = 0
<1>1. PICK s : s = [i \in DOMAIN << >> |-> BytesOf[<< >>[i]]]
  OBVIOUS
<1>2. s = << >>
  BY <1>1
<1> QED
  BY <1>1, <1>2, TotalEmpty, Zenon DEF QueueBytes

LEMMA QueueBytesAppend ==
  ASSUME NEW q \in Seq(Packets), NEW p \in Packets
  PROVE  /\ QueueBytes(q) \in Nat
         /\ QueueBytes(Append(q, p)) = QueueBytes(q) + BytesOf[p]
<1>1. PICK r : r = Append(q, p)
  OBVIOUS
<1>2. /\ r \in Seq(Packets) /\ Len(q) \in Nat /\ Len(r) = Len(q) + 1 /\ r[Len(q) + 1] = p
      /\ \A i \in 1 .. Len(q) : r[i] = q[i]
  BY <1>1
<1>3. PICK s, t : s = Sizes(q) /\ t = Sizes(r)
  OBVIOUS
<1>4. /\ s \in Seq(Nat) /\ s \in Seq(Int) /\ Len(s) = Len(q)
      /\ \A i \in 1 .. Len(q) : s[i] = BytesOf[q[i]]
  BY <1>3, SizesOf
<1>5. /\ t \in Seq(Int) /\ Len(t) = Len(r)
      /\ \A i \in 1 .. Len(r) : t[i] = BytesOf[r[i]]
  BY <1>2, <1>3, SizesOf
<1>6. PICK b \in Int : b = BytesOf[p]
  BY SizesAreNumbers
<1>7. t = Append(s, b)
  <2>1. Append(s, b) \in Seq(Int) /\ Len(Append(s, b)) = Len(t)
    BY <1>2, <1>4, <1>5
  <2>2. \A i \in 1 .. Len(t) : t[i] = Append(s, b)[i]
    BY SMTT(40), <1>2, <1>4, <1>5, <1>6
  <2> QED
    BY <1>5, <2>1, <2>2, SeqEqual
<1>8. Total(s) \in Nat /\ Total(t) = Total(s) + b
  BY <1>4, <1>6, <1>7, TotalNat, TotalAppend
<1>9. QueueBytes(q) = Total(s) /\ QueueBytes(r) = Total(t)
  BY <1>3, Zenon DEF QueueBytes, Sizes
<1> QED
  BY <1>1, <1>6, <1>8, <1>9, Zenon

LEMMA QueueBytesTail ==
  ASSUME NEW q \in Seq(Packets), q # << >>
  PROVE  /\ QueueBytes(q) \in Nat /\ QueueBytes(Tail(q)) \in Nat
         /\ QueueBytes(q) = QueueBytes(Tail(q)) + BytesOf[Head(q)]
<1>1. PICK r : r = Tail(q)
  OBVIOUS
<1>2. /\ r \in Seq(Packets) /\ Len(q) \in Nat /\ Len(q) > 0 /\ Len(r) = Len(q) - 1 /\ Head(q) = q[1]
      /\ \A i \in 1 .. Len(r) : r[i] = q[i + 1]
  BY <1>1
<1>3. PICK s, t : s = Sizes(q) /\ t = Sizes(r)
  OBVIOUS
<1>4. /\ s \in Seq(Nat) /\ s \in Seq(Int) /\ Len(s) = Len(q)
      /\ \A i \in 1 .. Len(q) : s[i] = BytesOf[q[i]]
  BY <1>3, SizesOf
<1>5. /\ t \in Seq(Nat) /\ t \in Seq(Int) /\ Len(t) = Len(r)
      /\ \A i \in 1 .. Len(r) : t[i] = BytesOf[r[i]]
  BY <1>2, <1>3, SizesOf
<1>6. s # << >> /\ Head(s) = BytesOf[Head(q)]
  BY <1>2, <1>4
<1>7. t = Tail(s)
  <2>1. Tail(s) \in Seq(Int) /\ Len(Tail(s)) = Len(t)
    BY <1>2, <1>4, <1>5, <1>6
  <2>2. ASSUME NEW i \in 1 .. Len(t)
        PROVE  t[i] = Tail(s)[i]
    <3>1. i \in 1 .. Len(r) /\ i + 1 \in 1 .. Len(q) /\ Tail(s)[i] = s[i + 1]
      BY <1>2, <1>4, <1>5, <1>6
    <3>2. t[i] = BytesOf[r[i]] /\ r[i] = q[i + 1] /\ s[i + 1] = BytesOf[q[i + 1]]
      BY <1>2, <1>4, <1>5, <3>1
    <3> QED
      BY <3>1, <3>2
  <2> QED
    BY <1>5, <2>1, <2>2, SeqEqual
<1>8. Total(s) \in Nat /\ Total(t) \in Nat
  BY <1>4, <1>5, TotalNat
<1>9. Total(s) = Head(s) + Total(t) /\ Head(s) \in Int
  BY <1>4, <1>6, <1>7, TotalTail
<1>10. QueueBytes(q) = Total(s) /\ QueueBytes(r) = Total(t)
  BY <1>3, Zenon DEF QueueBytes, Sizes
<1>11. Total(s) = Total(t) + Head(s)
  BY <1>8, <1>9
<1> QED
  BY <1>1, <1>6, <1>8, <1>10, <1>11, Zenon


(***************************************************************************)
(* Numbers that are the same when they wrap at Word.                       *)
(***************************************************************************)

Same(a, b) == \E k \in Int : a = b + k * Word

LEMMA WordIsPositive ==
  /\ Word \in Nat /\ Word > 0
  /\ m_minLimit \in Nat /\ m_maxLimit \in Nat /\ m_minLimit <= m_maxLimit /\ 2 * m_maxLimit < Word
  /\ Delay \in Nat
BY P2pAssumption DEF P2pAssumption

LEMMA SameSum ==
  ASSUME NEW a \in Int, NEW b \in Int, NEW c \in Int, NEW d \in Int, Same(a, b), Same(c, d)
  PROVE  Same(a + c, b + d) /\ Same(a - c, b - d)
<1>1. PICK j \in Int : a = b + j * Word
  BY DEF Same
<1>2. PICK k \in Int : c = d + k * Word
  BY DEF Same
<1>3. Word \in Int /\ j * Word \in Int /\ k * Word \in Int
  BY WordIsPositive
<1>4. (j + k) * Word = j * Word + k * Word /\ (j - k) * Word = j * Word - k * Word
  BY <1>3
<1>5. a + c = (b + d) + (j + k) * Word /\ a - c = (b - d) + (j - k) * Word
  BY <1>1, <1>2, <1>3, <1>4
<1> QED
  BY <1>5 DEF Same

LEMMA SameSymmetric ==
  ASSUME NEW a \in Int, NEW b \in Int, Same(a, b)
  PROVE  Same(b, a)
<1>1. PICK k \in Int : a = b + k * Word
  BY DEF Same
<1>2. (-k) * Word = -(k * Word) /\ k * Word \in Int /\ -k \in Int
  BY WordIsPositive
<1>3. b = a + (-k) * Word
  BY <1>1, <1>2
<1> QED
  BY <1>2, <1>3 DEF Same

LEMMA SameTransitive ==
  ASSUME NEW a \in Int, NEW b \in Int, NEW c \in Int, Same(a, b), Same(b, c)
  PROVE  Same(a, c)
<1>1. PICK j \in Int : a = b + j * Word
  BY DEF Same
<1>2. PICK k \in Int : b = c + k * Word
  BY DEF Same
<1>3. Word \in Int /\ j * Word \in Int /\ k * Word \in Int /\ (j + k) * Word = j * Word + k * Word
  BY WordIsPositive
<1>4. a = c + (j + k) * Word
  BY <1>1, <1>2, <1>3
<1> QED
  BY <1>4 DEF Same

LEMMA SameReflexive == \A a \in Int : Same(a, a)
<1>1. 0 * Word = 0
  BY WordIsPositive
<1> QED
  BY <1>1 DEF Same

LEMMA SameWord ==
  ASSUME NEW a \in 0 .. Word - 1, NEW b \in 0 .. Word - 1, Same(a, b)
  PROVE  a = b
<1>1. PICK k \in Int : a = b + k * Word
  BY DEF Same
<1>2. CASE k >= 1
  <2>1. k * Word >= Word
    BY <1>2, WordIsPositive
  <2> QED
    BY <1>1, <2>1, WordIsPositive
<1>3. CASE k <= -1
  <2>1. k * Word <= -Word
    BY <1>3, WordIsPositive
  <2> QED
    BY <1>1, <2>1, WordIsPositive
<1>4. CASE k = 0
  BY <1>1, <1>4, WordIsPositive
<1> QED
  BY <1>2, <1>3, <1>4

LEMMA UnsignedSame ==
  ASSUME NEW a \in Int
  PROVE  Unsigned(a) \in 0 .. Word - 1 /\ Same(Unsigned(a), a)
<1>1. /\ a % Word \in 0 .. Word - 1 /\ a \div Word \in Int
      /\ a = Word * (a \div Word) + (a % Word)
  BY WordIsPositive
<1>2. (-(a \div Word)) * Word = -(Word * (a \div Word)) /\ Word * (a \div Word) \in Int
      /\ -(a \div Word) \in Int
  BY <1>1, WordIsPositive
<1>3. a % Word = a + (-(a \div Word)) * Word
  BY <1>1, <1>2
<1> QED
  BY <1>1, <1>2, <1>3 DEF Same, Unsigned

LEMMA SignedInt ==
  ASSUME NEW a \in Int
  PROVE  Signed(a) \in Int
<1>1. a % Word \in Int
  BY WordIsPositive
<1> QED
  BY <1>1, WordIsPositive DEF Signed

(***************************************************************************)
(* The limits and the queue.                                               *)
(***************************************************************************)

Limits == [limit : 0 .. m_maxLimit, queued : Int, completed : Int, last : Int, adj : Int,
           prevQueued : Int, prevLast : Int, prevOver : Int, slack : Int]
Flags == [device : BOOLEAN, limits : BOOLEAN]
IsLink(l) ==
  /\ l = [q |-> l.q, s |-> l.s, w |-> l.w, d |-> l.d]
  /\ l.q \in Seq(Packets) /\ l.s \in Flags /\ l.w \in BOOLEAN /\ l.d \in Limits

\* The limits count n bytes in the queue, and grant adj beyond those completed.
Counts(d, n) ==
  /\ Same(d.queued - d.completed, n)
  /\ Same(d.adj, d.limit + d.completed)

Halted(l) == l.s.device \/ l.s.limits

LEMMA PosdiffInt ==
  ASSUME NEW a \in Int, NEW b \in Int
  PROVE  Posdiff(a, b) \in Int
BY SignedInt DEF Posdiff, Larger

LEMMA LimitQueuedCounts ==
  ASSUME NEW d \in Limits, NEW n \in Int, NEW count \in Int, Counts(d, n)
  PROVE  LimitQueued(d, count) \in Limits /\ Counts(LimitQueued(d, count), n + count)
<1> DEFINE e == LimitQueued(d, count)
<1>1. /\ d.queued \in Int /\ d.completed \in Int /\ d.adj \in Int /\ d.limit \in 0 .. m_maxLimit /\ d.limit \in Int
      /\ d.queued + count \in Int /\ Unsigned(d.queued + count) \in Int
  BY UnsignedSame, WordIsPositive DEF Limits
<1>2. e \in Limits
  BY <1>1 DEF LimitQueued, Limits
<1>3. e.queued = Unsigned(d.queued + count) /\ e.completed = d.completed /\ e.adj = d.adj /\ e.limit = d.limit
  BY DEF LimitQueued, Limits
<1>4. Same(Unsigned(d.queued + count), d.queued + count)
  BY <1>1, UnsignedSame
<1>5. Same(Unsigned(d.queued + count) - d.completed, (d.queued + count) - d.completed)
  BY <1>1, <1>4, SameSum, SameReflexive
<1>6. Same((d.queued - d.completed) + count, n + count)
  <2>1. d.queued - d.completed \in Int /\ Same(d.queued - d.completed, n) /\ Same(count, count)
    BY <1>1, SameReflexive DEF Counts
  <2> QED
    BY <2>1, SameSum
<1>7. (d.queued - d.completed) + count = (d.queued + count) - d.completed
  BY <1>1
<1>8. Same(e.queued - e.completed, n + count)
  BY <1>1, <1>3, <1>5, <1>6, <1>7, SameTransitive
<1> HIDE DEF e
<1>9. Counts(e, n + count)
  BY <1>3, <1>8 DEF Counts
<1> QED
  BY <1>2, <1>9 DEF e

LEMMA CompletedCounts ==
  ASSUME NEW d \in Limits, NEW n \in Int, NEW count \in Int, NEW held \in BOOLEAN, Counts(d, n)
  PROVE  Completed(d, count, held) \in Limits /\ Counts(Completed(d, count, held), n - count)
<1>1. /\ d.queued \in Int /\ d.completed \in Int /\ d.adj \in Int /\ d.limit \in Int /\ d.last \in Int
      /\ d.prevQueued \in Int /\ d.prevLast \in Int /\ d.prevOver \in Int /\ d.slack \in Int
      /\ d.completed + count \in Int
  BY WordIsPositive DEF Limits
<1> DEFINE completed == Unsigned(d.completed + count)
           over == Posdiff(Unsigned(d.queued - d.completed), d.limit)
           inprogress == Unsigned(d.queued - completed)
           prevInprogress == Unsigned(d.prevQueued - d.completed)
           allPrevCompleted == Signed(completed - d.prevQueued) >= 0
           starved == (over > 0 /\ inprogress = 0) \/ (d.prevOver > 0 /\ allPrevCompleted)
           busy == inprogress # 0 /\ prevInprogress # 0 /\ ~allPrevCompleted
           unused == Larger(Posdiff(d.limit + d.prevOver, 2 * Unsigned(completed - d.completed)),
                            IF d.prevOver > 0 THEN Posdiff(d.prevLast, d.prevOver) ELSE 0)
           lowest == IF ~starved /\ busy THEN Smaller(d.slack, unused) ELSE d.slack
           wanted == CASE starved -> d.limit + Posdiff(completed, d.prevQueued) + d.prevOver
                       [] ~starved /\ busy /\ held -> Posdiff(d.limit, lowest)
                       [] OTHER -> d.limit
           limit == Smaller(Larger(wanted, m_minLimit), m_maxLimit)
           slack == IF starved \/ (busy /\ held) THEN Infinite ELSE lowest
           newOver == IF limit # d.limit THEN 0 ELSE over
           e == [d EXCEPT !.limit = limit, !.adj = Unsigned(limit + completed), !.completed = completed,
                          !.prevOver = newOver, !.prevLast = d.last, !.prevQueued = d.queued, !.slack = slack]
<1>2. Completed(d, count, held) = e
  BY Zenon DEF Completed
<1>3. completed \in Int
  BY <1>1, UnsignedSame
<1> HIDE DEF completed
<1>4. over \in Int
  <2>1. d.queued - d.completed \in Int
    BY <1>1
  <2>2. Unsigned(d.queued - d.completed) \in Int
    BY <2>1, UnsignedSame
  <2> QED
    BY <1>1, <2>2, PosdiffInt
<1>5. unused \in Int
  <2>1. Unsigned(completed - d.completed) \in Int
    BY <1>1, <1>3, UnsignedSame
  <2>2. Posdiff(d.limit + d.prevOver, 2 * Unsigned(completed - d.completed)) \in Int
    <3>1. d.limit + d.prevOver \in Int /\ 2 * Unsigned(completed - d.completed) \in Int
      BY <1>1, <2>1
    <3> QED
      BY <3>1, PosdiffInt
  <2>3. Posdiff(d.prevLast, d.prevOver) \in Int
    BY <1>1, PosdiffInt
  <2> QED
    BY <2>2, <2>3 DEF Larger
<1> HIDE DEF over, unused, starved, busy
<1>6. lowest \in Int
  BY <1>1, <1>5 DEF Smaller
<1> HIDE DEF lowest
<1>7. wanted \in Int
  <2>1. Posdiff(completed, d.prevQueued) \in Int /\ Posdiff(d.limit, lowest) \in Int
    BY <1>1, <1>3, <1>6, PosdiffInt
  <2> QED
    BY <1>1, <2>1
<1> HIDE DEF wanted
<1>8. limit \in 0 .. m_maxLimit /\ limit \in Int
  BY <1>7, WordIsPositive DEF Larger, Smaller
<1> HIDE DEF limit
<1>9. slack \in Int /\ newOver \in Int
  BY <1>4, <1>6, WordIsPositive DEF Infinite
<1> HIDE DEF slack, newOver
<1>10. Unsigned(limit + completed) \in Int /\ Same(Unsigned(limit + completed), limit + completed)
  BY <1>3, <1>8, UnsignedSame
<1>11. e \in Limits
  BY <1>1, <1>3, <1>8, <1>9, <1>10 DEF Limits
<1>12. e.queued = d.queued /\ e.completed = completed /\ e.adj = Unsigned(limit + completed) /\ e.limit = limit
  BY DEF Limits
<1>13. Same(completed, d.completed + count)
  BY <1>1, UnsignedSame DEF completed
<1>14. Same(d.queued - completed, d.queued - (d.completed + count))
  BY <1>1, <1>3, <1>13, SameSum, SameReflexive
<1>15. Same((d.queued - d.completed) - count, n - count)
  <2>1. d.queued - d.completed \in Int /\ Same(d.queued - d.completed, n) /\ Same(count, count)
    BY <1>1, SameReflexive DEF Counts
  <2> QED
    BY <2>1, SameSum
<1>16. (d.queued - d.completed) - count = d.queued - (d.completed + count)
  BY <1>1
<1>17. Same(d.queued - completed, n - count)
  BY <1>1, <1>3, <1>14, <1>15, <1>16, SameTransitive
<1> HIDE DEF e
<1>18. Counts(e, n - count)
  BY <1>10, <1>12, <1>17 DEF Counts
<1> QED
  BY <1>2, <1>11, <1>18

\* With nothing in the queue the whole limit is available.
LEMMA AvailableWhenEmpty ==
  ASSUME NEW d \in Limits, Counts(d, 0)
  PROVE  Available(d) = d.limit /\ d.limit >= 0
<1> DEFINE u == Unsigned(d.adj - d.queued)
<1>1. /\ d.queued \in Int /\ d.completed \in Int /\ d.adj \in Int /\ d.limit \in 0 .. m_maxLimit /\ d.limit \in Int
      /\ d.adj - d.queued \in Int
  BY WordIsPositive DEF Limits
<1>2. Same(d.adj - (d.queued - d.completed), (d.limit + d.completed) - 0)
  <2>1. /\ d.queued - d.completed \in Int /\ Same(d.queued - d.completed, 0) /\ 0 \in Int
        /\ d.limit + d.completed \in Int /\ Same(d.adj, d.limit + d.completed)
    BY <1>1 DEF Counts
  <2> QED
    BY <1>1, <2>1, SameSum
<1>3. Same((d.adj - (d.queued - d.completed)) - d.completed, ((d.limit + d.completed) - 0) - d.completed)
  <2>1. /\ d.adj - (d.queued - d.completed) \in Int /\ (d.limit + d.completed) - 0 \in Int
        /\ Same(d.completed, d.completed)
    BY <1>1, SameReflexive
  <2> QED
    BY <1>1, <1>2, <2>1, SameSum
<1>4. /\ (d.adj - (d.queued - d.completed)) - d.completed = d.adj - d.queued
      /\ ((d.limit + d.completed) - 0) - d.completed = d.limit
  BY <1>1
<1>5. Same(d.adj - d.queued, d.limit)
  BY <1>3, <1>4
<1>6. u \in 0 .. Word - 1 /\ Same(u, d.adj - d.queued)
  BY <1>1, UnsignedSame
<1>7. Same(u, d.limit)
  BY <1>1, <1>5, <1>6, SameTransitive, WordIsPositive
<1>8. d.limit \in 0 .. Word - 1
  BY <1>1, WordIsPositive
<1>9. u = d.limit
  BY <1>6, <1>7, <1>8, SameWord
<1>10. Available(d) = IF 2 * u >= Word THEN u - Word ELSE u
  BY DEF Available, Signed, Unsigned
<1> QED
  BY <1>1, <1>9, <1>10, WordIsPositive


\* What an EXCEPT makes of a record.
LEMMA UpdateField ==
  ASSUME NEW l, NEW q, NEW s, NEW w, NEW d, l = [q |-> q, s |-> s, w |-> w, d |-> d], NEW x, NEW m
  PROVE  /\ m = [l EXCEPT !.q = x] => m = [q |-> x, s |-> s, w |-> w, d |-> d]
         /\ m = [l EXCEPT !.s = x] => m = [q |-> q, s |-> x, w |-> w, d |-> d]
         /\ m = [l EXCEPT !.w = x] => m = [q |-> q, s |-> s, w |-> x, d |-> d]
         /\ m = [l EXCEPT !.d = x] => m = [q |-> q, s |-> s, w |-> w, d |-> x]
OBVIOUS

LEMMA UpdateLink ==
  ASSUME NEW l, NEW q, NEW a, NEW b, NEW w, NEW d,
         l = [q |-> q, s |-> [device |-> a, limits |-> b], w |-> w, d |-> d],
         NEW x, NEW y, NEW z, NEW m
  PROVE  /\ m = [l EXCEPT !.d = x, !.s.limits = y] =>
              m = [q |-> q, s |-> [device |-> a, limits |-> y], w |-> w, d |-> x]
         /\ m = [l EXCEPT !.d = x, !.s.limits = y, !.w = z] =>
              m = [q |-> q, s |-> [device |-> a, limits |-> y], w |-> z, d |-> x]
         /\ m = [l EXCEPT !.s.device = x] =>
              m = [q |-> q, s |-> [device |-> x, limits |-> b], w |-> w, d |-> d]
         /\ m = [l EXCEPT !.s.device = x, !.w = y] =>
              m = [q |-> q, s |-> [device |-> x, limits |-> b], w |-> y, d |-> d]
<1>0. l.s = [device |-> a, limits |-> b]
  OBVIOUS
<1>1. PICK l1 : l1 = [l EXCEPT !.d = x]
  OBVIOUS
<1>2. PICK s2 : s2 = [l.s EXCEPT !.limits = y]
  OBVIOUS
<1>3. PICK l2 : l2 = [l1 EXCEPT !.s = s2]
  OBVIOUS
<1>4. l1 = [q |-> q, s |-> [device |-> a, limits |-> b], w |-> w, d |-> x]
  BY <1>1, UpdateField
<1>5. s2 = [device |-> a, limits |-> y]
  BY <1>0, <1>2
<1>6. l2 = [q |-> q, s |-> s2, w |-> w, d |-> x]
  BY <1>3, <1>4, UpdateField
<1>7. l1.s = l.s
  BY <1>0, <1>4
<1>8. l2 = [l EXCEPT !.d = x, !.s.limits = y]
  BY <1>1, <1>2, <1>3, <1>7
<1>9. [l EXCEPT !.d = x, !.s.limits = y, !.w = z] = [l2 EXCEPT !.w = z]
  BY <1>8
<1>10. PICK s3 : s3 = [l.s EXCEPT !.device = x]
  OBVIOUS
<1>11. PICK l3 : l3 = [l EXCEPT !.s = s3]
  OBVIOUS
<1>12. s3 = [device |-> x, limits |-> b]
  BY <1>0, <1>10
<1>13. l3 = [q |-> q, s |-> s3, w |-> w, d |-> d]
  BY <1>11, UpdateField
<1>14. l3 = [l EXCEPT !.s.device = x]
  BY <1>10, <1>11
<1>15. [l EXCEPT !.s.device = x, !.w = y] = [l3 EXCEPT !.w = y]
  BY <1>14
<1>16. m = [l2 EXCEPT !.w = z] => m = [q |-> q, s |-> s2, w |-> z, d |-> x]
  BY <1>6, UpdateField
<1>17. m = [l3 EXCEPT !.w = y] => m = [q |-> q, s |-> s3, w |-> y, d |-> d]
  BY <1>13, UpdateField
<1> QED
  BY <1>5, <1>6, <1>8, <1>9, <1>12, <1>13, <1>14, <1>15, <1>16, <1>17, Zenon

\* What enqueuing and dequeuing make of the link, field by field.
LEMMA Enqueued ==
  ASSUME NEW l, IsLink(l), NEW p \in Packets
  PROVE  LET d == LimitQueued(l.d, BytesOf[p])
         IN DoEnqueue(l, p) =
              [q |-> Append(l.q, p),
               s |-> [device |-> l.s.device \/ WouldOverflow(Append(l.q, p)),
                      limits |-> l.s.limits \/ Available(d) < 0],
               w |-> l.w, d |-> d]
<1>1. PICK q, a, b, w, d : q = l.q /\ a = l.s.device /\ b = l.s.limits /\ w = l.w /\ d = l.d
  OBVIOUS
<1>2. l = [q |-> q, s |-> [device |-> a, limits |-> b], w |-> w, d |-> d]
  BY <1>1 DEF IsLink, Flags
<1>3. PICK after, counted : after = Append(l.q, p) /\ counted = LimitQueued(l.d, BytesOf[p])
  OBVIOUS
<1>4. PICK device, limits : /\ device = (l.s.device \/ WouldOverflow(after))
                           /\ limits = (l.s.limits \/ Available(counted) < 0)
  OBVIOUS
<1>5. PICK l1 : l1 = [l EXCEPT !.q = after]
  OBVIOUS
<1>6. l1 = [q |-> after, s |-> [device |-> a, limits |-> b], w |-> w, d |-> d]
  BY <1>2, <1>5, UpdateField
<1>7. PICK n : n = [l1 EXCEPT !.d = counted, !.s.limits = limits]
  OBVIOUS
<1>8. n = [q |-> after, s |-> [device |-> a, limits |-> limits], w |-> w, d |-> counted]
  BY <1>6, <1>7, UpdateLink, Zenon
<1>9. PICK m : m = [n EXCEPT !.s.device = device]
  OBVIOUS
<1>10. m = [q |-> after, s |-> [device |-> device, limits |-> limits], w |-> w, d |-> counted]
  BY <1>8, <1>9, UpdateLink, Zenon
<1>11. DoEnqueue(l, p) = m
  <2>1. /\ l1.q = after /\ l1.d = l.d /\ l1.s.limits = l.s.limits
        /\ n.s.device = l.s.device
    BY <1>1, <1>6, <1>8
  <2>2. DoEnqueue(l, p) = PacketEnqueued(l1, p)
    BY <1>3, <1>5, Zenon DEF DoEnqueue
  <2>3. NotifyQueuedBytes(l1, p) = n
    BY <1>3, <1>4, <1>7, <2>1, Zenon DEF NotifyQueuedBytes
  <2>4. PacketEnqueued(l1, p) = m
    BY <1>4, <1>9, <2>1, <2>3, Zenon DEF PacketEnqueued
  <2> QED
    BY <2>2, <2>4, Zenon
<1> QED
  BY <1>1, <1>3, <1>4, <1>10, <1>11, Zenon

LEMMA Dequeued ==
  ASSUME NEW l, IsLink(l), NEW held \in BOOLEAN
  PROVE  LET d == Completed(l.d, BytesOf[Head(l.q)], held)
             o == WouldOverflow(Tail(l.q))
             w == l.w \/ (l.s.limits /\ Available(d) >= 0)
         IN DoDequeue(l, held) =
              [q |-> Tail(l.q),
               s |-> [device |-> l.s.device /\ o, limits |-> l.s.limits /\ Available(d) < 0],
               w |-> w \/ (l.s.device /\ ~o), d |-> d]
<1>1. PICK q, a, b, w, d : q = l.q /\ a = l.s.device /\ b = l.s.limits /\ w = l.w /\ d = l.d
  OBVIOUS
<1>2. /\ l = [q |-> q, s |-> [device |-> a, limits |-> b], w |-> w, d |-> d]
      /\ a \in BOOLEAN /\ b \in BOOLEAN /\ w \in BOOLEAN
  BY <1>1 DEF IsLink, Flags
<1>3. PICK p, after : p = Head(l.q) /\ after = Tail(l.q)
  OBVIOUS
<1>4. PICK counted : counted = Completed(l.d, BytesOf[p], held)
  OBVIOUS
<1>5. PICK o, limits, called, woken :
        /\ o = WouldOverflow(after)
        /\ limits = (l.s.limits /\ Available(counted) < 0)
        /\ called = (l.w \/ (l.s.limits /\ Available(counted) >= 0))
        /\ woken = (called \/ l.s.device)
  OBVIOUS
<1>6. PICK l1 : l1 = [l EXCEPT !.q = after]
  OBVIOUS
<1>7. l1 = [q |-> after, s |-> [device |-> a, limits |-> b], w |-> w, d |-> d]
  BY <1>2, <1>6, UpdateField
<1>8. PICK n : n = [l1 EXCEPT !.d = counted, !.s.limits = limits, !.w = called]
  OBVIOUS
<1>9. n = [q |-> after, s |-> [device |-> a, limits |-> limits], w |-> called, d |-> counted]
  BY <1>7, <1>8, UpdateLink, Zenon
<1>10. PICK m : m = [n EXCEPT !.s.device = FALSE, !.w = woken]
  OBVIOUS
<1>11. m = [q |-> after, s |-> [device |-> FALSE, limits |-> limits], w |-> woken, d |-> counted]
  BY <1>9, <1>10, UpdateLink, Zenon
<1>12. DoDequeue(l, held) = IF o THEN n ELSE m
  <2>1. /\ l1.q = after /\ l1.d = l.d /\ l1.s.limits = l.s.limits /\ l1.w = l.w
        /\ n.s.device = l.s.device /\ n.w = called
    BY <1>1, <1>7, <1>9
  <2>2. DoDequeue(l, held) = PacketDequeued(l1, p, held)
    BY <1>3, <1>6, Zenon DEF DoDequeue
  <2>3. NotifyTransmittedBytes(l1, p, held) = n
    BY <1>4, <1>5, <1>8, <2>1, Zenon DEF NotifyTransmittedBytes
  <2>4. Wake(n) = m
    BY <1>5, <1>10, <2>1, Zenon DEF Wake
  <2>5. PacketDequeued(l1, p, held) = IF o THEN n ELSE m
    BY <1>5, <2>1, <2>3, <2>4, Zenon DEF PacketDequeued
  <2> QED
    BY <2>2, <2>5, Zenon
<1>13. o \in BOOLEAN /\ called \in BOOLEAN
  BY <1>1, <1>2, <1>5 DEF WouldOverflow
<1>14. DoDequeue(l, held) =
        [q |-> after, s |-> [device |-> a /\ o, limits |-> limits], w |-> called \/ (a /\ ~o), d |-> counted]
  <2>1. CASE o
    <3>1. (a /\ o) = a /\ (called \/ (a /\ ~o)) = called
      BY <1>2, <1>13, <2>1
    <3> QED
      BY <1>9, <1>12, <2>1, <3>1, Zenon
  <2>2. CASE ~o
    <3>1. (a /\ o) = FALSE /\ (called \/ (a /\ ~o)) = woken
      BY <1>1, <1>2, <1>5, <1>13, <2>2
    <3> QED
      BY <1>11, <1>12, <2>2, <3>1, Zenon
  <2> QED
    BY <2>1, <2>2
<1> QED
  BY <1>1, <1>3, <1>4, <1>5, <1>14, Zenon

\* A dequeue that leaves nothing behind, or less than would stop the queue,
\* starts it and calls back; an enqueue calls nobody.
LEMMA EnqueueLink ==
  ASSUME NEW l, IsLink(l), Counts(l.d, QueueBytes(l.q)), NEW p \in Packets,
         NEW m, m = DoEnqueue(l, p)
  PROVE  /\ IsLink(m) /\ Counts(m.d, QueueBytes(m.q))
         /\ m.q = Append(l.q, p) /\ m.w = l.w
         /\ Halted(l) => Halted(m)
<1> DEFINE d == LimitQueued(l.d, BytesOf[p])
           b == Available(d) < 0
           o == WouldOverflow(Append(l.q, p))
<1>1. /\ l.s.device \in BOOLEAN /\ l.s.limits \in BOOLEAN /\ l.w \in BOOLEAN /\ l.d \in Limits
      /\ l.q \in Seq(Packets)
  BY DEF IsLink, Flags
<1>2. BytesOf[p] \in Int /\ QueueBytes(l.q) \in Int /\ QueueBytes(Append(l.q, p)) = QueueBytes(l.q) + BytesOf[p]
  BY <1>1, SizesAreNumbers, QueueBytesAppend
<1>3. d \in Limits /\ Counts(d, QueueBytes(Append(l.q, p)))
  BY <1>1, <1>2, LimitQueuedCounts
<1>4. m = [q |-> Append(l.q, p), s |-> [device |-> l.s.device \/ o, limits |-> l.s.limits \/ b],
           w |-> l.w, d |-> d]
  BY Enqueued, Zenon
<1>5. o \in BOOLEAN /\ b \in BOOLEAN /\ Append(l.q, p) \in Seq(Packets)
  BY <1>1 DEF WouldOverflow
<1> HIDE DEF d, o, b
<1>6. /\ m.q = Append(l.q, p) /\ m.w = l.w /\ m.d = d
      /\ m.s = [device |-> l.s.device \/ o, limits |-> l.s.limits \/ b]
  BY <1>4
<1>7. m.s \in Flags /\ (m.s.device <=> l.s.device \/ o) /\ (m.s.limits <=> l.s.limits \/ b)
  BY <1>1, <1>5, <1>6 DEF Flags
<1>8. IsLink(m)
  <2>1. m = [q |-> m.q, s |-> m.s, w |-> m.w, d |-> m.d]
    BY <1>4, <1>6, Zenon
  <2> QED
    BY <1>1, <1>3, <1>5, <1>6, <1>7, <2>1, Zenon DEF IsLink
<1>9. Counts(m.d, QueueBytes(m.q))
  BY <1>3, <1>6, Zenon
<1> QED
  BY <1>6, <1>7, <1>8, <1>9, Zenon DEF Halted

LEMMA DequeueLink ==
  ASSUME NEW l, IsLink(l), Counts(l.d, QueueBytes(l.q)), l.q # << >>, NEW held \in BOOLEAN,
         NEW m, m = DoDequeue(l, held)
  PROVE  /\ IsLink(m) /\ Counts(m.d, QueueBytes(m.q))
         /\ m.q = Tail(l.q)
         /\ l.w => m.w
         /\ Halted(l) /\ ~Halted(m) => m.w
         /\ m.q = << >> => ~Halted(m)
<1> DEFINE p == Head(l.q)
           d == Completed(l.d, BytesOf[p], held)
           b == Available(d) < 0
           c == Available(d) >= 0
           o == WouldOverflow(Tail(l.q))
<1>1. /\ l.s.device \in BOOLEAN /\ l.s.limits \in BOOLEAN /\ l.w \in BOOLEAN /\ l.d \in Limits
      /\ l.q \in Seq(Packets) /\ Tail(l.q) \in Seq(Packets) /\ p \in Packets
  BY DEF IsLink, Flags
<1>2. /\ BytesOf[p] \in Int /\ QueueBytes(l.q) \in Int /\ QueueBytes(Tail(l.q)) \in Int
      /\ QueueBytes(Tail(l.q)) = QueueBytes(l.q) - BytesOf[p]
  BY <1>1, SizesAreNumbers, QueueBytesTail
<1>3. d \in Limits /\ Counts(d, QueueBytes(Tail(l.q)))
  BY <1>1, <1>2, CompletedCounts
<1>4. m = [q |-> Tail(l.q), s |-> [device |-> l.s.device /\ o, limits |-> l.s.limits /\ b],
           w |-> (l.w \/ (l.s.limits /\ c)) \/ (l.s.device /\ ~o), d |-> d]
  BY Dequeued, Zenon
<1>5. o \in BOOLEAN /\ b \in BOOLEAN /\ c \in BOOLEAN
  BY DEF WouldOverflow
<1>6. c <=> ~b
  <2>1. Available(d) \in Int
    <3>1. d.adj \in Int /\ d.queued \in Int /\ d.adj - d.queued \in Int
      BY <1>3 DEF Limits
    <3> HIDE DEF d
    <3> QED
      BY <3>1, SignedInt DEF Available
  <2> QED
    BY <2>1
<1>7. Tail(l.q) = << >> => ~o /\ ~b
  <2>1. SUFFICES ASSUME Tail(l.q) = << >> PROVE ~o /\ ~b
    OBVIOUS
  <2>2. QueueBytes(Tail(l.q)) = 0
    BY <2>1, QueueBytesEmpty
  <2>3. ~o
    BY <2>2, SizesAreNumbers DEF WouldOverflow
  <2>4. Available(d) = d.limit /\ d.limit >= 0
    BY <1>3, <2>2, AvailableWhenEmpty
  <2>5. d.limit \in Int
    BY <1>3, WordIsPositive DEF Limits
  <2> QED
    BY <2>3, <2>4, <2>5
<1> HIDE DEF d, o, b, c
<1>8. /\ m.q = Tail(l.q) /\ m.d = d
      /\ m.w = ((l.w \/ (l.s.limits /\ c)) \/ (l.s.device /\ ~o))
      /\ m.s = [device |-> l.s.device /\ o, limits |-> l.s.limits /\ b]
  BY <1>4
<1>9. m.s \in Flags /\ (m.s.device <=> l.s.device /\ o) /\ (m.s.limits <=> l.s.limits /\ b) /\ m.w \in BOOLEAN
  BY <1>1, <1>5, <1>8 DEF Flags
<1>10. IsLink(m)
  <2>1. m = [q |-> m.q, s |-> m.s, w |-> m.w, d |-> m.d]
    BY <1>4, <1>8, Zenon
  <2> QED
    BY <1>1, <1>3, <1>8, <1>9, <2>1, Zenon DEF IsLink
<1>11. Counts(m.d, QueueBytes(m.q))
  BY <1>3, <1>8, Zenon
<1>12. m.w <=> (l.w \/ (l.s.limits /\ c)) \/ (l.s.device /\ ~o)
  BY <1>8, Zenon
<1> QED
  BY <1>6, <1>7, <1>8, <1>9, <1>10, <1>11, <1>12, Zenon DEF Halted


(***************************************************************************)
(* Sequences of packets that only rise.                                    *)
(***************************************************************************)

Rising(s) == \A i, j \in DOMAIN s : i < j => s[i] < s[j]
Elements(s) == {s[i] : i \in DOMAIN s}
Below(S, T) == \A a \in S, b \in T : a < b

Flights == [p : Packets, at : Nat]
PacketsOf(w) == [i \in DOMAIN w |-> w[i].p]

LEMMA AppendRising ==
  ASSUME NEW s \in Seq(Int), NEW p \in Int
  PROVE  /\ Rising(s) /\ Below(Elements(s), {p}) => Rising(Append(s, p))
         /\ Elements(Append(s, p)) = Elements(s) \cup {p}
<1> DEFINE r == Append(s, p)
<1>1. /\ Len(s) \in Nat /\ Len(r) = Len(s) + 1 /\ r[Len(s) + 1] = p
      /\ DOMAIN s = 1 .. Len(s) /\ DOMAIN r = 1 .. Len(s) + 1
      /\ \A i \in 1 .. Len(s) : r[i] = s[i] /\ s[i] \in Int
  OBVIOUS
<1> HIDE DEF r
<1>2. ASSUME Rising(s), Below(Elements(s), {p})
      PROVE  Rising(r)
  <2>1. \A i \in 1 .. Len(s) : s[i] < p
    BY <1>1, <1>2 DEF Below, Elements
  <2>2. \A i, j \in 1 .. Len(s) : i < j => s[i] < s[j]
    BY <1>1, <1>2 DEF Rising
  <2>3. SUFFICES ASSUME NEW i \in 1 .. Len(s) + 1, NEW j \in 1 .. Len(s) + 1, i < j
                 PROVE  r[i] < r[j]
    BY <1>1 DEF Rising
  <2> QED
    BY <1>1, <2>1, <2>2, <2>3
<1>3. Elements(r) = Elements(s) \cup {p}
  BY <1>1 DEF Elements
<1> QED
  BY <1>2, <1>3 DEF r

LEMMA TailRising ==
  ASSUME NEW s \in Seq(Int), s # << >>, Rising(s)
  PROVE  /\ Rising(Tail(s))
         /\ Elements(s) = Elements(Tail(s)) \cup {Head(s)} /\ Head(s) \notin Elements(Tail(s))
         /\ Below({Head(s)}, Elements(Tail(s)))
<1> DEFINE t == Tail(s)
<1>1. /\ Len(s) \in Nat /\ Len(s) > 0 /\ Head(s) = s[1]
      /\ DOMAIN s = 1 .. Len(s) /\ DOMAIN t = 1 .. Len(s) - 1
      /\ \A i \in 1 .. Len(s) - 1 : t[i] = s[i + 1]
      /\ \A i \in 1 .. Len(s) : s[i] \in Int
  OBVIOUS
<1> HIDE DEF t
<1>2. \A i, j \in 1 .. Len(s) : i < j => s[i] < s[j]
  BY <1>1 DEF Rising
<1>3. Rising(t)
  BY SMTT(40), <1>1, <1>2 DEF Rising
<1>4. Below({Head(s)}, Elements(t))
  BY <1>1, <1>2 DEF Below, Elements
<1>5. Elements(s) = Elements(t) \cup {Head(s)}
  <2>1. ASSUME NEW i \in 1 .. Len(s) PROVE s[i] \in Elements(t) \cup {Head(s)}
    <3>1. CASE i = 1
      BY <1>1, <3>1
    <3>2. CASE i > 1
      <4>1. i - 1 \in 1 .. Len(s) - 1 /\ (i - 1) + 1 = i
        BY <1>1, <3>2
      <4> QED
        BY ZenonT(40), <1>1, <4>1 DEF Elements
    <3> QED
      BY <3>1, <3>2
  <2>2. ASSUME NEW i \in 1 .. Len(s) - 1 PROVE t[i] \in Elements(s)
    <3>1. i + 1 \in 1 .. Len(s) /\ t[i] = s[i + 1]
      BY <1>1
    <3> QED
      BY <1>1, <3>1 DEF Elements
  <2>3. Head(s) \in Elements(s)
    BY <1>1 DEF Elements
  <2> QED
    BY ZenonT(40), <1>1, <2>1, <2>2, <2>3 DEF Elements
<1>6. Head(s) \notin Elements(t)
  <2>1. Head(s) \in Int
    BY <1>1
  <2> QED
    BY <1>4, <2>1 DEF Below
<1> QED
  BY <1>3, <1>4, <1>5, <1>6 DEF t

LEMMA ConcatRising ==
  ASSUME NEW s \in Seq(Int), NEW t \in Seq(Int), Rising(s), Rising(t), Below(Elements(s), Elements(t))
  PROVE  /\ s \o t \in Seq(Int)
         /\ Rising(s \o t) /\ Elements(s \o t) = Elements(s) \cup Elements(t)
<1> DEFINE r == s \o t
<1>1. /\ Len(s) \in Nat /\ Len(t) \in Nat /\ r \in Seq(Int)
      /\ DOMAIN s = 1 .. Len(s) /\ DOMAIN t = 1 .. Len(t) /\ DOMAIN r = 1 .. Len(s) + Len(t)
      /\ \A i \in 1 .. Len(s) : r[i] = s[i] /\ s[i] \in Int
      /\ \A i \in 1 .. Len(t) : t[i] \in Int
  OBVIOUS
<1>2. \A i \in Len(s) + 1 .. Len(s) + Len(t) : r[i] = t[i - Len(s)] /\ i - Len(s) \in 1 .. Len(t)
  BY ConcatProperties
<1>3. \A i \in 1 .. Len(t) : r[Len(s) + i] = t[i]
  BY <1>1, <1>2
<1> HIDE DEF r
<1>4. Rising(r)
  <2>1. SUFFICES ASSUME NEW i \in 1 .. Len(s) + Len(t), NEW j \in 1 .. Len(s) + Len(t), i < j
                 PROVE  r[i] < r[j]
    BY <1>1 DEF Rising
  <2>2. CASE j <= Len(s)
    <3>1. i \in 1 .. Len(s) /\ j \in 1 .. Len(s) /\ r[i] = s[i] /\ r[j] = s[j]
      BY SMTT(40), <1>1, <2>1, <2>2
    <3> QED
      BY <1>1, <2>1, <3>1 DEF Rising
  <2>3. CASE i <= Len(s) /\ j > Len(s)
    <3>1. r[i] = s[i] /\ r[j] = t[j - Len(s)] /\ j - Len(s) \in 1 .. Len(t) /\ i \in 1 .. Len(s)
      BY SMTT(40), <1>1, <1>2, <2>3
    <3>2. r[i] \in Elements(s) /\ r[j] \in Elements(t)
      BY <1>1, <3>1 DEF Elements
    <3> QED
      BY <3>2 DEF Below
  <2>4. CASE i > Len(s)
    <3>1. /\ r[i] = t[i - Len(s)] /\ i - Len(s) \in 1 .. Len(t)
          /\ r[j] = t[j - Len(s)] /\ j - Len(s) \in 1 .. Len(t)
          /\ i - Len(s) < j - Len(s)
      BY SMTT(40), <1>1, <1>2, <2>1, <2>4
    <3> QED
      BY <1>1, <3>1 DEF Rising
  <2> QED
    BY SMTT(40), <1>1, <2>2, <2>3, <2>4
<1>5. Elements(r) = Elements(s) \cup Elements(t)
  <2>1. ASSUME NEW i \in 1 .. Len(s) + Len(t) PROVE r[i] \in Elements(s) \cup Elements(t)
    <3>1. CASE i <= Len(s)
      <4>1. i \in 1 .. Len(s) /\ r[i] = s[i]
        BY <1>1, <3>1
      <4> QED
        BY <1>1, <4>1 DEF Elements
    <3>2. CASE i > Len(s)
      <4>1. r[i] = t[i - Len(s)] /\ i - Len(s) \in 1 .. Len(t)
        BY <1>1, <1>2, <3>2
      <4> QED
        BY <1>1, <4>1 DEF Elements
    <3> QED
      BY <1>1, <3>1, <3>2
  <2>2. ASSUME NEW i \in 1 .. Len(s) PROVE s[i] \in Elements(r)
    <3>1. i \in 1 .. Len(s) + Len(t) /\ r[i] = s[i]
      BY <1>1
    <3> QED
      BY <1>1, <3>1 DEF Elements
  <2>3. ASSUME NEW i \in 1 .. Len(t) PROVE t[i] \in Elements(r)
    <3>1. Len(s) + i \in 1 .. Len(s) + Len(t)
      BY <1>1
    <3> QED
      BY <1>1, <1>3, <3>1 DEF Elements
  <2> QED
    BY ZenonT(40), <1>1, <2>1, <2>2, <2>3 DEF Elements
<1> QED
  BY <1>1, <1>4, <1>5 DEF r

LEMMA PacketsOfWire ==
  ASSUME NEW w \in Seq(Flights)
  PROVE  /\ PacketsOf(w) \in Seq(Packets) /\ PacketsOf(w) \in Seq(Int)
         /\ \A f \in Flights : PacketsOf(Append(w, f)) = Append(PacketsOf(w), f.p)
         /\ w # << >> => /\ PacketsOf(w) # << >> /\ Head(PacketsOf(w)) = Head(w).p
                         /\ PacketsOf(Tail(w)) = Tail(PacketsOf(w))
<1> DEFINE v == PacketsOf(w)
<1>1. Len(w) \in Nat /\ DOMAIN w = 1 .. Len(w) /\ \A i \in 1 .. Len(w) : w[i] \in Flights /\ w[i].p \in Packets
  <2>1. Len(w) \in Nat /\ DOMAIN w = 1 .. Len(w) /\ \A i \in 1 .. Len(w) : w[i] \in Flights
    OBVIOUS
  <2>2. \A f \in Flights : f.p \in Packets
    BY DEF Flights
  <2> QED
    BY <2>1, <2>2
<1>2. v = [i \in 1 .. Len(w) |-> w[i].p]
  BY <1>1 DEF PacketsOf
<1>3. v \in Seq(Packets) /\ v \in Seq(Int) /\ Len(v) = Len(w)
  <2>1. v \in [1 .. Len(w) -> Packets]
    BY <1>1, <1>2
  <2>2. Packets \subseteq Int
    BY DEF Packets
  <2>3. v \in [1 .. Len(w) -> Int]
    BY <2>1, <2>2
  <2> HIDE DEF v
  <2> QED
    BY <1>1, <2>1, <2>3
<1>4. \A f \in Flights : PacketsOf(Append(w, f)) = Append(v, f.p)
  <2>1. SUFFICES ASSUME NEW f \in Flights PROVE PacketsOf(Append(w, f)) = Append(v, f.p)
    OBVIOUS
  <2> DEFINE u == Append(w, f)
             x == PacketsOf(u)
             y == Append(v, f.p)
  <2>2. DOMAIN u = 1 .. Len(w) + 1 /\ u[Len(w) + 1] = f /\ \A i \in 1 .. Len(w) : u[i] = w[i]
    BY <1>1
  <2>3. DOMAIN y = 1 .. Len(w) + 1 /\ y[Len(w) + 1] = f.p /\ \A i \in 1 .. Len(w) : y[i] = v[i]
    BY <1>3, <1>1
  <2>4. y = [i \in 1 .. Len(w) + 1 |-> y[i]]
    BY <1>3, <2>3
  <2>5. x = [i \in 1 .. Len(w) + 1 |-> u[i].p]
    BY <2>2 DEF PacketsOf
  <2> HIDE DEF u, x, y
  <2>6. \A i \in 1 .. Len(w) + 1 : u[i].p = y[i]
    BY <1>1, <1>2, <2>2, <2>3
  <2>7. x = y
    BY <2>4, <2>5, <2>6
  <2> QED
    BY <2>7 DEF u, x, y
<1>5. ASSUME w # << >>
      PROVE  v # << >> /\ Head(v) = Head(w).p /\ PacketsOf(Tail(w)) = Tail(v)
  <2>1. Len(w) > 0 /\ v # << >> /\ Head(v) = v[1] /\ Head(w) = w[1]
    BY <1>1, <1>3, <1>5
  <2> DEFINE u == Tail(w)
             x == PacketsOf(u)
             y == Tail(v)
  <2>2. DOMAIN u = 1 .. Len(w) - 1 /\ \A i \in 1 .. Len(w) - 1 : u[i] = w[i + 1]
    BY <1>1, <1>5
  <2>3. DOMAIN y = 1 .. Len(w) - 1 /\ \A i \in 1 .. Len(w) - 1 : y[i] = v[i + 1]
    BY <1>3, <1>1, <2>1
  <2>4. y = [i \in 1 .. Len(w) - 1 |-> y[i]]
    <3>1. y \in Seq(Packets)
      BY <1>3, <2>1
    <3> HIDE DEF y
    <3>2. y \in [1 .. Len(y) -> Packets]
      BY <3>1
    <3> QED
      BY <2>3, <3>2
  <2>5. x = [i \in 1 .. Len(w) - 1 |-> u[i].p]
    BY <2>2 DEF PacketsOf
  <2> HIDE DEF u, x, y
  <2>6. \A i \in 1 .. Len(w) - 1 : u[i].p = y[i]
    BY <1>1, <1>2, <2>2, <2>3
  <2>7. x = y
    BY <2>4, <2>5, <2>6
  <2>8. v[1] = w[1].p
    BY <1>1, <1>2, <2>1
  <2> QED
    BY <2>1, <2>7, <2>8 DEF u, x, y
<1> QED
  BY <1>3, <1>4, <1>5


(***************************************************************************)
(* The inductive invariant.                                                *)
(***************************************************************************)

LinkTypes ==
  /\ backlog \in 1 .. Len(BytesOf) + 1 /\ m_currentPkt \in 0 .. Len(BytesOf)
  /\ txQueue \in Seq(Packets) /\ stopped \in Flags /\ wake \in BOOLEAN /\ dql \in Limits
  /\ onWire \in Seq(Flights) /\ done \in Nat /\ tick \in Nat
  /\ arrived \in Seq(Packets) /\ dropped \subseteq Packets /\ refused \in BOOLEAN

\* The limits count the bytes that are in the queue.
LimitsCount == Counts(dql, QueueBytes(txQueue))

\* The device is busy until the tick it is done at, and what it has sent arrives
\* at most the delay of the channel later.
Timing ==
  /\ m_currentPkt # 0 => tick <= done
  /\ m_currentPkt = 0 => done <= tick
  /\ \A i \in DOMAIN onWire : onWire[i].at <= done + Delay

\* The packets before n arrived as a, cross as w and wait as q, in the order in
\* which they were sent, or were dropped and are in none of the three.
Turn(a, w, q, gone, n) ==
  /\ Rising(a) /\ Rising(w) /\ Rising(q)
  /\ Below(Elements(a), Elements(w)) /\ Below(Elements(a), Elements(q)) /\ Below(Elements(w), Elements(q))
  /\ (Elements(a) \cup Elements(w) \cup Elements(q)) \cup gone = 1 .. n - 1
  /\ (Elements(a) \cup Elements(w) \cup Elements(q)) \cap gone = {}

InTurn == Turn(arrived, PacketsOf(onWire), txQueue, dropped, backlog)

LinkInv ==
  /\ LinkTypes /\ LimitsCount
  /\ StoppedWillStart /\ NoMissedWake
  /\ Timing /\ OneAtATime
  /\ InTurn


LEMMA LinkFields ==
  ASSUME LinkTypes
  PROVE  /\ IsLink(Link) /\ Link.q = txQueue /\ Link.s = stopped /\ Link.w = wake /\ Link.d = dql
         /\ Halted(Link) <=> IsStopped
<1>1. Link.q = txQueue /\ Link.s = stopped /\ Link.w = wake /\ Link.d = dql
  BY DEF Link
<1>2. Link = [q |-> Link.q, s |-> Link.s, w |-> Link.w, d |-> Link.d]
  BY <1>1, Zenon DEF Link
<1>3. IsLink(Link)
  BY <1>1, <1>2, Zenon DEF IsLink, LinkTypes
<1> QED
  BY <1>1, <1>3, Zenon DEF Halted, IsStopped

LEMMA LinkIsSet ==
  ASSUME NEW m, IsLink(m), Counts(m.d, QueueBytes(m.q)), SetLink(m)
  PROVE  /\ txQueue' \in Seq(Packets) /\ stopped' \in Flags /\ wake' \in BOOLEAN /\ dql' \in Limits
         /\ txQueue' = m.q /\ wake' = m.w
         /\ IsStopped' <=> Halted(m)
         /\ LimitsCount'
<1>1. txQueue' = m.q /\ stopped' = m.s /\ wake' = m.w /\ dql' = m.d
  BY DEF SetLink
<1>2. LimitsCount'
  BY <1>1, Zenon DEF LimitsCount
<1>3. IsStopped' <=> Halted(m)
  BY <1>1, Zenon DEF IsStopped, Halted
<1> QED
  BY <1>1, <1>2, <1>3, Zenon DEF IsLink

LEMMA DequeueStep ==
  ASSUME LinkTypes, LimitsCount, txQueue # << >>, NEW held \in BOOLEAN, SetLink(DoDequeue(Link, held))
  PROVE  /\ txQueue' \in Seq(Packets) /\ stopped' \in Flags /\ wake' \in BOOLEAN /\ dql' \in Limits
         /\ txQueue' = Tail(txQueue) /\ LimitsCount'
         /\ wake => wake'
         /\ IsStopped /\ ~IsStopped' => wake'
         /\ txQueue' = << >> => ~IsStopped'
<1>1. PICK l : l = Link
  OBVIOUS
<1>2. PICK m : m = DoDequeue(l, held)
  OBVIOUS
<1>3. /\ IsLink(l) /\ Counts(l.d, QueueBytes(l.q)) /\ l.q # << >>
      /\ l.q = txQueue /\ l.w = wake /\ (Halted(l) <=> IsStopped)
  BY <1>1, LinkFields, Zenon DEF LimitsCount
<1>4. /\ IsLink(m) /\ Counts(m.d, QueueBytes(m.q)) /\ m.q = Tail(l.q) /\ (l.w => m.w)
      /\ (Halted(l) /\ ~Halted(m) => m.w) /\ (m.q = << >> => ~Halted(m))
  BY <1>2, <1>3, DequeueLink, Zenon
<1>5. SetLink(m)
  BY <1>1, <1>2, Zenon
<1> QED
  BY <1>3, <1>4, <1>5, LinkIsSet, Zenon

LEMMA EnqueueStep ==
  ASSUME LinkTypes, LimitsCount, NEW p \in Packets, SetLink(DoEnqueue(Link, p))
  PROVE  /\ txQueue' \in Seq(Packets) /\ stopped' \in Flags /\ wake' \in BOOLEAN /\ dql' \in Limits
         /\ txQueue' = Append(txQueue, p) /\ LimitsCount'
         /\ wake' = wake /\ (IsStopped => IsStopped')
<1>1. PICK l : l = Link
  OBVIOUS
<1>2. PICK m : m = DoEnqueue(l, p)
  OBVIOUS
<1>3. /\ IsLink(l) /\ Counts(l.d, QueueBytes(l.q))
      /\ l.q = txQueue /\ l.w = wake /\ (Halted(l) <=> IsStopped)
  BY <1>1, LinkFields, Zenon DEF LimitsCount
<1>4. /\ IsLink(m) /\ Counts(m.d, QueueBytes(m.q)) /\ m.q = Append(l.q, p) /\ m.w = l.w
      /\ (Halted(l) => Halted(m))
  BY <1>2, <1>3, EnqueueLink, Zenon
<1>5. SetLink(m)
  BY <1>1, <1>2, Zenon
<1> QED
  BY <1>3, <1>4, <1>5, LinkIsSet, Zenon

\* A packet that is enqueued and dequeued at once.
LEMMA PassStep ==
  ASSUME LinkTypes, LimitsCount, txQueue = << >>, NEW p \in Packets, NEW held \in BOOLEAN,
         SetLink(DoDequeue(DoEnqueue(Link, p), held))
  PROVE  /\ txQueue' \in Seq(Packets) /\ stopped' \in Flags /\ wake' \in BOOLEAN /\ dql' \in Limits
         /\ txQueue' = << >> /\ LimitsCount'
         /\ Head(DoEnqueue(Link, p).q) = p
         /\ wake => wake'
         /\ ~IsStopped'
<1>1. PICK l : l = Link
  OBVIOUS
<1>2. PICK e : e = DoEnqueue(l, p)
  OBVIOUS
<1>3. PICK m : m = DoDequeue(e, held)
  OBVIOUS
<1>4. IsLink(l) /\ Counts(l.d, QueueBytes(l.q)) /\ l.q = << >> /\ l.w = wake
  BY <1>1, LinkFields, Zenon DEF LimitsCount
<1>5. IsLink(e) /\ Counts(e.d, QueueBytes(e.q)) /\ e.q = Append(l.q, p) /\ e.w = l.w
  BY <1>2, <1>4, EnqueueLink, Zenon
<1>6. e.q = Append(<< >>, p)
  BY <1>4, <1>5, Zenon
<1>7. e.q # << >> /\ Head(e.q) = p /\ Tail(e.q) = << >>
  BY <1>6
<1>8. /\ IsLink(m) /\ Counts(m.d, QueueBytes(m.q)) /\ m.q = << >> /\ (e.w => m.w) /\ ~Halted(m)
  BY <1>3, <1>5, <1>7, DequeueLink, Zenon
<1>9. SetLink(m)
  BY <1>1, <1>2, <1>3, Zenon
<1>10. Head(DoEnqueue(Link, p).q) = p
  BY <1>1, <1>2, <1>7, Zenon
<1> QED
  BY <1>4, <1>5, <1>8, <1>9, <1>10, LinkIsSet, Zenon

LEMMA DiscardStep ==
  ASSUME LinkTypes, LimitsCount, SetLink(PacketDiscarded(Link))
  PROVE  /\ txQueue' = txQueue /\ stopped' \in Flags /\ wake' = wake /\ dql' = dql
         /\ LimitsCount' /\ IsStopped'
<1>1. PICK l, m : l = Link /\ m = PacketDiscarded(l)
  OBVIOUS
<1>2. PICK q, a, b, w, d : q = l.q /\ a = l.s.device /\ b = l.s.limits /\ w = l.w /\ d = l.d
  OBVIOUS
<1>3. l = [q |-> q, s |-> [device |-> a, limits |-> b], w |-> w, d |-> d] /\ b \in BOOLEAN
  BY <1>1, <1>2, LinkFields DEF IsLink, Flags
<1>4. m = [l EXCEPT !.s.device = TRUE]
  BY <1>1, Zenon DEF PacketDiscarded
<1>5. m = [q |-> q, s |-> [device |-> TRUE, limits |-> b], w |-> w, d |-> d]
  BY <1>3, <1>4, UpdateLink, Zenon
<1>6. m.q = q /\ m.s = [device |-> TRUE, limits |-> b] /\ m.w = w /\ m.d = d
  BY <1>5
<1>7. SetLink(m) /\ q = txQueue /\ w = wake /\ d = dql
  BY <1>1, <1>2, LinkFields, Zenon
<1>8. txQueue' = txQueue /\ stopped' = [device |-> TRUE, limits |-> b] /\ wake' = wake /\ dql' = dql
  BY <1>6, <1>7, Zenon DEF SetLink
<1>9. stopped' \in Flags /\ stopped'.device
  BY <1>3, <1>8 DEF Flags
<1> QED
  BY <1>8, <1>9, Zenon DEF IsStopped, LimitsCount

\* A packet that goes out when nothing is being transmitted.
LEMMA TransmitStep ==
  ASSUME LinkTypes, Timing, OneAtATime, NEW p \in Packets, P2pTransmitStart(p),
         tick' = tick, done <= tick
  PROVE  /\ onWire' \in Seq(Flights) /\ done' \in Nat /\ m_currentPkt' = p /\ p # 0 /\ p \in 0 .. Len(BytesOf)
         /\ Timing' /\ OneAtATime'
         /\ PacketsOf(onWire') = Append(PacketsOf(onWire), p)
<1>1. PICK f : f = [p |-> p, at |-> tick + BytesOf[p] + Delay]
  OBVIOUS
<1>2. PICK w : w = onWire
  OBVIOUS
<1>3. /\ tick \in Nat /\ done \in Nat /\ Delay \in Nat /\ m_tInterframeGap \in Nat /\ BytesOf[p] \in Nat /\ p \in 1 .. Len(BytesOf)
      /\ w \in Seq(Flights) /\ f.p = p /\ f.at = tick + BytesOf[p] + Delay
  BY <1>1, <1>2, WordIsPositive, SizesAreNumbers, P2pAssumption DEF LinkTypes, Packets, P2pAssumption
<1>4. f \in Flights
  BY <1>1, <1>3 DEF Flights
<1>5. onWire' = Append(w, f) /\ done' = tick + BytesOf[p] + m_tInterframeGap /\ m_currentPkt' = p
  BY <1>1, <1>2, Zenon DEF P2pTransmitStart
<1>6. /\ Len(w) \in Nat /\ DOMAIN w = 1 .. Len(w) /\ DOMAIN onWire' = 1 .. Len(w) + 1
      /\ onWire'[Len(w) + 1] = f /\ \A i \in 1 .. Len(w) : onWire'[i] = w[i] /\ w[i] \in Flights
  BY SMTT(40), <1>3, <1>4, <1>5
<1>7. \A i \in 1 .. Len(w) : w[i].at \in Nat /\ w[i].at <= done + Delay /\ BytesOf[w[i].p] \in Nat
  BY <1>2, <1>6, SizesAreNumbers DEF Timing, Flights
<1>8. \A i, j \in 1 .. Len(w) : i < j => w[j].at - w[i].at >= BytesOf[w[j].p]
  BY <1>2, <1>6 DEF OneAtATime
<1>9. \A i \in DOMAIN onWire' : onWire'[i].at <= done' + Delay
  BY SMTT(40), <1>3, <1>5, <1>6, <1>7
<1>10. Timing'
  BY SMTT(40), <1>3, <1>5, <1>9 DEF Timing
<1>11. \A i, j \in DOMAIN onWire' : i < j => onWire'[j].at - onWire'[i].at >= BytesOf[onWire'[j].p]
  <2>1. SUFFICES ASSUME NEW i \in 1 .. Len(w) + 1, NEW j \in 1 .. Len(w) + 1, i < j
                 PROVE  onWire'[j].at - onWire'[i].at >= BytesOf[onWire'[j].p]
    BY <1>6
  <2>2. i \in 1 .. Len(w) /\ onWire'[i] = w[i]
    BY <1>6, <2>1
  <2>3. CASE j = Len(w) + 1
    BY SMTT(40), <1>3, <1>6, <1>7, <2>2, <2>3
  <2>4. CASE j # Len(w) + 1
    <3>1. j \in 1 .. Len(w) /\ onWire'[j] = w[j]
      BY <1>6, <2>1, <2>4
    <3> QED
      BY <1>8, <2>1, <2>2, <3>1
  <2> QED
    BY <2>3, <2>4
<1>12. OneAtATime'
  BY <1>11 DEF OneAtATime
<1>13. PacketsOf(onWire') = Append(PacketsOf(onWire), p)
  BY <1>2, <1>3, <1>4, <1>5, PacketsOfWire
<1> QED
  BY SMTT(40), <1>3, <1>4, <1>5, <1>10, <1>12, <1>13


(***************************************************************************)
(* What the actions do to the order of the packets.                        *)
(***************************************************************************)

LEMMA PacketsAreNumbers == Packets \subseteq Int /\ Seq(Packets) \subseteq Seq(Int)
BY DEF Packets

LEMMA TurnWaits ==
  ASSUME NEW a \in Seq(Int), NEW w \in Seq(Int), NEW q \in Seq(Int), NEW gone, NEW n \in Nat, n > 0,
         Turn(a, w, q, gone, n)
  PROVE  /\ Turn(a, w, Append(q, n), gone, n + 1)
         /\ q = << >> => Turn(a, Append(w, n), q, gone, n + 1)
         /\ Turn(a, w, q, gone \cup {n}, n + 1)
<1> DEFINE A == Elements(a)
           W == Elements(w)
           Q == Elements(q)
<1>1. /\ Rising(a) /\ Rising(w) /\ Rising(q) /\ Below(A, W) /\ Below(A, Q) /\ Below(W, Q)
      /\ (A \cup W \cup Q) \cup gone = 1 .. n - 1 /\ (A \cup W \cup Q) \cap gone = {}
  BY DEF Turn
<1>2. Elements(Append(q, n)) = Q \cup {n} /\ Elements(Append(w, n)) = W \cup {n}
  <2>1. n \in Int
    OBVIOUS
  <2> QED
    BY <2>1, AppendRising, Zenon
<1> HIDE DEF A, W, Q
<1>3. (1 .. n - 1) \cup {n} = 1 .. (n + 1) - 1 /\ n \notin 1 .. n - 1
  OBVIOUS
<1>4. Below(A, {n}) /\ Below(W, {n}) /\ Below(Q, {n})
  <2>1. \A x \in A \cup W \cup Q : x < n
    BY <1>1
  <2> QED
    BY <2>1 DEF Below
<1>5. Rising(Append(q, n)) /\ Rising(Append(w, n))
  BY SMTT(40), <1>1, <1>4, AppendRising DEF Q, W
<1>6. Below(A, Q \cup {n}) /\ Below(W, Q \cup {n}) /\ Below(A, W \cup {n})
  BY <1>1, <1>4 DEF Below
<1>7. n \notin A \cup W \cup Q /\ n \notin gone
  BY <1>1, <1>3
<1>8. Turn(a, w, Append(q, n), gone, n + 1)
  <2>1. /\ (A \cup W \cup (Q \cup {n})) \cup gone = 1 .. (n + 1) - 1
        /\ (A \cup W \cup (Q \cup {n})) \cap gone = {}
    BY <1>1, <1>3, <1>7, Zenon
  <2> QED
    BY <1>1, <1>2, <1>5, <1>6, <2>1, Zenon DEF Turn, A, W, Q
<1>9. ASSUME q = << >>
      PROVE  Turn(a, Append(w, n), q, gone, n + 1)
  <2>1. Q = {}
    BY <1>9 DEF Q, Elements
  <2>2. Below(W \cup {n}, Q)
    BY <2>1 DEF Below
  <2>3. /\ (A \cup (W \cup {n}) \cup Q) \cup gone = 1 .. (n + 1) - 1
        /\ (A \cup (W \cup {n}) \cup Q) \cap gone = {}
    BY <1>1, <1>3, <1>7, Zenon
  <2> QED
    BY <1>1, <1>2, <1>5, <1>6, <2>2, <2>3, Zenon DEF Turn, A, W, Q
<1>10. Turn(a, w, q, gone \cup {n}, n + 1)
  <2>1. /\ (A \cup W \cup Q) \cup (gone \cup {n}) = 1 .. (n + 1) - 1
        /\ (A \cup W \cup Q) \cap (gone \cup {n}) = {}
    BY <1>1, <1>3, <1>7, Zenon
  <2> QED
    BY <1>1, <2>1, Zenon DEF Turn, A, W, Q
<1> QED
  BY <1>8, <1>9, <1>10

\* The first packet that waits goes on the wire, or is removed.
LEMMA TurnStarts ==
  ASSUME NEW a \in Seq(Int), NEW w \in Seq(Int), NEW q \in Seq(Int), q # << >>, NEW gone, NEW n,
         Turn(a, w, q, gone, n)
  PROVE  /\ Turn(a, Append(w, Head(q)), Tail(q), gone, n)
         /\ Turn(a, w, Tail(q), gone \cup {Head(q)}, n)
<1> DEFINE A == Elements(a)
           W == Elements(w)
           Q == Elements(q)
           R == Elements(Tail(q))
           h == Head(q)
<1>1. /\ Rising(a) /\ Rising(w) /\ Rising(q) /\ Below(A, W) /\ Below(A, Q) /\ Below(W, Q)
      /\ (A \cup W \cup Q) \cup gone = 1 .. n - 1 /\ (A \cup W \cup Q) \cap gone = {}
  BY DEF Turn
<1>2. /\ Rising(Tail(q)) /\ Q = R \cup {h} /\ h \notin R /\ Below({h}, R)
  BY <1>1, TailRising
<1>3. h \in Int
  OBVIOUS
<1>4. Elements(Append(w, h)) = W \cup {h}
  BY <1>3, AppendRising
<1>5. Rising(Append(w, h))
  <2>1. Below(W, {h})
    BY <1>1, <1>2 DEF Below
  <2> QED
    BY <1>1, <1>3, <2>1, AppendRising
<1> HIDE DEF A, W, Q, R, h
<1>6. /\ Below(A, W \cup {h}) /\ Below(A, R) /\ Below(W \cup {h}, R) /\ Below(W, R)
  BY <1>1, <1>2 DEF Below
<1>7. h \notin A /\ h \notin W
  <2>1. h \in Q
    BY <1>2
  <2> QED
    BY <1>1, <1>3, <2>1 DEF Below
<1>8. Turn(a, Append(w, h), Tail(q), gone, n)
  <2>1. A \cup (W \cup {h}) \cup R = A \cup W \cup Q
    BY <1>2, Zenon
  <2> QED
    BY <1>1, <1>2, <1>4, <1>5, <1>6, <2>1, Zenon DEF Turn, A, W, R
<1>9. Turn(a, w, Tail(q), gone \cup {h}, n)
  <2>1. (A \cup W \cup R) \cup (gone \cup {h}) = 1 .. n - 1
    <3>1. (A \cup W \cup R) \cup (gone \cup {h}) = (A \cup W \cup Q) \cup gone
      BY <1>2, Zenon
    <3> QED
      BY <1>1, <3>1, Zenon
  <2>2. (A \cup W \cup R) \cap (gone \cup {h}) = {}
    BY <1>1, <1>2, <1>7, Zenon
  <2> QED
    BY <1>1, <1>2, <1>6, <2>1, <2>2, Zenon DEF Turn, A, W, R
<1> QED
  BY <1>8, <1>9 DEF h

\* The first packet on the wire arrives, or is found corrupt.
LEMMA TurnArrives ==
  ASSUME NEW a \in Seq(Int), NEW w \in Seq(Int), NEW q \in Seq(Int), w # << >>, NEW gone, NEW n,
         Turn(a, w, q, gone, n)
  PROVE  /\ Turn(Append(a, Head(w)), Tail(w), q, gone, n)
         /\ Turn(a, Tail(w), q, gone \cup {Head(w)}, n)
<1> DEFINE A == Elements(a)
           W == Elements(w)
           Q == Elements(q)
           R == Elements(Tail(w))
           h == Head(w)
<1>1. /\ Rising(a) /\ Rising(w) /\ Rising(q) /\ Below(A, W) /\ Below(A, Q) /\ Below(W, Q)
      /\ (A \cup W \cup Q) \cup gone = 1 .. n - 1 /\ (A \cup W \cup Q) \cap gone = {}
  BY DEF Turn
<1>2. /\ Rising(Tail(w)) /\ W = R \cup {h} /\ h \notin R /\ Below({h}, R)
  BY <1>1, TailRising
<1>3. h \in Int
  OBVIOUS
<1>4. Elements(Append(a, h)) = A \cup {h}
  BY <1>3, AppendRising
<1>5. Rising(Append(a, h))
  <2>1. Below(A, {h})
    BY <1>1, <1>2 DEF Below
  <2> QED
    BY <1>1, <1>3, <2>1, AppendRising
<1> HIDE DEF A, W, Q, R, h
<1>6. /\ Below(A \cup {h}, R) /\ Below(A \cup {h}, Q) /\ Below(R, Q) /\ Below(A, R)
  BY <1>1, <1>2 DEF Below
<1>7. h \notin A /\ h \notin Q
  <2>1. h \in W
    BY <1>2
  <2> QED
    BY <1>1, <1>3, <2>1 DEF Below
<1>8. Turn(Append(a, h), Tail(w), q, gone, n)
  <2>1. (A \cup {h}) \cup R \cup Q = A \cup W \cup Q
    BY <1>2, Zenon
  <2> QED
    BY <1>1, <1>2, <1>4, <1>5, <1>6, <2>1, Zenon DEF Turn, A, Q, R
<1>9. Turn(a, Tail(w), q, gone \cup {h}, n)
  <2>1. (A \cup R \cup Q) \cup (gone \cup {h}) = 1 .. n - 1
    <3>1. (A \cup R \cup Q) \cup (gone \cup {h}) = (A \cup W \cup Q) \cup gone
      BY <1>2, Zenon
    <3> QED
      BY <1>1, <3>1, Zenon
  <2>2. (A \cup R \cup Q) \cap (gone \cup {h}) = {}
    BY <1>1, <1>2, <1>7, Zenon
  <2> QED
    BY <1>1, <1>2, <1>6, <2>1, <2>2, Zenon DEF Turn, A, Q, R
<1> QED
  BY <1>8, <1>9 DEF h

\* The order of the packets as the property states it.
LEMMA TurnMeansInOrder ==
  ASSUME LinkTypes, InTurn
  PROVE  LinkInOrder
<1> DEFINE w == PacketsOf(onWire)
           passed == arrived \o w \o txQueue
<1>1. arrived \in Seq(Int) /\ w \in Seq(Int) /\ txQueue \in Seq(Int)
  BY PacketsOfWire, PacketsAreNumbers DEF LinkTypes
<1>2. Turn(arrived, w, txQueue, dropped, backlog)
  BY DEF InTurn
<1> HIDE DEF w
<1>3. /\ Rising(arrived) /\ Rising(w) /\ Rising(txQueue) /\ Below(Elements(arrived), Elements(w))
      /\ Below(Elements(arrived), Elements(txQueue)) /\ Below(Elements(w), Elements(txQueue))
      /\ (Elements(arrived) \cup Elements(w) \cup Elements(txQueue)) \cup dropped = 1 .. backlog - 1
      /\ (Elements(arrived) \cup Elements(w) \cup Elements(txQueue)) \cap dropped = {}
  BY <1>2, Zenon DEF Turn
<1>4. PICK r : r = arrived \o w
  OBVIOUS
<1>5. r \in Seq(Int) /\ Rising(r) /\ Elements(r) = Elements(arrived) \cup Elements(w)
  BY <1>1, <1>3, <1>4, ConcatRising
<1>6. Below(Elements(r), Elements(txQueue))
  BY <1>3, <1>5 DEF Below
<1>7. Rising(r \o txQueue) /\ Elements(r \o txQueue) = Elements(r) \cup Elements(txQueue)
  BY <1>1, <1>3, <1>5, <1>6, ConcatRising
<1>8. passed = r \o txQueue
  BY <1>4
<1> HIDE DEF passed
<1>9. Rising(passed)
  BY <1>7, <1>8, Zenon
<1>10. \A p \in 1 .. backlog - 1 : (p \in dropped) # (\E i \in DOMAIN passed : passed[i] = p)
  <2>1. Elements(passed) = Elements(arrived) \cup Elements(w) \cup Elements(txQueue)
    BY <1>5, <1>7, <1>8, Zenon
  <2>2. SUFFICES ASSUME NEW p \in 1 .. backlog - 1
                 PROVE  (p \in dropped) # (\E i \in DOMAIN passed : passed[i] = p)
    OBVIOUS
  <2>3. (\E i \in DOMAIN passed : passed[i] = p) <=> p \in Elements(passed)
    BY Zenon DEF Elements
  <2>4. p \in Elements(passed) \cup dropped /\ ~(p \in Elements(passed) /\ p \in dropped)
    BY <1>3, <2>1, <2>2, Zenon
  <2> QED
    BY <2>3, <2>4
<1> QED
  BY <1>9, <1>10, Zenon DEF LinkInOrder, Rising, passed, w, PacketsOf


(***************************************************************************)
(* The steps.                                                              *)
(***************************************************************************)

LEMMA InitLinkInv == P2pInit => LinkInv
<1>1. SUFFICES ASSUME P2pInit PROVE LinkInv
  OBVIOUS
<1>2. /\ backlog = 1 /\ txQueue = << >> /\ wake = FALSE /\ m_currentPkt = 0 /\ onWire = << >>
      /\ stopped = [device |-> FALSE, limits |-> FALSE] /\ done = 0 /\ tick = 0
      /\ arrived = << >> /\ dropped = {} /\ refused = FALSE
  BY <1>1 DEF P2pInit
<1>3. stopped \in Flags /\ ~stopped.device /\ ~stopped.limits
  BY <1>2 DEF Flags
<1>4. /\ dql \in Limits /\ dql.queued = 0 /\ dql.completed = 0 /\ dql.limit = 0 /\ dql.adj = 0
  <2>1. dql = [limit |-> 0, queued |-> 0, completed |-> 0, last |-> 0, adj |-> 0, prevQueued |-> 0,
               prevLast |-> 0, prevOver |-> 0, slack |-> Infinite]
    BY <1>1 DEF P2pInit
  <2>2. 0 \in 0 .. m_maxLimit /\ Infinite \in Int
    BY WordIsPositive DEF Infinite
  <2> QED
    BY <2>1, <2>2 DEF Limits
<1>5. LinkTypes
  <2>1. BytesOf \in Seq(1 .. Mtu + PppHeader) /\ Len(BytesOf) \in Nat
    BY P2pAssumption DEF P2pAssumption
  <2>2. << >> \in Seq(Packets) /\ << >> \in Seq(Flights)
    OBVIOUS
  <2>3. backlog \in 1 .. Len(BytesOf) + 1 /\ m_currentPkt \in 0 .. Len(BytesOf) /\ done \in Nat /\ tick \in Nat
    BY <1>2, <2>1
  <2>4. /\ txQueue \in Seq(Packets) /\ onWire \in Seq(Flights) /\ arrived \in Seq(Packets)
        /\ dropped \subseteq Packets /\ wake \in BOOLEAN /\ refused \in BOOLEAN
    BY <1>2, <2>2, Zenon
  <2> QED
    BY <1>3, <1>4, <2>3, <2>4, Zenon DEF LinkTypes
<1>6. LimitsCount
  <2>1. QueueBytes(txQueue) = 0
    BY <1>2, QueueBytesEmpty, Zenon
  <2>2. Same(0, 0)
    BY SameReflexive
  <2> QED
    BY <1>4, <2>1, <2>2 DEF LimitsCount, Counts
<1>7. StoppedWillStart /\ NoMissedWake
  BY <1>2, <1>3 DEF StoppedWillStart, NoMissedWake, IsStopped
<1>8. Timing /\ OneAtATime
  BY <1>2 DEF Timing, OneAtATime
<1>9. InTurn
  <2>1. PacketsOf(onWire) = << >>
    BY <1>2 DEF PacketsOf
  <2>2. Elements(<< >>) = {} /\ Rising(<< >>) /\ Below({}, {})
    BY DEF Elements, Rising, Below
  <2>3. 1 .. 1 - 1 = {}
    OBVIOUS
  <2> QED
    BY <1>2, <2>1, <2>2, <2>3 DEF InTurn, Turn
<1> QED
  BY <1>5, <1>6, <1>7, <1>8, <1>9 DEF LinkInv

LEMMA BacklogStep ==
  ASSUME LinkTypes, backlog \in DOMAIN BytesOf, backlog' = backlog + 1
  PROVE  backlog \in Packets /\ backlog \in Nat /\ backlog > 0 /\ backlog' \in 1 .. Len(BytesOf) + 1
BY SMTT(40), P2pAssumption DEF P2pAssumption, LinkTypes, Packets

LEMMA SequencesAreNumbers ==
  ASSUME LinkTypes
  PROVE  /\ arrived \in Seq(Int) /\ PacketsOf(onWire) \in Seq(Int) /\ txQueue \in Seq(Int)
         /\ onWire \in Seq(Flights)
BY PacketsOfWire, PacketsAreNumbers DEF LinkTypes

\* No room: the packet is dropped.
LEMMA SendDropStep ==
  ASSUME LinkInv, backlog \in DOMAIN BytesOf, backlog' = backlog + 1,
         UNCHANGED <<tick, arrived, refused, m_currentPkt, done, onWire>>,
         QueueBytes(txQueue) + BytesOf[backlog] > MaxQueue,
         SetLink(PacketDiscarded(Link)), dropped' = dropped \cup {backlog}
  PROVE  LinkInv'
<1>1. LinkTypes /\ LimitsCount /\ StoppedWillStart /\ NoMissedWake /\ Timing /\ OneAtATime /\ InTurn
  BY DEF LinkInv
<1>2. backlog \in Packets /\ backlog \in Nat /\ backlog > 0 /\ backlog' \in 1 .. Len(BytesOf) + 1
  BY <1>1, BacklogStep
<1>3. /\ txQueue' = txQueue /\ stopped' \in Flags /\ wake' = wake /\ dql' = dql
      /\ LimitsCount' /\ IsStopped'
  BY <1>1, DiscardStep
<1>4. txQueue # << >>
  <2>1. SUFFICES ASSUME txQueue = << >> PROVE FALSE
    OBVIOUS
  <2>2. QueueBytes(txQueue) = 0
    BY <2>1, QueueBytesEmpty, Zenon
  <2> QED
    BY <1>2, <2>2, SizesAreNumbers
<1>5. LinkTypes'
  BY <1>1, <1>2, <1>3 DEF LinkTypes
<1>6. StoppedWillStart' /\ NoMissedWake'
  BY <1>1, <1>3, <1>4 DEF StoppedWillStart, NoMissedWake
<1>7. Timing' /\ OneAtATime'
  BY <1>1 DEF Timing, OneAtATime
<1>8. InTurn'
  BY <1>1, <1>2, <1>3, TurnWaits, SequencesAreNumbers, Zenon DEF InTurn
<1> QED
  BY <1>3, <1>5, <1>6, <1>7, <1>8 DEF LinkInv

\* The device is transmitting: the packet waits.
LEMMA SendWaitStep ==
  ASSUME LinkInv, backlog \in DOMAIN BytesOf, backlog' = backlog + 1,
         UNCHANGED <<tick, arrived, refused, m_currentPkt, done, onWire, dropped>>,
         m_currentPkt # 0, SetLink(DoEnqueue(Link, backlog))
  PROVE  LinkInv'
<1>1. LinkTypes /\ LimitsCount /\ StoppedWillStart /\ NoMissedWake /\ Timing /\ OneAtATime /\ InTurn
  BY DEF LinkInv
<1>2. backlog \in Packets /\ backlog \in Nat /\ backlog > 0 /\ backlog' \in 1 .. Len(BytesOf) + 1
  BY <1>1, BacklogStep
<1>3. /\ txQueue' \in Seq(Packets) /\ stopped' \in Flags /\ wake' \in BOOLEAN /\ dql' \in Limits
      /\ txQueue' = Append(txQueue, backlog) /\ LimitsCount'
      /\ wake' = wake /\ (IsStopped => IsStopped')
  BY <1>1, <1>2, EnqueueStep
<1>4. txQueue' # << >>
  <2>1. \A q \in Seq(Packets) : Append(q, backlog) # << >>
    OBVIOUS
  <2>2. txQueue \in Seq(Packets)
    BY <1>1 DEF LinkTypes
  <2> QED
    BY <1>3, <2>1, <2>2, Zenon
<1>5. LinkTypes'
  BY <1>1, <1>2, <1>3 DEF LinkTypes
<1>6. StoppedWillStart' /\ NoMissedWake'
  BY <1>1, <1>3, <1>4 DEF StoppedWillStart, NoMissedWake
<1>7. Timing' /\ OneAtATime'
  BY <1>1 DEF Timing, OneAtATime
<1>8. InTurn'
  BY <1>1, <1>2, <1>3, TurnWaits, SequencesAreNumbers, Zenon DEF InTurn
<1> QED
  BY <1>3, <1>5, <1>6, <1>7, <1>8 DEF LinkInv

\* The device is ready: the packet passes through the queue.
LEMMA SendPassStep ==
  ASSUME LinkInv, backlog \in DOMAIN BytesOf, backlog' = backlog + 1,
         UNCHANGED <<tick, arrived, refused, dropped>>,
         m_currentPkt = 0, NEW held \in BOOLEAN,
         SetLink(DoDequeue(DoEnqueue(Link, backlog), held)),
         P2pTransmitStart(Head(DoEnqueue(Link, backlog).q))
  PROVE  LinkInv'
<1>1. LinkTypes /\ LimitsCount /\ StoppedWillStart /\ NoMissedWake /\ Timing /\ OneAtATime /\ InTurn
  BY DEF LinkInv
<1>2. backlog \in Packets /\ backlog \in Nat /\ backlog > 0 /\ backlog' \in 1 .. Len(BytesOf) + 1
  BY <1>1, BacklogStep
<1>3. txQueue = << >> /\ ~IsStopped
  BY <1>1 DEF StoppedWillStart
<1>4. /\ txQueue' \in Seq(Packets) /\ stopped' \in Flags /\ wake' \in BOOLEAN /\ dql' \in Limits
      /\ txQueue' = << >> /\ LimitsCount'
      /\ Head(DoEnqueue(Link, backlog).q) = backlog
      /\ (wake => wake') /\ ~IsStopped'
  BY <1>1, <1>2, <1>3, PassStep
<1>5. PICK p : p = backlog
  OBVIOUS
<1>6. p \in Packets /\ P2pTransmitStart(p) /\ done <= tick /\ tick' = tick
  BY <1>1, <1>2, <1>4, <1>5 DEF Timing
<1>7. /\ onWire' \in Seq(Flights) /\ done' \in Nat /\ m_currentPkt' = p /\ p # 0 /\ p \in 0 .. Len(BytesOf)
      /\ Timing' /\ OneAtATime' /\ PacketsOf(onWire') = Append(PacketsOf(onWire), p)
  BY <1>1, <1>6, TransmitStep
<1>8. LinkTypes'
  BY <1>1, <1>2, <1>4, <1>7 DEF LinkTypes
<1>9. StoppedWillStart' /\ NoMissedWake'
  BY <1>1, <1>3, <1>4, <1>7 DEF StoppedWillStart, NoMissedWake
<1>10. InTurn'
  <2>1. Turn(arrived, Append(PacketsOf(onWire), backlog), txQueue, dropped, backlog + 1)
    BY <1>1, <1>2, <1>3, TurnWaits, SequencesAreNumbers, Zenon DEF InTurn
  <2> QED
    BY <1>3, <1>4, <1>5, <1>7, <2>1, Zenon DEF InTurn
<1> QED
  BY <1>4, <1>7, <1>8, <1>9, <1>10 DEF LinkInv

LEMMA SendStep == LinkInv /\ P2pSend => LinkInv'
<1>1. SUFFICES ASSUME LinkInv, P2pSend PROVE LinkInv'
  OBVIOUS
<1>2. backlog \in DOMAIN BytesOf /\ backlog' = backlog + 1 /\ UNCHANGED <<tick, arrived, refused>>
  BY <1>1, Zenon DEF P2pSend
<1>3. \/ /\ QueueBytes(txQueue) + BytesOf[backlog] > MaxQueue
         /\ SetLink(PacketDiscarded(Link)) /\ dropped' = dropped \cup {backlog}
         /\ UNCHANGED <<m_currentPkt, done, onWire>>
      \/ /\ m_currentPkt # 0 /\ SetLink(DoEnqueue(Link, backlog))
         /\ UNCHANGED <<m_currentPkt, done, onWire, dropped>>
      \/ /\ m_currentPkt = 0 /\ P2pTransmitStart(Head(DoEnqueue(Link, backlog).q)) /\ UNCHANGED dropped
         /\ \E held \in BOOLEAN : SetLink(DoDequeue(DoEnqueue(Link, backlog), held))
  BY <1>1, Zenon DEF P2pSend
<1>4. CASE /\ QueueBytes(txQueue) + BytesOf[backlog] > MaxQueue
           /\ SetLink(PacketDiscarded(Link)) /\ dropped' = dropped \cup {backlog}
           /\ UNCHANGED <<m_currentPkt, done, onWire>>
  BY <1>1, <1>2, <1>4, SendDropStep
<1>5. CASE /\ m_currentPkt # 0 /\ SetLink(DoEnqueue(Link, backlog))
           /\ UNCHANGED <<m_currentPkt, done, onWire, dropped>>
  BY <1>1, <1>2, <1>5, SendWaitStep
<1>6. CASE /\ m_currentPkt = 0 /\ P2pTransmitStart(Head(DoEnqueue(Link, backlog).q)) /\ UNCHANGED dropped
           /\ \E held \in BOOLEAN : SetLink(DoDequeue(DoEnqueue(Link, backlog), held))
  BY <1>1, <1>2, <1>6, SendPassStep
<1> QED
  BY <1>3, <1>4, <1>5, <1>6, Zenon

LEMMA HeadWaiting ==
  ASSUME LinkTypes, txQueue # << >>
  PROVE  Head(txQueue) \in Packets
BY DEF LinkTypes

LEMMA CompleteStep == LinkInv /\ TransmitComplete => LinkInv'
<1>1. SUFFICES ASSUME LinkInv, TransmitComplete PROVE LinkInv'
  OBVIOUS
<1>2. LinkTypes /\ LimitsCount /\ StoppedWillStart /\ NoMissedWake /\ Timing /\ OneAtATime /\ InTurn
  BY <1>1 DEF LinkInv
<1>3. m_currentPkt # 0 /\ tick = done /\ UNCHANGED <<backlog, tick, arrived, dropped, refused>>
  BY <1>1 DEF TransmitComplete
<1>4. CASE txQueue = << >> /\ m_currentPkt' = 0 /\ UNCHANGED <<sending, onWire, done>>
  <2>1. UNCHANGED <<txQueue, stopped, wake, dql, onWire, done>>
    BY <1>4 DEF sending
  <2>2. LinkTypes'
    BY <1>2, <1>3, <1>4, <2>1 DEF LinkTypes
  <2>3. LimitsCount' /\ StoppedWillStart' /\ NoMissedWake'
    BY <1>2, <1>3, <1>4, <2>1 DEF LimitsCount, StoppedWillStart, NoMissedWake, IsStopped
  <2>4. Timing' /\ OneAtATime'
    BY <1>2, <1>3, <1>4, <2>1 DEF Timing, OneAtATime, LinkTypes
  <2>5. InTurn'
    BY <1>2, <1>3, <2>1, Zenon DEF InTurn
  <2> QED
    BY <2>2, <2>3, <2>4, <2>5 DEF LinkInv
<1>5. CASE /\ txQueue # << >> /\ P2pTransmitStart(Head(txQueue))
           /\ \E held \in BOOLEAN : SetLink(DoDequeue(Link, held))
  <2>1. /\ txQueue' \in Seq(Packets) /\ stopped' \in Flags /\ wake' \in BOOLEAN /\ dql' \in Limits
        /\ txQueue' = Tail(txQueue) /\ LimitsCount'
        /\ (wake => wake') /\ (IsStopped /\ ~IsStopped' => wake')
        /\ (txQueue' = << >> => ~IsStopped')
    BY <1>2, <1>5, DequeueStep
  <2>2. PICK p : p = Head(txQueue)
    OBVIOUS
  <2>3. p \in Packets /\ P2pTransmitStart(p) /\ done <= tick /\ tick' = tick
    BY <1>2, <1>3, <1>5, <2>2, HeadWaiting DEF LinkTypes
  <2>4. /\ onWire' \in Seq(Flights) /\ done' \in Nat /\ m_currentPkt' = p /\ p # 0 /\ p \in 0 .. Len(BytesOf)
        /\ Timing' /\ OneAtATime' /\ PacketsOf(onWire') = Append(PacketsOf(onWire), p)
    BY <1>2, <2>3, TransmitStep
  <2>5. LinkTypes'
    BY <1>2, <1>3, <2>1, <2>4 DEF LinkTypes
  <2>6. StoppedWillStart' /\ NoMissedWake'
    BY <1>2, <1>3, <2>1, <2>4 DEF StoppedWillStart, NoMissedWake
  <2>7. InTurn'
    <3>1. Turn(arrived, Append(PacketsOf(onWire), Head(txQueue)), Tail(txQueue), dropped, backlog)
      BY <1>2, <1>5, TurnStarts, SequencesAreNumbers, Zenon DEF InTurn
    <3> QED
      BY <1>3, <2>1, <2>2, <2>4, <3>1, Zenon DEF InTurn
  <2> QED
    BY <2>1, <2>4, <2>5, <2>6, <2>7 DEF LinkInv
<1> QED
  BY <1>1, <1>4, <1>5, Zenon DEF TransmitComplete

LEMMA RemoveStep == LinkInv /\ RemoveQueued => LinkInv'
<1>1. SUFFICES ASSUME LinkInv, RemoveQueued PROVE LinkInv'
  OBVIOUS
<1>2. LinkTypes /\ LimitsCount /\ StoppedWillStart /\ NoMissedWake /\ Timing /\ OneAtATime /\ InTurn
  BY <1>1 DEF LinkInv
<1>3. /\ txQueue # << >> /\ dropped' = dropped \cup {Head(txQueue)}
      /\ \E held \in BOOLEAN : SetLink(DoDequeue(Link, held))
      /\ UNCHANGED <<backlog, m_currentPkt, onWire, done, tick, arrived, refused>>
  BY <1>1, Zenon DEF RemoveQueued
<1>4. /\ txQueue' \in Seq(Packets) /\ stopped' \in Flags /\ wake' \in BOOLEAN /\ dql' \in Limits
      /\ txQueue' = Tail(txQueue) /\ LimitsCount'
      /\ (wake => wake') /\ (IsStopped /\ ~IsStopped' => wake')
      /\ (txQueue' = << >> => ~IsStopped')
  BY <1>2, <1>3, DequeueStep
<1>5. LinkTypes'
  BY <1>2, <1>3, <1>4, HeadWaiting DEF LinkTypes
<1>6. StoppedWillStart' /\ NoMissedWake'
  BY <1>2, <1>3, <1>4 DEF StoppedWillStart, NoMissedWake
<1>7. Timing' /\ OneAtATime'
  BY <1>2, <1>3 DEF Timing, OneAtATime
<1>8. InTurn'
  <2>1. Turn(arrived, PacketsOf(onWire), Tail(txQueue), dropped \cup {Head(txQueue)}, backlog)
    BY <1>2, <1>3, TurnStarts, SequencesAreNumbers, Zenon DEF InTurn
  <2> QED
    BY <1>3, <1>4, <2>1, Zenon DEF InTurn
<1> QED
  BY <1>4, <1>5, <1>6, <1>7, <1>8 DEF LinkInv

LEMMA ReceiveStep == LinkInv /\ P2pReceive => LinkInv'
<1>1. SUFFICES ASSUME LinkInv, P2pReceive PROVE LinkInv'
  OBVIOUS
<1>2. LinkTypes /\ LimitsCount /\ StoppedWillStart /\ NoMissedWake /\ Timing /\ OneAtATime /\ InTurn
  BY <1>1 DEF LinkInv
<1>3. /\ onWire # << >> /\ onWire' = Tail(onWire)
      /\ \/ arrived' = Append(arrived, Head(onWire).p) /\ UNCHANGED dropped
         \/ dropped' = dropped \cup {Head(onWire).p} /\ UNCHANGED arrived
      /\ UNCHANGED <<backlog, txQueue, stopped, wake, dql, m_currentPkt, done, tick, refused>>
  BY <1>1 DEF P2pReceive, sending
<1>4. PICK w : w = onWire
  OBVIOUS
<1>5. w \in Seq(Flights) /\ w # << >> /\ onWire' = Tail(w)
  BY <1>2, <1>3, <1>4 DEF LinkTypes
<1>6. /\ Len(w) \in Nat /\ Len(w) > 0 /\ DOMAIN w = 1 .. Len(w) /\ Head(w) \in Flights
      /\ Tail(w) \in Seq(Flights) /\ DOMAIN Tail(w) = 1 .. Len(w) - 1
      /\ \A i \in 1 .. Len(w) - 1 : Tail(w)[i] = w[i + 1]
  BY <1>5
<1>7. Head(w).p \in Packets
  BY <1>6 DEF Flights
<1>8. LinkTypes'
  <2>1. onWire' \in Seq(Flights)
    BY <1>5, <1>6, Zenon
  <2>2. arrived' \in Seq(Packets) /\ dropped' \subseteq Packets
    <3>1. PICK p : p = Head(onWire).p
      OBVIOUS
    <3>2. p \in Packets
      BY <1>4, <1>7, <3>1, Zenon
    <3>3. arrived \in Seq(Packets) /\ dropped \subseteq Packets
      BY <1>2 DEF LinkTypes
    <3>4. Append(arrived, p) \in Seq(Packets) /\ dropped \cup {p} \subseteq Packets
      BY <3>2, <3>3
    <3> QED
      BY <1>3, <3>1, <3>3, <3>4, Zenon
  <2> QED
    BY <1>2, <1>3, <2>1, <2>2, Zenon DEF LinkTypes
<1>9. LimitsCount' /\ StoppedWillStart' /\ NoMissedWake'
  BY <1>2, <1>3 DEF LimitsCount, StoppedWillStart, NoMissedWake, IsStopped
<1>10. Timing'
  <2>1. \A i \in DOMAIN onWire' : onWire'[i].at <= done + Delay
    BY <1>2, <1>4, <1>5, <1>6 DEF Timing
  <2> QED
    BY <1>2, <1>3, <2>1 DEF Timing
<1>11. OneAtATime'
  <2>1. \A i, j \in 1 .. Len(w) : i < j => w[j].at - w[i].at >= BytesOf[w[j].p]
    BY <1>2, <1>4, <1>6 DEF OneAtATime
  <2>2. SUFFICES ASSUME NEW i \in 1 .. Len(w) - 1, NEW j \in 1 .. Len(w) - 1, i < j
                 PROVE  Tail(w)[j].at - Tail(w)[i].at >= BytesOf[Tail(w)[j].p]
    BY <1>5, <1>6 DEF OneAtATime
  <2>3. /\ i + 1 \in 1 .. Len(w) /\ j + 1 \in 1 .. Len(w) /\ i + 1 < j + 1
        /\ Tail(w)[i] = w[i + 1] /\ Tail(w)[j] = w[j + 1]
    BY <1>6, <2>2
  <2> QED
    BY <2>1, <2>3
<1>12. InTurn'
  <2>1. /\ PacketsOf(onWire) # << >> /\ Head(PacketsOf(onWire)) = Head(onWire).p
        /\ PacketsOf(onWire') = Tail(PacketsOf(onWire))
    BY <1>3, <1>4, <1>5, PacketsOfWire
  <2>2. /\ Turn(Append(arrived, Head(PacketsOf(onWire))), Tail(PacketsOf(onWire)), txQueue, dropped, backlog)
        /\ Turn(arrived, Tail(PacketsOf(onWire)), txQueue, dropped \cup {Head(PacketsOf(onWire))}, backlog)
    BY <1>2, <2>1, TurnArrives, SequencesAreNumbers, Zenon DEF InTurn
  <2> QED
    BY <1>3, <2>1, <2>2, Zenon DEF InTurn
<1> QED
  BY <1>8, <1>9, <1>10, <1>11, <1>12 DEF LinkInv

LEMMA SenderStep == LinkInv /\ (HoldBack \/ LookAgain \/ P2pTick) => LinkInv'
<1>1. SUFFICES ASSUME LinkInv, HoldBack \/ LookAgain \/ P2pTick PROVE LinkInv'
  OBVIOUS
<1>2. LinkTypes /\ LimitsCount /\ StoppedWillStart /\ NoMissedWake /\ Timing /\ OneAtATime /\ InTurn
  BY <1>1 DEF LinkInv
<1>3. UNCHANGED <<backlog, txQueue, stopped, dql, m_currentPkt, onWire, done, arrived, dropped>>
  BY <1>1 DEF HoldBack, LookAgain, P2pTick, sending
<1>4. LimitsCount' /\ StoppedWillStart' /\ OneAtATime' /\ InTurn' /\ (IsStopped' <=> IsStopped)
  <2>1. InTurn'
    BY <1>2, <1>3, Zenon DEF InTurn
  <2> QED
    BY <1>2, <1>3, <2>1 DEF LimitsCount, StoppedWillStart, OneAtATime, IsStopped
<1>5. CASE HoldBack
  <2>1. IsStopped /\ refused' = TRUE /\ UNCHANGED <<wake, tick>>
    BY <1>5 DEF HoldBack, sending
  <2>2. LinkTypes'
    BY <1>2, <1>3, <2>1 DEF LinkTypes
  <2>3. NoMissedWake' /\ Timing'
    BY <1>2, <1>3, <1>4, <2>1 DEF NoMissedWake, Timing
  <2> QED
    BY <1>4, <2>2, <2>3 DEF LinkInv
<1>6. CASE LookAgain
  <2>1. wake' = FALSE /\ refused' = (refused /\ IsStopped) /\ UNCHANGED tick
    BY <1>6 DEF LookAgain
  <2>2. refused' \in BOOLEAN /\ (refused' => IsStopped)
    BY <2>1
  <2>3. LinkTypes'
    BY <1>2, <1>3, <2>1, <2>2 DEF LinkTypes
  <2>4. NoMissedWake' /\ Timing'
    BY <1>2, <1>3, <1>4, <2>1, <2>2 DEF NoMissedWake, Timing
  <2> QED
    BY <1>4, <2>3, <2>4 DEF LinkInv
<1>7. CASE P2pTick
  <2>1. (m_currentPkt # 0 => tick < done) /\ tick' = tick + 1 /\ UNCHANGED <<wake, refused>>
    BY <1>7 DEF P2pTick, sending
  <2>2. tick \in Nat /\ done \in Nat
    BY <1>2 DEF LinkTypes
  <2>3. LinkTypes'
    BY <1>2, <1>3, <2>1, <2>2 DEF LinkTypes
  <2>4. NoMissedWake' /\ Timing'
    BY <1>2, <1>3, <1>4, <2>1, <2>2 DEF NoMissedWake, Timing
  <2> QED
    BY <1>4, <2>3, <2>4 DEF LinkInv
<1> QED
  BY <1>1, <1>5, <1>6, <1>7

LEMMA NextLinkInv == LinkInv /\ [P2pNext]_p2pVars => LinkInv'
<1>1. SUFFICES ASSUME LinkInv, [P2pNext]_p2pVars PROVE LinkInv'
  OBVIOUS
<1>2. CASE P2pNext
  BY <1>1, <1>2, SendStep, CompleteStep, ReceiveStep, RemoveStep, SenderStep, Zenon DEF P2pNext
<1>3. CASE UNCHANGED p2pVars
  <2>1. UNCHANGED <<backlog, txQueue, stopped, wake, dql, m_currentPkt, onWire, done, tick, arrived,
                    dropped, refused>>
    BY <1>3 DEF p2pVars, sending
  <2> QED
    BY <1>1, <2>1, Zenon DEF LinkInv, LinkTypes, LimitsCount, StoppedWillStart, NoMissedWake, Timing,
      OneAtATime, InTurn, IsStopped
<1> QED
  BY <1>1, <1>2, <1>3

LEMMA LinkInvHolds == P2pSpec => []LinkInv
BY InitLinkInv, NextLinkInv, PTL DEF P2pSpec

\* The types of the device, its queue and the limits above it.
THEOREM LinkTypeCorrect == P2pSpec => []LinkTypes
<1>1. LinkInv => LinkTypes
  BY DEF LinkInv
<1> QED
  BY <1>1, LinkInvHolds, PTL

\* A queue that is stopped, by the device or by its limits, will start again and
\* then calls back whoever was held back; packets cross the link in order, each
\* once unless it was dropped, and one at a time.
THEOREM LinkFlowsHolds == P2pSpec => []LinkFlows
<1>1. LinkInv => LinkFlows
  BY TurnMeansInOrder, Zenon DEF LinkInv, LinkFlows
<1> QED
  BY <1>1, LinkInvHolds, PTL

----------------------------------------------------------------------------
(* The bytes of packets.  A buffer and the bytes of its Data.              *)

Field == [data : DataIds, start : Nat, zeroStart : Nat, zeroEnd : Nat, end : Nat]
Datum == [m_count : Nat, m_dirtyStart : Nat, m_dirtyEnd : Nat, bytes : Seq(Int)]

\* Where the bytes of f end in its Data.
BytesEnd(f) == f.end - Zeroes(f)

InPlace(f, x) ==
  /\ f.start <= f.zeroStart /\ f.zeroStart <= f.zeroEnd /\ f.zeroEnd <= f.end
  /\ x.m_dirtyStart <= f.start /\ BytesEnd(f) <= Len(x.bytes)

\* The offsets of f, those of a buffer with bytes y.
Offsets(f, y) ==
  /\ f.start \in Nat /\ f.zeroStart \in Nat /\ f.zeroEnd \in Nat /\ f.end \in Nat
  /\ f.start <= f.zeroStart /\ f.zeroStart <= f.zeroEnd /\ f.zeroEnd <= f.end
  /\ y \in Seq(Int) /\ BytesEnd(f) <= Len(y)

ByteOf(f, y, v) ==
  IF v < f.zeroStart THEN y[v + 1] ELSE IF v < f.zeroEnd THEN 0 ELSE y[v - Zeroes(f) + 1]
ReadOf(f, y) == [i \in 1 .. GetSize(f) |-> ByteOf(f, y, f.start + i - 1)]

LEMMA ReadsBytes ==
  ASSUME NEW f, NEW dt
  PROVE  ReadBytes(f, dt) = ReadOf(f, dt[f.data].bytes)
BY Zenon DEF ReadBytes, At, ReadOf, ByteOf

LEMMA OffsetsTyped ==
  ASSUME NEW f, NEW y, Offsets(f, y)
  PROVE  /\ Zeroes(f) \in Nat /\ GetSize(f) \in Nat /\ InternalSize(f) \in Nat
         /\ BytesEnd(f) = f.start + InternalSize(f) /\ BytesEnd(f) \in Nat
         /\ Len(y) \in Nat /\ \A i \in 1 .. Len(y) : y[i] \in Int
BY SMTT(40) DEF Offsets, Zeroes, GetSize, InternalSize, BytesEnd

LEMMA ByteTyped ==
  ASSUME NEW f, NEW y, Offsets(f, y), NEW i \in 1 .. GetSize(f)
  PROVE  ByteOf(f, y, f.start + i - 1) \in Int
<1>1. \A j \in 1 .. Len(y) : y[j] \in Int
  BY OffsetsTyped
<1> PICK v : v = f.start + i - 1
  OBVIOUS
<1>2. v \in Nat /\ v < f.end
  BY DEF Offsets, GetSize
<1>3. ASSUME v < f.zeroStart PROVE v + 1 \in 1 .. Len(y)
  BY SMTT(40), <1>2, <1>3 DEF Offsets, BytesEnd, Zeroes
<1>4. ASSUME v >= f.zeroEnd PROVE v - Zeroes(f) + 1 \in 1 .. Len(y)
  BY SMTT(40), <1>2, <1>4 DEF Offsets, BytesEnd, Zeroes
<1>5. f.zeroEnd \in Int
  BY DEF Offsets
<1> QED
  BY <1>1, <1>2, <1>3, <1>4, <1>5 DEF ByteOf

LEMMA ReadTyped ==
  ASSUME NEW f, NEW y, Offsets(f, y)
  PROVE  /\ ReadOf(f, y) \in Seq(Int) /\ Len(ReadOf(f, y)) = GetSize(f)
         /\ \A i \in 1 .. GetSize(f) : ReadOf(f, y)[i] = ByteOf(f, y, f.start + i - 1)
<1> DEFINE e(i) == ByteOf(f, y, f.start + i - 1)
<1> PICK n : n = GetSize(f)
  OBVIOUS
<1>1. n \in Nat /\ \A i \in 1 .. n : e(i) \in Int
  BY OffsetsTyped, ByteTyped
<1>2. ReadOf(f, y) = [i \in 1 .. n |-> e(i)]
  BY DEF ReadOf
<1> HIDE DEF e
<1>3. [i \in 1 .. n |-> e(i)] \in Seq(Int)
  BY <1>1, IsASeq
<1>4. Len([i \in 1 .. n |-> e(i)]) = n /\ \A j \in 1 .. n : [i \in 1 .. n |-> e(i)][j] = e(j)
  BY <1>1, <1>3
<1> QED
  BY <1>2, <1>3, <1>4, Zenon DEF e

\* The bytes of f are in z, for g, after n others.
Carried(f, y, g, z, n) == \A i \in 1 .. InternalSize(f) : z[g.start + n + i] = y[f.start + i]
Holding(z, k, bs) == \A i \in 1 .. Len(bs) : z[k + i] = bs[i]

\* The zeroes of g are those of f, after n bytes.
ZeroesAlike(f, g, n) ==
  g.zeroStart - g.start = f.zeroStart - f.start + n /\ Zeroes(g) = Zeroes(f)

LEMMA BytesAlike ==
  ASSUME NEW f, NEW y, Offsets(f, y), NEW g, NEW z, Offsets(g, z), NEW n \in Nat,
         ZeroesAlike(f, g, n), Carried(f, y, g, z, n), NEW i \in 1 .. GetSize(f)
  PROVE  ByteOf(g, z, g.start + (n + i) - 1) = ByteOf(f, y, f.start + i - 1)
<1> PICK v : v = f.start + i - 1
  OBVIOUS
<1> PICK w : w = g.start + (n + i) - 1
  OBVIOUS
<1> PICK fs, fz, fe, fn \in Nat : f.start = fs /\ f.zeroStart = fz /\ f.zeroEnd = fe /\ f.end = fn
  BY DEF Offsets
<1> PICK gs, gz, ge \in Nat : g.start = gs /\ g.zeroStart = gz /\ g.zeroEnd = ge
  BY DEF Offsets
<1>1. fs <= fz /\ fz <= fe /\ fe <= fn /\ gs <= gz /\ gz <= ge
  BY DEF Offsets
<1>2. Zeroes(f) = fe - fz /\ Zeroes(g) = ge - gz /\ GetSize(f) = fn - fs /\ InternalSize(f) = fn - fs - (fe - fz)
  BY DEF Zeroes, GetSize, InternalSize
<1>3. gz - gs = fz - fs + n /\ ge - gz = fe - fz
  BY <1>2 DEF ZeroesAlike
<1>4. v = fs + i - 1 /\ w = gs + (n + i) - 1 /\ i \in 1 .. fn - fs /\ i \in Nat
  BY <1>2
<1>5. \A k \in 1 .. fn - fs - (fe - fz) : z[gs + n + k] = y[fs + k]
  BY <1>2, Zenon DEF Carried
<1>6. /\ ByteOf(f, y, v) = IF v < fz THEN y[v + 1] ELSE IF v < fe THEN 0 ELSE y[v - Zeroes(f) + 1]
      /\ ByteOf(g, z, w) = IF w < gz THEN z[w + 1] ELSE IF w < ge THEN 0 ELSE z[w - Zeroes(g) + 1]
  BY Zenon DEF ByteOf
<1>7. CASE v < fz
  <2>1. w < gz /\ v + 1 = fs + i /\ w + 1 = gs + n + i /\ i \in 1 .. fn - fs - (fe - fz)
    BY ONLY <1>1, <1>3, <1>4, <1>7, n \in Nat, fs \in Nat, fz \in Nat, fe \in Nat, fn \in Nat,
            gs \in Nat, gz \in Nat, ge \in Nat
  <2> QED
    BY <1>5, <1>6, <1>7, <2>1, Zenon
<1>8. CASE ~(v < fz) /\ v < fe
  <2>1. ~(w < gz) /\ w < ge
    BY ONLY <1>1, <1>3, <1>4, <1>8, n \in Nat, fs \in Nat, fz \in Nat, fe \in Nat, fn \in Nat,
            gs \in Nat, gz \in Nat, ge \in Nat
  <2> QED
    BY <1>6, <1>8, <2>1, Zenon
<1>9. CASE ~(v < fz) /\ ~(v < fe)
  <2> PICK k : k = i - (fe - fz)
    OBVIOUS
  <2>1. /\ ~(w < gz) /\ ~(w < ge) /\ v - (fe - fz) + 1 = fs + k /\ w - (ge - gz) + 1 = gs + n + k
        /\ k \in 1 .. fn - fs - (fe - fz)
    BY ONLY <1>1, <1>3, <1>4, <1>9, k = i - (fe - fz), n \in Nat, fs \in Nat, fz \in Nat,
            fe \in Nat, fn \in Nat, gs \in Nat, gz \in Nat, ge \in Nat
  <2>2. ByteOf(f, y, v) = y[fs + k]
    BY ONLY <1>1, <1>2, <1>6, <1>9, <2>1, fs \in Nat, fz \in Nat, fe \in Nat
  <2>3. ByteOf(g, z, w) = z[gs + n + k]
    BY ONLY <1>2, <1>6, <2>1
  <2>4. z[gs + n + k] = y[fs + k]
    BY ONLY <1>5, <2>1, Zenon
  <2> QED
    BY ONLY <2>2, <2>3, <2>4, v = f.start + i - 1, w = g.start + (n + i) - 1
<1> QED
  BY <1>7, <1>8, <1>9, Zenon

\* The sizes of f, and g that has n bytes more before or behind.
LEMMA SizesAlike ==
  ASSUME NEW f, NEW y, Offsets(f, y), NEW g, NEW z, Offsets(g, z), NEW n \in Nat, NEW m \in Nat,
         ZeroesAlike(f, g, n), g.end - g.zeroEnd = f.end - f.zeroEnd + m
  PROVE  GetSize(g) = n + GetSize(f) + m /\ GetSize(f) \in Nat /\ GetSize(g) \in Nat
<1> PICK fs, fz, fe, fn \in Nat : f.start = fs /\ f.zeroStart = fz /\ f.zeroEnd = fe /\ f.end = fn
  BY DEF Offsets
<1> PICK gs, gz, ge, gn \in Nat : g.start = gs /\ g.zeroStart = gz /\ g.zeroEnd = ge /\ g.end = gn
  BY DEF Offsets
<1>1. fs <= fz /\ fz <= fe /\ fe <= fn /\ gs <= gz /\ gz <= ge /\ ge <= gn
  BY DEF Offsets
<1>2. GetSize(f) = fn - fs /\ GetSize(g) = gn - gs
  BY DEF GetSize
<1>3. gz - gs = fz - fs + n /\ ge - gz = fe - fz /\ gn - ge = fn - fe + m
  BY DEF ZeroesAlike, Zeroes
<1> QED
  BY ONLY <1>1, <1>2, <1>3, n \in Nat, m \in Nat, fs \in Nat, fz \in Nat, fe \in Nat, fn \in Nat,
          gs \in Nat, gz \in Nat, ge \in Nat, gn \in Nat

\* A sequence of two parts.
LEMMA IsConcat ==
  ASSUME NEW a \in Seq(Int), NEW b \in Seq(Int), NEW c \in Seq(Int), Len(c) = Len(a) + Len(b),
         \A i \in 1 .. Len(a) : c[i] = a[i], \A i \in 1 .. Len(b) : c[Len(a) + i] = b[i]
  PROVE  c = a \o b
<1> PICK n \in Nat : n = Len(a)
  OBVIOUS
<1> PICK m \in Nat : m = Len(b)
  OBVIOUS
<1> PICK d : d = a \o b
  OBVIOUS
<1>1. /\ d \in Seq(Int) /\ Len(d) = n + m
      /\ \A i \in 1 .. n + m : d[i] = IF i <= n THEN a[i] ELSE b[i - n]
  BY ConcatProperties
<1>2. ASSUME NEW i \in 1 .. n + m PROVE c[i] = d[i]
  <2>1. CASE i <= n
    BY <1>1, <2>1
  <2>2. CASE i > n
    <3>1. i - n \in 1 .. m /\ n + (i - n) = i
      BY ONLY <2>2, i \in 1 .. n + m, n \in Nat, m \in Nat
    <3>2. c[n + (i - n)] = b[i - n]
      BY <3>1, Zenon
    <3>3. d[i] = b[i - n]
      BY ONLY <1>1, <2>2, i \in 1 .. n + m, n \in Nat, m \in Nat
    <3> QED
      BY ONLY <3>1, <3>2, <3>3
  <2> QED
    BY <2>1, <2>2
<1> QED
  BY <1>1, <1>2, SeqEqual

\* Two buffers whose bytes are the same, wherever they are, read the same;
\* g has more of them before or behind.
LEMMA ReadsMoreBefore ==
  ASSUME NEW f, NEW y, Offsets(f, y), NEW g, NEW z, Offsets(g, z), NEW bs \in Seq(Int),
         ZeroesAlike(f, g, Len(bs)), g.end - g.zeroEnd = f.end - f.zeroEnd,
         Holding(z, g.start, bs), Carried(f, y, g, z, Len(bs))
  PROVE  ReadOf(g, z) = bs \o ReadOf(f, y)
<1> PICK n \in Nat : n = Len(bs)
  OBVIOUS
<1> PICK r : r = ReadOf(f, y)
  OBVIOUS
<1> PICK q : q = ReadOf(g, z)
  OBVIOUS
<1>1. r \in Seq(Int) /\ Len(r) = GetSize(f) /\ q \in Seq(Int) /\ Len(q) = GetSize(g)
  BY ReadTyped, Zenon
<1>2. /\ \A i \in 1 .. GetSize(f) : r[i] = ByteOf(f, y, f.start + i - 1)
      /\ \A i \in 1 .. GetSize(g) : q[i] = ByteOf(g, z, g.start + i - 1)
  BY ReadTyped, Zenon
<1>3. g.end - g.zeroEnd = f.end - f.zeroEnd + 0
  BY DEF Offsets
<1>4. GetSize(g) = n + GetSize(f) + 0 /\ GetSize(f) \in Nat /\ GetSize(g) \in Nat
  <2>1. 0 \in Nat
    OBVIOUS
  <2> QED
    BY <1>3, <2>1, SizesAlike, ZenonT(40)
<1> PICK k \in Nat : k = GetSize(f)
  BY <1>4
<1>5. ASSUME NEW i \in 1 .. n PROVE q[i] = bs[i]
  <2> PICK gs, gz \in Nat : g.start = gs /\ g.zeroStart = gz
    BY DEF Offsets
  <2> PICK fs, fz \in Nat : f.start = fs /\ f.zeroStart = fz /\ fs <= fz
    BY DEF Offsets
  <2>0. gz - gs = fz - fs + n
    BY DEF ZeroesAlike
  <2>1. gz - gs >= n
    BY ONLY <2>0, fs <= fz, fs \in Nat, fz \in Nat, gs \in Nat, gz \in Nat, n \in Nat
  <2>2. gs + i - 1 < gz /\ (gs + i - 1) + 1 = gs + i /\ i \in 1 .. n + k + 0
    BY ONLY <2>1, i \in 1 .. n, n \in Nat, k \in Nat, gs \in Nat, gz \in Nat
  <2>3. q[i] = ByteOf(g, z, gs + i - 1)
    BY <1>2, <1>4, <2>2, Zenon
  <2>4. q[i] = z[gs + i]
    BY <2>2, <2>3, Zenon DEF ByteOf
  <2> QED
    BY <2>4, Zenon DEF Holding
<1>6. ASSUME NEW i \in 1 .. k PROVE q[n + i] = r[i]
  <2>1. n + i \in 1 .. n + k + 0
    BY ONLY i \in 1 .. k, k \in Nat, n \in Nat
  <2>2. q[n + i] = ByteOf(g, z, g.start + (n + i) - 1)
    BY <1>2, <1>4, <2>1, Zenon
  <2>3. Carried(f, y, g, z, n) /\ ZeroesAlike(f, g, n) /\ i \in 1 .. GetSize(f)
    OBVIOUS
  <2>4. ByteOf(g, z, g.start + (n + i) - 1) = ByteOf(f, y, f.start + i - 1)
    BY ONLY <2>3, Offsets(f, y), Offsets(g, z), n \in Nat, BytesAlike
  <2> QED
    BY <1>2, <2>2, <2>4, Zenon
<1>7. Len(q) = n + Len(r) /\ Len(r) = k
  BY ONLY <1>1, <1>4, k = GetSize(f), k \in Nat, n \in Nat
<1> QED
  BY <1>1, <1>5, <1>6, <1>7, IsConcat, ZenonT(40)

LEMMA ReadsMoreBehind ==
  ASSUME NEW f, NEW y, Offsets(f, y), NEW g, NEW z, Offsets(g, z), NEW bs \in Seq(Int),
         ZeroesAlike(f, g, 0), g.end - g.zeroEnd = f.end - f.zeroEnd + Len(bs),
         Carried(f, y, g, z, 0), Holding(z, g.start + InternalSize(f), bs)
  PROVE  ReadOf(g, z) = ReadOf(f, y) \o bs
<1> PICK n \in Nat : n = Len(bs)
  OBVIOUS
<1> PICK r : r = ReadOf(f, y)
  OBVIOUS
<1> PICK q : q = ReadOf(g, z)
  OBVIOUS
<1>1. r \in Seq(Int) /\ Len(r) = GetSize(f) /\ q \in Seq(Int) /\ Len(q) = GetSize(g)
  BY ReadTyped, Zenon
<1>2. /\ \A i \in 1 .. GetSize(f) : r[i] = ByteOf(f, y, f.start + i - 1)
      /\ \A i \in 1 .. GetSize(g) : q[i] = ByteOf(g, z, g.start + i - 1)
  BY ReadTyped, Zenon
<1>3. 0 \in Nat
  OBVIOUS
<1>4. GetSize(g) = 0 + GetSize(f) + n /\ GetSize(f) \in Nat /\ GetSize(g) \in Nat
  BY <1>3, SizesAlike, ZenonT(40)
<1> PICK k \in Nat : k = GetSize(f)
  BY <1>4
<1>5. ASSUME NEW i \in 1 .. k PROVE q[i] = r[i]
  <2>1. 0 + i = i /\ i \in 1 .. 0 + k + n
    BY ONLY i \in 1 .. k, k \in Nat, n \in Nat
  <2>2. q[i] = ByteOf(g, z, g.start + i - 1)
    BY <1>2, <1>4, <2>1, Zenon
  <2>3. i \in 1 .. GetSize(f)
    OBVIOUS
  <2>4. ByteOf(g, z, g.start + (0 + i) - 1) = ByteOf(f, y, f.start + i - 1)
    BY ONLY <1>3, <2>3, Offsets(f, y), Offsets(g, z), ZeroesAlike(f, g, 0), Carried(f, y, g, z, 0), BytesAlike
  <2> QED
    BY <1>2, <2>1, <2>2, <2>3, <2>4, Zenon
<1>6. ASSUME NEW i \in 1 .. n PROVE q[k + i] = bs[i]
  <2> PICK fs, fz, fe, fn \in Nat : f.start = fs /\ f.zeroStart = fz /\ f.zeroEnd = fe /\ f.end = fn
    BY DEF Offsets
  <2> PICK gs, gz, ge \in Nat : g.start = gs /\ g.zeroStart = gz /\ g.zeroEnd = ge
    BY DEF Offsets
  <2> PICK v : v = gs + (k + i) - 1
    OBVIOUS
  <2>1. fs <= fz /\ fz <= fe /\ fe <= fn /\ gs <= gz /\ gz <= ge /\ k = fn - fs
    BY DEF Offsets, GetSize
  <2>2. Zeroes(g) = ge - gz /\ InternalSize(f) = fn - fs - (fe - fz)
    BY DEF Zeroes, GetSize, InternalSize
  <2>3. gz - gs = fz - fs /\ ge - gz = fe - fz
    BY DEF ZeroesAlike, Zeroes
  <2>4. /\ ~(v < gz) /\ ~(v < ge) /\ v - (ge - gz) + 1 = gs + (fn - fs - (fe - fz)) + i
        /\ k + i \in 1 .. 0 + k + n
    BY ONLY <2>1, <2>3, v = gs + (k + i) - 1, i \in 1 .. n, n \in Nat, k \in Nat, fs \in Nat,
            fz \in Nat, fe \in Nat, fn \in Nat, gs \in Nat, gz \in Nat, ge \in Nat
  <2>5. q[k + i] = ByteOf(g, z, v)
    BY <1>2, <1>4, <2>4, Zenon
  <2>6. q[k + i] = z[v - Zeroes(g) + 1]
    BY <2>4, <2>5, Zenon DEF ByteOf
  <2>7. z[g.start + InternalSize(f) + i] = bs[i]
    BY Zenon DEF Holding
  <2> QED
    BY <2>2, <2>4, <2>6, <2>7, Zenon
<1>7. Len(q) = Len(r) + Len(bs) /\ Len(r) = k
  BY ONLY <1>1, <1>4, k = GetSize(f), k \in Nat, n \in Nat, n = Len(bs)
<1>8. (\A i \in 1 .. Len(r) : q[i] = r[i]) /\ \A i \in 1 .. Len(bs) : q[Len(r) + i] = bs[i]
  BY <1>5, <1>6, <1>7, Zenon
<1> QED
  BY <1>1, <1>7, <1>8, IsConcat, ZenonT(40)

\* Cutting bytes off.
Within(g, f) == f.start <= g.start /\ Zeroes(g) <= Zeroes(f) /\ BytesEnd(g) <= BytesEnd(f)

\* What is left of f when the first n bytes, or the last, are gone.
Cut(f, y, g, n, k) ==
  /\ g \in Field /\ g.data = f.data /\ Offsets(g, y) /\ Within(g, f) /\ GetSize(g) = k
  /\ \A i \in 1 .. k : ByteOf(g, y, g.start + i - 1) = ByteOf(f, y, f.start + (n + i) - 1)

\* g reads as k bytes of f after the first n.
ReadsPart(f, y, g, n, k) == ReadOf(g, y) = SubSeq(ReadOf(f, y), n + 1, n + k)

LEMMA CutReads ==
  ASSUME NEW f, NEW y, Offsets(f, y), NEW g, NEW n \in Nat, NEW k \in Nat, Cut(f, y, g, n, k),
         n + k <= GetSize(f)
  PROVE  ReadsPart(f, y, g, n, k)
<1> PICK r : r = ReadOf(f, y)
  OBVIOUS
<1> PICK q : q = ReadOf(g, y)
  OBVIOUS
<1> PICK s : s = SubSeq(r, n + 1, n + k)
  OBVIOUS
<1>1. /\ r \in Seq(Int) /\ Len(r) = GetSize(f) /\ q \in Seq(Int) /\ Len(q) = k
      /\ \A i \in 1 .. GetSize(f) : r[i] = ByteOf(f, y, f.start + i - 1)
      /\ \A i \in 1 .. k : q[i] = ByteOf(g, y, g.start + i - 1)
  BY ReadTyped, Zenon DEF Cut
<1>2. GetSize(f) \in Nat
  BY OffsetsTyped
<1>3. \A i \in n + 1 .. n + k : r[i] \in Int
  <2>1. \A i \in 1 .. Len(r) : r[i] \in Int
    BY <1>1, ElementOfSeq, Zenon
  <2> QED
    BY ONLY <2>1, <1>1, <1>2, n \in Nat, k \in Nat, n + k <= GetSize(f)
<1>4. n + 1 \in Int /\ n + k \in Int /\ (n + k) - (n + 1) + 1 = k
      /\ (IF n + 1 <= n + k THEN (n + k) - (n + 1) + 1 ELSE 0) = k
  BY ONLY n \in Nat, k \in Nat
<1>5. /\ s \in Seq(Int) /\ Len(s) = k
      /\ \A i \in 1 .. k : s[i] = r[(n + 1) + i - 1]
  BY <1>3, <1>4, SubSeqProperties
<1>6. ASSUME NEW i \in 1 .. k PROVE q[i] = s[i]
  <2>1. n + i \in 1 .. GetSize(f) /\ (n + 1) + i - 1 = n + i
    BY ONLY <1>2, i \in 1 .. k, n \in Nat, k \in Nat, n + k <= GetSize(f)
  <2>2. ByteOf(g, y, g.start + i - 1) = ByteOf(f, y, f.start + (n + i) - 1)
    BY Zenon DEF Cut
  <2> QED
    BY <1>1, <1>5, <2>1, <2>2, ZenonT(40)
<1>7. q = s
  BY <1>1, <1>5, <1>6, SeqEqual
<1> QED
  BY ONLY <1>7, r = ReadOf(f, y), q = ReadOf(g, y), s = SubSeq(r, n + 1, n + k) DEF ReadsPart

LEMMA CutAtStart ==
  ASSUME NEW f \in Field, NEW y, Offsets(f, y), NEW n \in 0 .. GetSize(f)
  PROVE  Cut(f, y, RemovedAtStart(f, n), n, GetSize(f) - n)
<1> PICK g : g = RemovedAtStart(f, n)
  OBVIOUS
<1> PICK fs, fz, fe, fn \in Nat : f.start = fs /\ f.zeroStart = fz /\ f.zeroEnd = fe /\ f.end = fn
  BY DEF Field
<1>1. fs <= fz /\ fz <= fe /\ fe <= fn /\ fn - (fe - fz) <= Len(y) /\ y \in Seq(Int)
  BY DEF Offsets, BytesEnd, Zeroes
<1>2. Zeroes(f) = fe - fz /\ GetSize(f) = fn - fs /\ BytesEnd(f) = fn - (fe - fz)
  BY DEF Zeroes, GetSize, BytesEnd
<1>3. n \in Nat /\ n <= fn - fs
  BY <1>1, <1>2
<1> PICK m \in Nat : m = fs + n
  BY <1>3
<1>4. f.data \in DataIds /\ f = [data |-> f.data, start |-> fs, zeroStart |-> fz, zeroEnd |-> fe, end |-> fn]
  BY DEF Field
<1> DEFINE gs == IF m <= fz THEN m ELSE IF m <= fe THEN fz ELSE m - (fe - fz)
           gz == IF m <= fz THEN fz ELSE gs
           ge == IF m <= fz THEN fe ELSE IF m <= fe THEN fe - (m - fz) ELSE gs
           gn == IF m <= fz THEN fn ELSE IF m <= fe THEN fn - (m - fz) ELSE fn - (fe - fz)
<1>5. m <= fn
  BY <1>3
<1>6. g = [data |-> f.data, start |-> gs, zeroStart |-> gz, zeroEnd |-> ge, end |-> gn]
  <2>1. CASE m <= fz
    <3>1. ~(m > fz) /\ ~(m > fe)
      BY <1>1, <2>1
    <3>2. g = [f EXCEPT !.start = m]
      BY <2>1, <3>1 DEF RemovedAtStart
    <3> QED
      BY <1>4, <2>1, <3>2
  <2>2. CASE m > fz /\ m <= fe
    <3>1. ~(m <= fz) /\ ~(m > fe)
      BY <2>2
    <3>2. g = [f EXCEPT !.start = fz, !.zeroEnd = fe - (m - fz), !.end = fn - (m - fz)]
      BY <2>2, <3>1 DEF RemovedAtStart
    <3> QED
      BY <1>4, <2>2, <3>1, <3>2
  <2>3. CASE m > fe
    <3>1. ~(m <= fz) /\ ~(m <= fe)
      BY <1>1, <2>3
    <3> QED
      BY <1>2, <1>4, <1>5, <2>3, <3>1 DEF RemovedAtStart
  <2> QED
    BY <2>1, <2>2, <2>3
<1>7. /\ gs \in Nat /\ gz \in Nat /\ ge \in Nat /\ gn \in Nat
      /\ gs <= gz /\ gz <= ge /\ ge <= gn /\ gn - (ge - gz) <= fn - (fe - fz)
      /\ ge - gz <= fe - fz /\ fs <= gs /\ gn - gs = (fn - fs) - n
  BY ONLY <1>1, <1>3, <1>5, m = fs + n, m \in Nat, fs \in Nat, fz \in Nat, fe \in Nat, fn \in Nat
<1>8. ASSUME NEW i \in 1 .. (fn - fs) - n
      PROVE  ByteOf(g, y, gs + i - 1) = ByteOf(f, y, fs + (n + i) - 1)
  <2> PICK v : v = fs + (n + i) - 1
    OBVIOUS
  <2> PICK w : w = gs + i - 1
    OBVIOUS
  <2>1. /\ ByteOf(f, y, v) = IF v < fz THEN y[v + 1] ELSE IF v < fe THEN 0 ELSE y[v - (fe - fz) + 1]
        /\ ByteOf(g, y, w) = IF w < gz THEN y[w + 1] ELSE IF w < ge THEN 0 ELSE y[w - (ge - gz) + 1]
    <3>1. Zeroes(g) = ge - gz /\ g.zeroStart = gz /\ g.zeroEnd = ge
      BY <1>6 DEF Zeroes
    <3> QED
      BY <1>2, <3>1, Zenon DEF ByteOf
  <2>2. v = m + i - 1 /\ v \in Nat /\ i \in Nat /\ i >= 1
    BY ONLY v = fs + (n + i) - 1, m = fs + n, i \in 1 .. (fn - fs) - n, fs \in Nat, fn \in Nat, <1>3
  <2>3. CASE m <= fz
    <3>1. w = v /\ gz = fz /\ ge = fe
      BY ONLY <2>2, <2>3, w = gs + i - 1, m \in Nat, fz \in Nat, fe \in Nat
    <3> QED
      BY <2>1, <3>1, Zenon
  <2>4. CASE m > fz /\ m <= fe
    <3>1. /\ ~(v < fz) /\ ~(w < gz) /\ (w < ge <=> v < fe)
          /\ w - (ge - gz) + 1 = v - (fe - fz) + 1
      BY ONLY <1>1, <2>2, <2>4, w = gs + i - 1, m \in Nat, fz \in Nat, fe \in Nat
    <3> QED
      BY <2>1, <3>1, Zenon
  <2>5. CASE m > fe
    <3>1. /\ ~(v < fz) /\ ~(v < fe) /\ ~(w < gz) /\ ~(w < ge)
          /\ w - (ge - gz) + 1 = v - (fe - fz) + 1
      BY ONLY <1>1, <2>2, <2>5, w = gs + i - 1, m \in Nat, fz \in Nat, fe \in Nat
    <3> QED
      BY <2>1, <3>1, Zenon
  <2> QED
    BY <2>3, <2>4, <2>5
<1> HIDE DEF gs, gz, ge, gn
<1>9. g \in Field /\ g.data = f.data /\ g.start = gs
  BY <1>4, <1>6, <1>7 DEF Field
<1>10. Zeroes(g) = ge - gz /\ GetSize(g) = gn - gs /\ BytesEnd(g) = gn - (ge - gz)
  BY <1>6 DEF Zeroes, GetSize, BytesEnd
<1>11. Offsets(g, y)
  <2>1. gn - (ge - gz) <= Len(y)
    BY <1>1, <1>7
  <2> QED
    BY <1>1, <1>6, <1>7, <1>10, <2>1 DEF Offsets
<1>12. Within(g, f)
  BY <1>2, <1>7, <1>9, <1>10 DEF Within
<1> QED
  BY <1>2, <1>7, <1>8, <1>9, <1>10, <1>11, <1>12, Zenon DEF Cut

LEMMA CutAtEnd ==
  ASSUME NEW f \in Field, NEW y, Offsets(f, y), NEW n \in 0 .. GetSize(f)
  PROVE  Cut(f, y, RemovedAtEnd(f, n), 0, GetSize(f) - n)
<1> PICK g : g = RemovedAtEnd(f, n)
  OBVIOUS
<1> PICK fs, fz, fe, fn \in Nat : f.start = fs /\ f.zeroStart = fz /\ f.zeroEnd = fe /\ f.end = fn
  BY DEF Field
<1>1. fs <= fz /\ fz <= fe /\ fe <= fn /\ fn - (fe - fz) <= Len(y) /\ y \in Seq(Int)
  BY DEF Offsets, BytesEnd, Zeroes
<1>2. Zeroes(f) = fe - fz /\ GetSize(f) = fn - fs /\ BytesEnd(f) = fn - (fe - fz)
  BY DEF Zeroes, GetSize, BytesEnd
<1>3. n \in Nat /\ n <= fn - fs
  BY <1>1, <1>2
<1> PICK gn \in Nat : gn = fn - n
  BY <1>3
<1>4. f.data \in DataIds /\ f = [data |-> f.data, start |-> fs, zeroStart |-> fz, zeroEnd |-> fe, end |-> fn]
  BY DEF Field
<1> DEFINE gz == IF gn > fz THEN fz ELSE gn
           ge == IF gn > fe THEN fe ELSE gn
<1>5. ~(n > fn - fs)
  BY <1>3
<1>6. g = [data |-> f.data, start |-> fs, zeroStart |-> gz, zeroEnd |-> ge, end |-> gn]
  BY <1>2, <1>4, <1>5 DEF RemovedAtEnd
<1>7. /\ gz \in Nat /\ ge \in Nat
      /\ fs <= gz /\ gz <= ge /\ ge <= gn /\ gn - (ge - gz) <= fn - (fe - fz)
      /\ ge - gz <= fe - fz /\ gn - fs = (fn - fs) - n
  BY ONLY <1>1, <1>3, gn = fn - n, gn \in Nat, fs \in Nat, fz \in Nat, fe \in Nat, fn \in Nat
<1>8. ASSUME NEW i \in 1 .. (fn - fs) - n
      PROVE  ByteOf(g, y, fs + i - 1) = ByteOf(f, y, fs + (0 + i) - 1)
  <2> PICK v : v = fs + i - 1
    OBVIOUS
  <2>1. /\ ByteOf(f, y, v) = IF v < fz THEN y[v + 1] ELSE IF v < fe THEN 0 ELSE y[v - (fe - fz) + 1]
        /\ ByteOf(g, y, v) = IF v < gz THEN y[v + 1] ELSE IF v < ge THEN 0 ELSE y[v - (ge - gz) + 1]
    <3>1. Zeroes(g) = ge - gz /\ g.zeroStart = gz /\ g.zeroEnd = ge
      BY <1>6 DEF Zeroes
    <3> QED
      BY <1>2, <3>1, Zenon DEF ByteOf
  <2>2. v \in Nat /\ v < gn /\ fs + (0 + i) - 1 = v
    BY ONLY v = fs + i - 1, gn = fn - n, i \in 1 .. (fn - fs) - n, fs \in Nat, fn \in Nat, <1>3
  <2>3. CASE gn <= fz
    <3>1. v < fz /\ v < gz
      BY ONLY <2>2, <2>3, gn \in Nat, fz \in Nat
    <3> QED
      BY <2>1, <2>2, <3>1, Zenon
  <2>4. CASE gn > fz /\ gn <= fe
    <3>1. gz = fz /\ v < ge /\ v < fe
      BY ONLY <2>2, <2>4, gn \in Nat, fz \in Nat, fe \in Nat
    <3> QED
      BY <2>1, <2>2, <3>1, Zenon
  <2>5. CASE gn > fe
    <3>1. gz = fz /\ ge = fe
      BY ONLY <1>1, <2>5, gn \in Nat, fz \in Nat, fe \in Nat
    <3> QED
      BY <2>1, <2>2, <3>1, Zenon
  <2> QED
    BY <2>3, <2>4, <2>5
<1> HIDE DEF gz, ge
<1>9. g \in Field /\ g.data = f.data /\ g.start = fs
  BY <1>4, <1>6, <1>7 DEF Field
<1>10. Zeroes(g) = ge - gz /\ GetSize(g) = gn - fs /\ BytesEnd(g) = gn - (ge - gz)
  BY <1>6 DEF Zeroes, GetSize, BytesEnd
<1>11. Offsets(g, y)
  <2>1. gn - (ge - gz) <= Len(y)
    BY <1>1, <1>7
  <2> QED
    BY <1>1, <1>6, <1>7, <1>10, <2>1 DEF Offsets
<1>12. Within(g, f)
  BY <1>2, <1>7, <1>9, <1>10 DEF Within
<1> QED
  BY <1>2, <1>7, <1>8, <1>9, <1>10, <1>11, <1>12, Zenon DEF Cut

----------------------------------------------------------------------------
(* Buffers bf and Data dt together.                                        *)

\* Some number z of zeroes is one that no buffer of x has more of, and that fits
\* between the end of its bytes and the end of the dirty area.
Covers(x, z, f) == Zeroes(f) <= z /\ BytesEnd(f) + z <= x.m_dirtyEnd

IsLive(bf, b) == bf[b] # Gone
Users(bf, d) == {b \in Buffers : IsLive(bf, b) /\ bf[b].data = d}
Covered(bf, x, d) == \E z \in Nat : \A b \in Users(bf, d) : Covers(x, z, bf[b])

Sharing(bf, dt) ==
  /\ bf \in [Buffers -> Field \cup {Gone}] /\ dt \in [DataIds -> Datum]
  /\ \A b \in Buffers : IsLive(bf, b) => InPlace(bf[b], dt[bf[b].data])
  /\ \A d \in DataIds : dt[d].m_count = Cardinality(Users(bf, d)) /\ Covered(bf, dt[d], d)

\* Buffer b becomes f and the Data dt2, and no other buffer notices.
Unnoticed(bf, dt, b, dt2) ==
  \A o \in Buffers \ {b} : IsLive(bf, o) => ReadBytes(bf[o], dt2) = ReadBytes(bf[o], dt)
Safe(bf, dt, b, f, dt2) == Sharing([bf EXCEPT ![b] = f], dt2) /\ Unnoticed(bf, dt, b, dt2)

LEMMA BuffersAre ==
  /\ IsFiniteSet(Buffers) /\ Cardinality(Buffers) \in Nat
  /\ DataIds = 0 .. Cardinality(Buffers) + 1 /\ IsFiniteSet(DataIds)
  /\ Cardinality(DataIds) = Cardinality(Buffers) + 2
  /\ Gone \notin Field
<1>1. IsFiniteSet(Buffers) /\ Cardinality(Buffers) \in Nat
  BY BufferAssumption, FS_CardinalityType DEF BufferAssumption
<1> PICK n \in Nat : n = Cardinality(Buffers)
  BY <1>1
<1>2. DataIds = 0 .. n + 1
  BY DEF DataIds
<1>3. IsFiniteSet(0 .. n + 1) /\ Cardinality(0 .. n + 1) = n + 2
  <2>1. 0 \in Int /\ n + 1 \in Int /\ (IF 0 > n + 1 THEN 0 ELSE (n + 1) - 0 + 1) = n + 2
    OBVIOUS
  <2> QED
    BY <2>1, FS_Interval
<1>4. Gone.data = -1 /\ -1 \notin 0 .. n + 1
  BY DEF Gone
<1>5. Gone \notin Field
  BY <1>2, <1>4, Zenon DEF Field
<1> QED
  BY <1>1, <1>2, <1>3, <1>5

LEMMA UsersFinite ==
  ASSUME NEW bf, NEW d
  PROVE  IsFiniteSet(Users(bf, d)) /\ Cardinality(Users(bf, d)) \in Nat
<1>1. Users(bf, d) \in SUBSET Buffers
  BY DEF Users
<1> QED
  BY <1>1, BuffersAre, FS_Subset, FS_CardinalityType

LEMMA SharingOf ==
  ASSUME NEW bf, NEW dt, Sharing(bf, dt), NEW b \in Buffers, IsLive(bf, b)
  PROVE  /\ bf[b] \in Field /\ bf[b].data \in DataIds /\ dt[bf[b].data] \in Datum
         /\ InPlace(bf[b], dt[bf[b].data])
         /\ Offsets(bf[b], dt[bf[b].data].bytes)
         /\ b \in Users(bf, bf[b].data)
<1>1. bf[b] \in Field /\ InPlace(bf[b], dt[bf[b].data])
  BY Zenon DEF Sharing, IsLive
<1>2. bf[b].data \in DataIds
  BY <1>1 DEF Field
<1>3. dt[bf[b].data] \in Datum
  BY <1>2, Zenon DEF Sharing
<1> PICK f : f = bf[b]
  OBVIOUS
<1> PICK x : x = dt[f.data]
  OBVIOUS
<1>4. f \in Field /\ x \in Datum /\ InPlace(f, x)
  BY <1>1, <1>3, Zenon
<1>5. Offsets(f, x.bytes)
  BY ONLY <1>4 DEF Offsets, InPlace, Field, Datum
<1>6. b \in Users(bf, bf[b].data)
  BY Zenon DEF Users
<1> QED
  BY <1>1, <1>2, <1>3, <1>5, <1>6, Zenon

\* There is always a Data nobody uses.
LEMMA OneUnused ==
  ASSUME NEW bf, NEW dt, Sharing(bf, dt)
  PROVE  Unused(dt) \in DataIds /\ dt[Unused(dt)].m_count = 0
<1>1. \E d \in DataIds : dt[d].m_count = 0
  <2> SUFFICES ASSUME \A d \in DataIds : dt[d].m_count # 0 PROVE FALSE
    OBVIOUS
  <2>1. ASSUME NEW d \in DataIds PROVE \E b \in Buffers : IsLive(bf, b) /\ bf[b].data = d
    <3>1. Cardinality(Users(bf, d)) # 0
      BY Zenon DEF Sharing
    <3>2. Users(bf, d) # {}
      BY <3>1, FS_EmptySet
    <3> QED
      BY <3>2 DEF Users
  <2> DEFINE u == [d \in DataIds |-> CHOOSE b \in Buffers : IsLive(bf, b) /\ bf[b].data = d]
  <2>2. \A d \in DataIds : u[d] \in Buffers /\ bf[u[d]].data = d
    BY <2>1
  <2>3. u \in [DataIds -> Buffers]
    BY <2>2
  <2> HIDE DEF u
  <2>4. Cardinality(Buffers) < Cardinality(DataIds)
    BY BuffersAre
  <2>5. \E x, y \in DataIds : x # y /\ u[x] = u[y]
    BY <2>3, <2>4, BuffersAre, FS_PigeonHole, ZenonT(40)
  <2> QED
    BY <2>2, <2>5, Zenon
<1> QED
  BY <1>1, Zenon DEF Unused

\* What two states say of a buffer that both have, with the same bytes.
LEMMA SameReading ==
  ASSUME NEW f, NEW y, Offsets(f, y), NEW z,
         \A i \in f.start + 1 .. BytesEnd(f) : z[i] = y[i]
  PROVE  ReadOf(f, z) = ReadOf(f, y)
<1> PICK fs, fz, fe, fn \in Nat : f.start = fs /\ f.zeroStart = fz /\ f.zeroEnd = fe /\ f.end = fn
  BY DEF Offsets
<1>1. fs <= fz /\ fz <= fe /\ fe <= fn
  BY DEF Offsets
<1>2. Zeroes(f) = fe - fz /\ GetSize(f) = fn - fs /\ BytesEnd(f) = fn - (fe - fz)
  BY DEF Zeroes, GetSize, BytesEnd
<1>3. ASSUME NEW i \in 1 .. fn - fs
      PROVE  ByteOf(f, z, fs + i - 1) = ByteOf(f, y, fs + i - 1)
  <2> PICK v : v = fs + i - 1
    OBVIOUS
  <2>1. /\ ByteOf(f, y, v) = IF v < fz THEN y[v + 1] ELSE IF v < fe THEN 0 ELSE y[v - Zeroes(f) + 1]
        /\ ByteOf(f, z, v) = IF v < fz THEN z[v + 1] ELSE IF v < fe THEN 0 ELSE z[v - Zeroes(f) + 1]
    BY Zenon DEF ByteOf
  <2>2. CASE v < fz
    <3>1. v + 1 \in fs + 1 .. fn - (fe - fz)
      BY ONLY <1>1, <2>2, v = fs + i - 1, i \in 1 .. fn - fs, fs \in Nat, fz \in Nat, fe \in Nat, fn \in Nat
    <3> QED
      BY <1>2, <2>1, <2>2, <3>1, Zenon
  <2>3. CASE ~(v < fz) /\ v < fe
    BY <2>1, <2>3, Zenon
  <2>4. CASE ~(v < fz) /\ ~(v < fe)
    <3>1. v - (fe - fz) + 1 \in fs + 1 .. fn - (fe - fz)
      BY ONLY <1>1, <2>4, v = fs + i - 1, i \in 1 .. fn - fs, fs \in Nat, fz \in Nat, fe \in Nat, fn \in Nat
    <3> QED
      BY <1>2, <2>1, <2>4, <3>1, Zenon
  <2> QED
    BY <2>2, <2>3, <2>4, Zenon
<1> QED
  BY <1>2, <1>3, Zenon DEF ReadOf

LEMMA TwoSteps ==
  ASSUME NEW bf, NEW dt, NEW b \in Buffers, NEW f, NEW dt1, NEW g, NEW dt2,
         bf \in [Buffers -> Field \cup {Gone}], NEW bg, bg = [bf EXCEPT ![b] = f],
         Safe(bf, dt, b, f, dt1), Safe(bg, dt1, b, g, dt2)
  PROVE  Safe(bf, dt, b, g, dt2)
<1>1. [bg EXCEPT ![b] = g] = [bf EXCEPT ![b] = g]
  OBVIOUS
<1>2. \A o \in Buffers \ {b} : bg[o] = bf[o]
  OBVIOUS
<1>3. Sharing([bf EXCEPT ![b] = g], dt2)
  BY <1>1, Zenon DEF Safe
<1>4. Unnoticed(bf, dt, b, dt1) /\ Unnoticed(bg, dt1, b, dt2)
  BY Zenon DEF Safe
<1>5. Unnoticed(bf, dt, b, dt2)
  BY <1>2, <1>4, Zenon DEF Unnoticed, IsLive
<1> QED
  BY <1>3, <1>5, Zenon DEF Safe

\* bg is bf with f for b.
Changed(bf, b, f, bg) == bg[b] = f /\ \A o \in Buffers : o # b => bg[o] = bf[o]

LEMMA UsersFewer ==
  ASSUME NEW bf, NEW b \in Buffers, NEW f, NEW bg, Changed(bf, b, f, bg), NEW d, f = Gone \/ f.data # d
  PROVE  Users(bg, d) = Users(bf, d) \ {b}
<1>1. bg[b] = f /\ \A o \in Buffers : o # b => bg[o] = bf[o]
  BY DEF Changed
<1>2. \A o : o \in Users(bg, d) <=> o \in Buffers /\ bg[o] # Gone /\ bg[o].data = d
  BY DEF Users, IsLive
<1>3. \A o : o \in Users(bf, d) <=> o \in Buffers /\ bf[o] # Gone /\ bf[o].data = d
  BY DEF Users, IsLive
<1>4. \A o : o \in Users(bg, d) <=> o \in Users(bf, d) \ {b}
  BY <1>1, <1>2, <1>3, ZenonT(40)
<1> QED
  BY <1>4

LEMMA UsersMore ==
  ASSUME NEW bf, NEW b \in Buffers, NEW f, NEW bg, Changed(bf, b, f, bg), NEW d, f # Gone, f.data = d
  PROVE  Users(bg, d) = Users(bf, d) \cup {b}
<1>1. bg[b] = f /\ \A o \in Buffers : o # b => bg[o] = bf[o]
  BY DEF Changed
<1>2. \A o : o \in Users(bg, d) <=> o \in Buffers /\ bg[o] # Gone /\ bg[o].data = d
  BY DEF Users, IsLive
<1>3. \A o : o \in Users(bf, d) <=> o \in Buffers /\ bf[o] # Gone /\ bf[o].data = d
  BY DEF Users, IsLive
<1>4. \A o : o \in Users(bg, d) <=> o \in Users(bf, d) \cup {b}
  BY <1>1, <1>2, <1>3, ZenonT(40)
<1> QED
  BY <1>4

\* What has to hold of each Data afterwards, and of each buffer.
Untouched(bf, dt, b, dt2) ==
  \A o \in Buffers \ {b} : IsLive(bf, o) =>
    /\ InPlace(bf[o], dt2[bf[o].data])
    /\ \A i \in bf[o].start + 1 .. BytesEnd(bf[o]) : dt2[bf[o].data].bytes[i] = dt[bf[o].data].bytes[i]
Told(bf, dt) == \A d \in DataIds : dt[d].m_count = Cardinality(Users(bf, d)) /\ Covered(bf, dt[d], d)

LEMMA SharingAfter ==
  ASSUME NEW bf, NEW dt, Sharing(bf, dt), NEW b \in Buffers, NEW f \in Field \cup {Gone},
         NEW dt2 \in [DataIds -> Datum], NEW bg, bg = [bf EXCEPT ![b] = f],
         f # Gone => InPlace(f, dt2[f.data]),
         Untouched(bf, dt, b, dt2), Told(bg, dt2)
  PROVE  Safe(bf, dt, b, f, dt2)
<1>1. bf \in [Buffers -> Field \cup {Gone}]
  BY Zenon DEF Sharing
<1>2. bg \in [Buffers -> Field \cup {Gone}] /\ bg[b] = f /\ \A o \in Buffers : o # b => bg[o] = bf[o]
  BY <1>1
<1>3. ASSUME NEW o \in Buffers, IsLive(bg, o) PROVE InPlace(bg[o], dt2[bg[o].data])
  <2>1. CASE o = b
    BY <1>2, <1>3, <2>1, Zenon DEF IsLive
  <2>2. CASE o # b
    BY <1>2, <1>3, <2>2, Zenon DEF IsLive, Untouched
  <2> QED
    BY <2>1, <2>2
<1>4. Sharing(bg, dt2)
  BY <1>2, <1>3, Zenon DEF Sharing, Told
<1>5. ASSUME NEW o \in Buffers \ {b}, IsLive(bf, o) PROVE ReadBytes(bf[o], dt2) = ReadBytes(bf[o], dt)
  <2>1. Offsets(bf[o], dt[bf[o].data].bytes)
    BY <1>5, SharingOf, Zenon
  <2>2. \A i \in bf[o].start + 1 .. BytesEnd(bf[o]) : dt2[bf[o].data].bytes[i] = dt[bf[o].data].bytes[i]
    BY <1>5, Zenon DEF Untouched
  <2>3. ReadOf(bf[o], dt2[bf[o].data].bytes) = ReadOf(bf[o], dt[bf[o].data].bytes)
    BY <2>1, <2>2, SameReading
  <2> QED
    BY <2>3, ReadsBytes, Zenon
<1> QED
  BY <1>4, <1>5, Zenon DEF Safe, Unnoticed

LEMMA CoversCount ==
  ASSUME NEW x, NEW y, NEW z, NEW f, x.m_dirtyEnd = y.m_dirtyEnd
  PROVE  Covers(x, z, f) <=> Covers(y, z, f)
BY Zenon DEF Covers

\* A buffer goes.
LEMMA ReleaseSafe ==
  ASSUME NEW bf, NEW dt, Sharing(bf, dt), NEW b \in Buffers, IsLive(bf, b)
  PROVE  /\ Safe(bf, dt, b, Gone, Unref(dt, bf[b].data))
         /\ \A e \in DataIds : dt[e].m_count = 0 => Unref(dt, bf[b].data)[e].m_count = 0
<1> PICK d : d = bf[b].data
  OBVIOUS
<1> PICK dt2 : dt2 = Unref(dt, d)
  OBVIOUS
<1> PICK bg : bg = [bf EXCEPT ![b] = Gone]
  OBVIOUS
<1>1. /\ bf \in [Buffers -> Field \cup {Gone}] /\ dt \in [DataIds -> Datum]
      /\ \A e \in DataIds : dt[e].m_count = Cardinality(Users(bf, e)) /\ Covered(bf, dt[e], e)
  BY Zenon DEF Sharing
<1>0. Changed(bf, b, Gone, bg)
  BY <1>1 DEF Changed
<1>2. d \in DataIds /\ dt[d] \in Datum /\ b \in Users(bf, d)
  BY SharingOf
<1>3. \A e : Users(bg, e) = Users(bf, e) \ {b}
  BY <1>0, UsersFewer
<1> PICK n : n = dt[d].m_count
  OBVIOUS
<1>4. n \in Nat /\ n = Cardinality(Users(bf, d)) /\ Cardinality(Users(bg, d)) = n - 1 /\ n > 0
  <2>1. n \in Nat
    BY <1>2 DEF Datum
  <2>2. n = Cardinality(Users(bf, d)) /\ IsFiniteSet(Users(bf, d))
    BY <1>1, <1>2, UsersFinite
  <2>3. Cardinality(Users(bf, d) \ {b}) = n - 1
    BY <1>2, <2>2, FS_RemoveElement
  <2>4. n - 1 \in Nat
    <3>1. Cardinality(Users(bg, d)) \in Nat /\ Users(bg, d) = Users(bf, d) \ {b}
      BY <1>3, UsersFinite, Zenon
    <3> QED
      BY <2>3, <3>1
  <2>5. Cardinality(Users(bg, d)) = n - 1
    BY <1>3, <2>3, Zenon
  <2>6. n > 0
    BY <2>1, <2>4
  <2> QED
    BY <2>1, <2>2, <2>5, <2>6
<1> DEFINE x == IF n = 1 THEN FreeData ELSE [dt[d] EXCEPT !.m_count = @ - 1]
<1>5. FreeData \in Datum
  BY DEF FreeData, Datum
<1>6. /\ x \in Datum /\ x.m_count = n - 1
      /\ n # 1 => x.m_dirtyStart = dt[d].m_dirtyStart /\ x.m_dirtyEnd = dt[d].m_dirtyEnd /\ x.bytes = dt[d].bytes
  BY SMTT(40), <1>2, <1>4, <1>5 DEF Datum, FreeData
<1>7. dt2 = [dt EXCEPT ![d] = x]
  BY DEF Unref
<1> HIDE DEF x
<1>8. dt2 \in [DataIds -> Datum] /\ dt2[d] = x /\ \A e \in DataIds : e # d => dt2[e] = dt[e]
  BY <1>1, <1>2, <1>6, <1>7
<1>9. \A e \in DataIds : e # d => b \notin Users(bf, e)
  BY DEF Users
<1>10. ASSUME NEW o \in Buffers \ {b}, IsLive(bf, o)
       PROVE  /\ InPlace(bf[o], dt2[bf[o].data])
              /\ \A i \in bf[o].start + 1 .. BytesEnd(bf[o]) :
                   dt2[bf[o].data].bytes[i] = dt[bf[o].data].bytes[i]
  <2>1. bf[o].data \in DataIds /\ InPlace(bf[o], dt[bf[o].data]) /\ o \in Users(bf, bf[o].data)
    BY <1>10, SharingOf
  <2>2. CASE bf[o].data # d
    BY <1>8, <2>1, <2>2, Zenon
  <2>3. CASE bf[o].data = d
    <3>1. o \in Users(bg, d)
      BY <1>3, <2>1, <2>3, Zenon
    <3>2. n # 1
      <4>1. Users(bg, d) # {} /\ IsFiniteSet(Users(bg, d))
        BY <3>1, UsersFinite
      <4>2. Cardinality(Users(bg, d)) # 0
        BY <4>1, FS_EmptySet
      <4> QED
        BY <1>4, <4>2
    <3> QED
      BY <1>6, <1>8, <2>1, <2>3, <3>2, Zenon DEF InPlace
  <2> QED
    BY <2>2, <2>3
<1>11. ASSUME NEW e \in DataIds
       PROVE  dt2[e].m_count = Cardinality(Users(bg, e)) /\ Covered(bg, dt2[e], e)
  <2>0. PICK z \in Nat : \A o \in Users(bf, e) : Covers(dt[e], z, bf[o])
    BY <1>1, Zenon DEF Covered
  <2>1. \A o \in Users(bg, e) : o \in Users(bf, e) /\ bg[o] = bf[o]
    BY <1>1, <1>3 DEF Users
  <2>2. CASE e # d
    <3>1. Users(bg, e) = Users(bf, e)
      BY <1>3, <1>9, <2>2
    <3>2. Covered(bg, dt[e], e)
      BY <2>0, <2>1, Zenon DEF Covered
    <3> QED
      BY <1>1, <1>8, <2>2, <3>1, <3>2, Zenon
  <2>3. CASE e = d
    <3>1. dt2[e].m_count = Cardinality(Users(bg, e))
      BY <1>4, <1>6, <1>8, <2>3
    <3>2. CASE n = 1
      <4>1. Users(bg, e) = {}
        <5>1. IsFiniteSet(Users(bg, e)) /\ Cardinality(Users(bg, e)) = 0
          BY <1>4, <2>3, <3>2, UsersFinite
        <5> QED
          BY <5>1, FS_EmptySet
      <4>2. 0 \in Nat
        OBVIOUS
      <4> QED
        BY <3>1, <4>1, <4>2, Zenon DEF Covered
    <3>3. CASE n # 1
      <4>1. x.m_dirtyEnd = dt[d].m_dirtyEnd
        BY <1>6, <3>3
      <4>2. \A o \in Users(bg, e) : Covers(dt2[e], z, bg[o])
        BY <1>8, <2>0, <2>1, <2>3, <4>1, CoversCount, Zenon
      <4> QED
        BY <3>1, <4>2, Zenon DEF Covered
    <3> QED
      BY <3>2, <3>3
  <2> QED
    BY <2>2, <2>3
<1>12. Gone \in Field \cup {Gone}
  OBVIOUS
<1>13. Safe(bf, dt, b, Gone, dt2)
  <2>1. Untouched(bf, dt, b, dt2) /\ Told(bg, dt2)
    BY <1>10, <1>11, Zenon DEF Untouched, Told
  <2> QED
    BY <1>8, <1>12, <2>1, SharingAfter, Zenon
<1>14. ASSUME NEW e \in DataIds, dt[e].m_count = 0 PROVE dt2[e].m_count = 0
  <2>1. e # d
    <3>1. dt[d].m_count # 0
      BY <1>4
    <3> QED
      BY <1>14, <3>1, Zenon
  <2> QED
    BY <1>8, <1>14, <2>1, Zenon
<1> QED
  BY <1>13, <1>14

\* A buffer comes, with a Data of its own.
LEMMA FreshSafe ==
  ASSUME NEW bf, NEW dt, Sharing(bf, dt), NEW b \in Buffers, ~IsLive(bf, b),
         NEW f \in Field, NEW x \in Datum, dt[f.data].m_count = 0, x.m_count = 1, InPlace(f, x),
         f.end <= x.m_dirtyEnd
  PROVE  Safe(bf, dt, b, f, [dt EXCEPT ![f.data] = x])
<1> PICK d : d = f.data
  OBVIOUS
<1> PICK dt2 : dt2 = [dt EXCEPT ![d] = x]
  OBVIOUS
<1> PICK bg : bg = [bf EXCEPT ![b] = f]
  OBVIOUS
<1>1. /\ bf \in [Buffers -> Field \cup {Gone}] /\ dt \in [DataIds -> Datum]
      /\ \A e \in DataIds : dt[e].m_count = Cardinality(Users(bf, e)) /\ Covered(bf, dt[e], e)
  BY Zenon DEF Sharing
<1>0. Changed(bf, b, f, bg)
  BY <1>1 DEF Changed
<1>2. d \in DataIds /\ f # Gone
  BY BuffersAre DEF Field
<1>3. Users(bf, d) = {}
  <2>1. IsFiniteSet(Users(bf, d)) /\ Cardinality(Users(bf, d)) = 0
    BY <1>1, <1>2, UsersFinite
  <2> QED
    BY <2>1, FS_EmptySet
<1>4. \A e : e # d => Users(bg, e) = Users(bf, e)
  <2>1. \A e : b \notin Users(bf, e)
    BY DEF Users
  <2>2. ASSUME NEW e, e # d PROVE Users(bg, e) = Users(bf, e)
    <3>1. Users(bg, e) = Users(bf, e) \ {b}
      BY <1>0, <2>2, UsersFewer
    <3> QED
      BY <2>1, <3>1
  <2> QED
    BY <2>2, Zenon
<1>5. Users(bg, d) = {b}
  <2>1. Users(bg, d) = Users(bf, d) \cup {b}
    BY ONLY <1>0, <1>2, b \in Buffers, d = f.data, UsersMore
  <2> QED
    BY <1>3, <2>1
<1>6. dt2 \in [DataIds -> Datum] /\ dt2[d] = x /\ \A e \in DataIds : e # d => dt2[e] = dt[e]
  BY <1>1, <1>2
<1>7. ASSUME NEW o \in Buffers \ {b}, IsLive(bf, o)
      PROVE  /\ InPlace(bf[o], dt2[bf[o].data])
             /\ \A i \in bf[o].start + 1 .. BytesEnd(bf[o]) :
                  dt2[bf[o].data].bytes[i] = dt[bf[o].data].bytes[i]
  <2>1. bf[o].data \in DataIds /\ InPlace(bf[o], dt[bf[o].data]) /\ o \in Users(bf, bf[o].data)
    BY <1>7, SharingOf
  <2>2. bf[o].data # d
    BY <1>3, <2>1
  <2> QED
    BY <1>6, <2>1, <2>2, Zenon
<1>8. ASSUME NEW e \in DataIds
      PROVE  dt2[e].m_count = Cardinality(Users(bg, e)) /\ Covered(bg, dt2[e], e)
  <2>1. CASE e # d
    <3>1. PICK z \in Nat : \A o \in Users(bf, e) : Covers(dt[e], z, bf[o])
      BY <1>1, Zenon DEF Covered
    <3>2. \A o \in Users(bg, e) : o \in Users(bf, e) /\ bg[o] = bf[o]
      <4>1. b \notin Users(bf, e)
        BY DEF Users
      <4> QED
        BY <1>1, <1>4, <2>1, <4>1 DEF Users
    <3>3. Covered(bg, dt[e], e)
      BY <3>1, <3>2, Zenon DEF Covered
    <3> QED
      BY <1>1, <1>4, <1>6, <2>1, <3>3, Zenon
  <2>2. CASE e = d
    <3>1. Cardinality({b}) = 1
      BY FS_Singleton
    <3> PICK z : z = Zeroes(f)
      OBVIOUS
    <3>2. z \in Nat /\ Covers(x, z, f)
      BY DEF Covers, Zeroes, BytesEnd, InPlace, Field, Datum
    <3>3. bg[b] = f
      BY <1>1
    <3>4. Covered(bg, x, d)
      BY <1>5, <3>2, <3>3 DEF Covered
    <3> QED
      BY <1>5, <1>6, <2>2, <3>1, <3>4, Zenon
  <2> QED
    BY <2>1, <2>2
<1>9. f \in Field \cup {Gone}
  OBVIOUS
<1>10. Safe(bf, dt, b, f, dt2)
  <2>1. f # Gone => InPlace(f, dt2[f.data])
    BY <1>6
  <2>2. Untouched(bf, dt, b, dt2) /\ Told(bg, dt2)
    BY <1>7, <1>8, Zenon DEF Untouched, Told
  <2> QED
    BY <1>6, <1>9, <2>1, <2>2, SharingAfter, Zenon
<1> QED
  BY <1>10

\* A buffer comes that shares the bytes of another.
LEMMA ShareSafe ==
  ASSUME NEW bf, NEW dt, Sharing(bf, dt), NEW b \in Buffers, IsLive(bf, b), NEW c \in Buffers, ~IsLive(bf, c),
         NEW f \in Field, f.data = bf[b].data, Within(f, bf[b]), Offsets(f, dt[f.data].bytes)
  PROVE  Safe(bf, dt, c, f, [dt EXCEPT ![f.data].m_count = @ + 1])
<1> PICK d : d = f.data
  OBVIOUS
<1> PICK x : x = [dt[d] EXCEPT !.m_count = @ + 1]
  OBVIOUS
<1> PICK dt2 : dt2 = [dt EXCEPT ![d].m_count = @ + 1]
  OBVIOUS
<1> PICK bg : bg = [bf EXCEPT ![c] = f]
  OBVIOUS
<1>1. /\ bf \in [Buffers -> Field \cup {Gone}] /\ dt \in [DataIds -> Datum]
      /\ \A e \in DataIds : dt[e].m_count = Cardinality(Users(bf, e)) /\ Covered(bf, dt[e], e)
  BY Zenon DEF Sharing
<1>0. Changed(bf, c, f, bg)
  BY <1>1 DEF Changed
<1>2. d \in DataIds /\ f # Gone /\ dt[d] \in Datum
  BY <1>1, BuffersAre DEF Field
<1>3. /\ x \in Datum /\ x.m_count = dt[d].m_count + 1 /\ x.m_dirtyStart = dt[d].m_dirtyStart
      /\ x.m_dirtyEnd = dt[d].m_dirtyEnd /\ x.bytes = dt[d].bytes
  BY SMTT(40), <1>2 DEF Datum
<1>4. dt2 \in [DataIds -> Datum] /\ dt2[d] = x /\ \A e \in DataIds : e # d => dt2[e] = dt[e]
  BY <1>1, <1>2, <1>3
<1>5. \A e : c \notin Users(bf, e)
  BY DEF Users
<1>6. \A e : e # d => Users(bg, e) = Users(bf, e)
  <2>1. ASSUME NEW e, e # d PROVE Users(bg, e) = Users(bf, e)
    <3>1. Users(bg, e) = Users(bf, e) \ {c}
      BY <1>0, <2>1, UsersFewer
    <3> QED
      BY <1>5, <3>1
  <2> QED
    BY <2>1, Zenon
<1>7. Users(bg, d) = Users(bf, d) \cup {c}
  BY SMTT(40), <1>0, <1>2, UsersMore
<1>8. bg[c] = f /\ \A o \in Buffers : o # c => bg[o] = bf[o]
  BY <1>1
<1>9. InPlace(bf[b], dt[d]) /\ b \in Users(bf, d)
  BY SharingOf
<1>10. InPlace(f, dt2[d])
  <2>1. InPlace(f, dt[d])
    <3> PICK g : g = bf[b]
      OBVIOUS
    <3>1. g \in Field /\ dt[d].m_dirtyStart <= g.start /\ dt[d].m_dirtyStart \in Nat /\ g.start <= f.start
      BY <1>2, <1>9, SharingOf DEF InPlace, Datum, Within
    <3>2. dt[d].m_dirtyStart <= f.start
      BY <3>1 DEF Field
    <3> QED
      BY <3>2, Zenon DEF InPlace, Offsets
  <2> QED
    BY <1>3, <1>4, <2>1, Zenon DEF InPlace
<1>11. ASSUME NEW o \in Buffers \ {c}, IsLive(bf, o)
       PROVE  /\ InPlace(bf[o], dt2[bf[o].data])
              /\ \A i \in bf[o].start + 1 .. BytesEnd(bf[o]) :
                   dt2[bf[o].data].bytes[i] = dt[bf[o].data].bytes[i]
  <2>1. bf[o].data \in DataIds /\ InPlace(bf[o], dt[bf[o].data])
    BY <1>11, SharingOf
  <2> QED
    BY <1>3, <1>4, <2>1, Zenon DEF InPlace
<1>12. ASSUME NEW e \in DataIds
       PROVE  dt2[e].m_count = Cardinality(Users(bg, e)) /\ Covered(bg, dt2[e], e)
  <2>0. PICK z \in Nat : \A o \in Users(bf, e) : Covers(dt[e], z, bf[o])
    BY <1>1, Zenon DEF Covered
  <2>1. CASE e # d
    <3>1. \A o \in Users(bg, e) : o \in Users(bf, e) /\ bg[o] = bf[o]
      BY <1>5, <1>6, <1>8, <2>1 DEF Users
    <3>2. Covered(bg, dt[e], e)
      BY <2>0, <3>1, Zenon DEF Covered
    <3> QED
      BY <1>1, <1>4, <1>6, <2>1, <3>2, Zenon
  <2>2. CASE e = d
    <3>1. Cardinality(Users(bg, d)) = Cardinality(Users(bf, d)) + 1
      BY ZenonT(40), <1>5, <1>7, UsersFinite, FS_AddElement
    <3>2. Covers(dt[d], z, f)
      <4> PICK g : g = bf[b]
        OBVIOUS
      <4>1. Covers(dt[d], z, g) /\ g \in Field /\ Within(f, g) /\ dt[d].m_dirtyEnd \in Nat
        BY <1>2, <1>9, <2>0, <2>2, SharingOf DEF Datum
      <4>2. Zeroes(f) \in Int /\ BytesEnd(f) \in Int /\ Zeroes(g) \in Int /\ BytesEnd(g) \in Int
        BY <4>1 DEF Zeroes, BytesEnd, Field
      <4> QED
        BY ONLY <4>1, <4>2, z \in Nat DEF Covers, Within
    <3>3. \A o \in Users(bg, d) : o # c => o \in Users(bf, d) /\ bg[o] = bf[o]
      BY <1>7, <1>8 DEF Users
    <3>4. \A o \in Users(bg, d) : Covers(dt2[d], z, bg[o])
      <4>1. ASSUME NEW o \in Users(bg, d) PROVE Covers(dt[d], z, bg[o])
        BY <1>8, <2>0, <2>2, <3>2, <3>3
      <4>2. dt2[d].m_dirtyEnd = dt[d].m_dirtyEnd
        BY <1>3, <1>4
      <4> QED
        BY <4>1, <4>2, CoversCount, Zenon
    <3>5. Covered(bg, dt2[d], d)
      BY <3>4, Zenon DEF Covered
    <3> QED
      BY <1>1, <1>2, <1>3, <1>4, <2>2, <3>1, <3>5
  <2> QED
    BY <2>1, <2>2
<1>13. f \in Field \cup {Gone} /\ Sharing(bf, dt)
  OBVIOUS
<1>14. Safe(bf, dt, c, f, dt2)
  <2>1. f # Gone => InPlace(f, dt2[f.data])
    BY <1>10
  <2>2. Untouched(bf, dt, c, dt2) /\ Told(bg, dt2)
    BY <1>11, <1>12, Zenon DEF Untouched, Told
  <2> QED
    BY <1>4, <1>13, <2>1, <2>2, SharingAfter, Zenon
<1> QED
  BY <1>14

\* A buffer changes in its place: only its own bytes, and those next to it.
LEMMA InPlaceSafe ==
  ASSUME NEW bf, NEW dt, Sharing(bf, dt), NEW b \in Buffers, IsLive(bf, b),
         NEW f \in Field, f.data = bf[b].data, NEW x \in Datum, x.m_count = dt[f.data].m_count, InPlace(f, x),
         \A o \in Users(bf, f.data) : o # b =>
           /\ x.m_dirtyStart <= bf[o].start /\ BytesEnd(bf[o]) <= Len(x.bytes)
           /\ \A i \in bf[o].start + 1 .. BytesEnd(bf[o]) : x.bytes[i] = dt[f.data].bytes[i],
         NEW z \in Nat, Covers(x, z, f), \A o \in Users(bf, f.data) : o # b => Covers(x, z, bf[o])
  PROVE  Safe(bf, dt, b, f, [dt EXCEPT ![f.data] = x])
<1> PICK d : d = f.data
  OBVIOUS
<1> PICK dt2 : dt2 = [dt EXCEPT ![d] = x]
  OBVIOUS
<1> PICK bg : bg = [bf EXCEPT ![b] = f]
  OBVIOUS
<1>1. /\ bf \in [Buffers -> Field \cup {Gone}] /\ dt \in [DataIds -> Datum]
      /\ \A e \in DataIds : dt[e].m_count = Cardinality(Users(bf, e)) /\ Covered(bf, dt[e], e)
  BY Zenon DEF Sharing
<1>0. Changed(bf, b, f, bg)
  BY <1>1 DEF Changed
<1>2. d \in DataIds /\ f # Gone /\ b \in Users(bf, d)
  BY BuffersAre, SharingOf DEF Field
<1>3. dt2 \in [DataIds -> Datum] /\ dt2[d] = x /\ \A e \in DataIds : e # d => dt2[e] = dt[e]
  BY <1>1, <1>2
<1>4. \A e : Users(bg, e) = Users(bf, e)
  <2>1. ASSUME NEW e PROVE Users(bg, e) = Users(bf, e)
    <3>1. CASE e = d
      <4>1. Users(bg, e) = Users(bf, e) \cup {b}
        <5>1. f # Gone /\ f.data = e
          BY <1>2, <3>1
        <5> QED
          BY ONLY SMTT(40), <1>0, <5>1, b \in Buffers, UsersMore
      <4> QED
        BY <1>2, <3>1, <4>1
    <3>2. CASE e # d
      <4>1. Users(bg, e) = Users(bf, e) \ {b}
        BY <1>0, <3>2, UsersFewer
      <4>2. b \notin Users(bf, e)
        BY <3>2 DEF Users
      <4> QED
        BY <4>1, <4>2
    <3> QED
      BY <3>1, <3>2
  <2> QED
    BY <2>1, Zenon
<1>5. bg[b] = f /\ \A o \in Buffers : o # b => bg[o] = bf[o]
  BY <1>1
<1>6. ASSUME NEW o \in Buffers \ {b}, IsLive(bf, o)
      PROVE  /\ InPlace(bf[o], dt2[bf[o].data])
             /\ \A i \in bf[o].start + 1 .. BytesEnd(bf[o]) :
                  dt2[bf[o].data].bytes[i] = dt[bf[o].data].bytes[i]
  <2>1. bf[o].data \in DataIds /\ InPlace(bf[o], dt[bf[o].data]) /\ o \in Users(bf, bf[o].data) /\ o # b
    BY <1>6, SharingOf
  <2>2. CASE bf[o].data # d
    BY <1>3, <2>1, <2>2, Zenon
  <2>3. CASE bf[o].data = d
    <3>1. o \in Users(bf, f.data) /\ dt2[bf[o].data] = x
      BY <1>3, <2>1, <2>3
    <3>2. /\ x.m_dirtyStart <= bf[o].start /\ BytesEnd(bf[o]) <= Len(x.bytes)
          /\ \A i \in bf[o].start + 1 .. BytesEnd(bf[o]) : x.bytes[i] = dt[f.data].bytes[i]
      BY <2>1, <3>1, Zenon
    <3> QED
      BY <2>1, <2>3, <3>1, <3>2, Zenon DEF InPlace
  <2> QED
    BY <2>2, <2>3
<1>7. ASSUME NEW e \in DataIds
      PROVE  dt2[e].m_count = Cardinality(Users(bg, e)) /\ Covered(bg, dt2[e], e)
  <2>1. dt2[e].m_count = Cardinality(Users(bg, e))
    BY <1>1, <1>3, <1>4, Zenon
  <2>2. CASE e = d
    <3>1. \A o \in Users(bg, d) : Covers(x, z, bg[o])
      <4>1. \A o \in Users(bg, d) : o \in Buffers /\ o \in Users(bf, d)
        <5>1. Users(bg, d) = Users(bf, d)
          BY ONLY <1>4
        <5>2. \A o \in Users(bf, d) : o \in Buffers
          BY ONLY TRUE DEF Users
        <5> QED
          BY ONLY <5>1, <5>2
      <4> QED
        BY <1>5, <4>1, Zenon
    <3> QED
      BY <1>3, <2>1, <2>2, <3>1, Zenon DEF Covered
  <2>3. CASE e # d
    <3>1. PICK w \in Nat : \A o \in Users(bf, e) : Covers(dt[e], w, bf[o])
      BY <1>1, Zenon DEF Covered
    <3>2. \A o \in Users(bg, e) : o \in Users(bf, e) /\ bg[o] = bf[o]
      BY <1>4, <1>5, <2>3 DEF Users
    <3> QED
      BY <1>3, <2>1, <2>3, <3>1, <3>2, Zenon DEF Covered
  <2> QED
    BY <2>2, <2>3
<1>8. f \in Field \cup {Gone} /\ InPlace(f, dt2[d])
  BY <1>3
<1>9. Safe(bf, dt, b, f, dt2)
  <2>1. Untouched(bf, dt, b, dt2) /\ Told(bg, dt2)
    BY <1>6, <1>7, Zenon DEF Untouched, Told
  <2> QED
    BY <1>3, <1>8, <2>1, SharingAfter, Zenon
<1> QED
  BY <1>9

\* A buffer becomes a part of one that has the same bytes.
LEMMA WithinSafe ==
  ASSUME NEW bf, NEW dt, Sharing(bf, dt), NEW b \in Buffers, IsLive(bf, b), NEW c \in Buffers, IsLive(bf, c),
         bf[c].data = bf[b].data, NEW f \in Field, f.data = bf[b].data, Within(f, bf[b]),
         Offsets(f, dt[f.data].bytes)
  PROVE  Safe(bf, dt, c, f, dt)
<1> PICK d : d = f.data
  OBVIOUS
<1> PICK x : x = dt[d]
  OBVIOUS
<1> PICK g : g = bf[b]
  OBVIOUS
<1>1. dt \in [DataIds -> Datum] /\ d \in DataIds /\ x \in Datum
  BY SharingOf DEF Sharing
<1>2. g \in Field /\ InPlace(g, x) /\ b \in Users(bf, d) /\ c \in Users(bf, d)
  BY SharingOf
<1>3. InPlace(f, x)
  <2>1. x.m_dirtyStart <= f.start
    BY SMTT(40), <1>1, <1>2 DEF InPlace, Within, Datum, Field
  <2> QED
    BY <2>1, Zenon DEF InPlace, Offsets
<1>4. PICK z \in Nat : \A o \in Users(bf, d) : Covers(x, z, bf[o])
  <2>1. Covered(bf, x, d)
    BY <1>1, Zenon DEF Sharing
  <2> QED
    BY <2>1, Zenon DEF Covered
<1>5. Covers(x, z, f)
  <2>1. Covers(x, z, g) /\ Within(f, g) /\ x.m_dirtyEnd \in Nat
    BY <1>1, <1>2, <1>4 DEF Datum
  <2>2. Zeroes(f) \in Int /\ BytesEnd(f) \in Int /\ Zeroes(g) \in Int /\ BytesEnd(g) \in Int
    BY <1>2 DEF Zeroes, BytesEnd, Field
  <2> QED
    BY ONLY <2>1, <2>2, z \in Nat DEF Covers, Within
<1>6. \A o \in Users(bf, d) : x.m_dirtyStart <= bf[o].start /\ BytesEnd(bf[o]) <= Len(x.bytes)
  <2>1. ASSUME NEW o \in Users(bf, d) PROVE InPlace(bf[o], x)
    <3>1. o \in Buffers /\ IsLive(bf, o) /\ bf[o].data = d
      BY DEF Users
    <3> QED
      BY <3>1, SharingOf
  <2> QED
    BY <2>1, Zenon DEF InPlace
<1>7. [dt EXCEPT ![d] = x] = dt
  BY <1>1
<1>8. Safe(bf, dt, c, f, [dt EXCEPT ![d] = x])
  BY <1>1, <1>3, <1>4, <1>5, <1>6, InPlaceSafe
<1> QED
  BY <1>7, <1>8

----------------------------------------------------------------------------
(* Adding bytes.                                                           *)

Over(y, k, bs) == [i \in DOMAIN y |-> IF i > k /\ i <= k + Len(bs) THEN bs[i - k] ELSE y[i]]

LEMMA Overwritten ==
  ASSUME NEW y \in Seq(Int), NEW k \in Nat, NEW bs \in Seq(Int), k + Len(bs) <= Len(y)
  PROVE  /\ Over(y, k, bs) \in Seq(Int) /\ Len(Over(y, k, bs)) = Len(y) /\ Holding(Over(y, k, bs), k, bs)
         /\ \A i \in 1 .. Len(y) : i <= k \/ i > k + Len(bs) => Over(y, k, bs)[i] = y[i]
<1> PICK m \in Nat : m = Len(y)
  OBVIOUS
<1> PICK n \in Nat : n = Len(bs)
  OBVIOUS
<1> DEFINE e(i) == IF i > k /\ i <= k + n THEN bs[i - k] ELSE y[i]
<1> PICK q : q = [i \in 1 .. m |-> e(i)]
  OBVIOUS
<1>1. Over(y, k, bs) = q
  <2>1. DOMAIN y = 1 .. m
    OBVIOUS
  <2> QED
    BY <2>1, Zenon DEF Over
<1>2. (\A i \in 1 .. m : y[i] \in Int) /\ \A i \in 1 .. n : bs[i] \in Int
  OBVIOUS
<1>3. ASSUME NEW i \in 1 .. m PROVE e(i) \in Int
  <2>1. CASE i > k /\ i <= k + n
    <3>1. i - k \in 1 .. n
      BY ONLY <2>1, i \in 1 .. m, k \in Nat, n \in Nat, m \in Nat
    <3> QED
      BY <1>2, <2>1, <3>1
  <2>2. CASE ~(i > k /\ i <= k + n)
    BY <1>2, <2>2
  <2> QED
    BY <2>1, <2>2
<1>4. q \in Seq(Int) /\ Len(q) = m
  BY <1>3
<1>5. \A i \in 1 .. m : q[i] = e(i)
  OBVIOUS
<1>6. ASSUME NEW i \in 1 .. n PROVE q[k + i] = bs[i]
  <2>1. k + i \in 1 .. m /\ k + i > k /\ k + i <= k + n /\ (k + i) - k = i
    BY ONLY i \in 1 .. n, k \in Nat, n \in Nat, m \in Nat, m = Len(y), n = Len(bs), k + Len(bs) <= Len(y)
  <2> QED
    BY <1>5, <2>1, Zenon
<1>7. ASSUME NEW i \in 1 .. m, i <= k \/ i > k + n PROVE q[i] = y[i]
  <2>1. ~(i > k /\ i <= k + n)
    BY ONLY <1>7, i \in 1 .. m, k \in Nat, n \in Nat, m \in Nat
  <2> QED
    BY <1>5, <2>1, Zenon
<1> HIDE DEF e
<1> QED
  BY <1>1, <1>4, <1>6, <1>7, Zenon DEF Holding

\* The Data dt, with z for the bytes of d.
WithBytes(dt, d, z) == [dt EXCEPT ![d] = [dt[d] EXCEPT !.bytes = z]]

LEMMA WriteIs ==
  ASSUME NEW g \in Field, NEW dt \in [DataIds -> Datum], NEW v, NEW bs, NEW k,
         k = IF v < g.zeroStart THEN v ELSE v - Zeroes(g)
  PROVE  Write([f |-> g, data |-> dt], v, bs) =
           [f |-> g, data |-> WithBytes(dt, g.data, Over(dt[g.data].bytes, k, bs))]
<1> PICK s : s = [f |-> g, data |-> dt]
  OBVIOUS
<1> PICK y : y = Over(dt[g.data].bytes, k, bs)
  OBVIOUS
<1>1. s.f = g /\ s.data = dt
  OBVIOUS
<1>2. Write(s, v, bs) = [s EXCEPT !.data[g.data].bytes = y]
  BY <1>1, Zenon DEF Write, Over
<1>3. [s EXCEPT !.data[g.data].bytes = y]
        = [f |-> g, data |-> [dt EXCEPT ![g.data] = [dt[g.data] EXCEPT !.bytes = y]]]
  OBVIOUS
<1> QED
  BY <1>2, <1>3 DEF WithBytes

\* One Data for another.
LEMMA ReplacedSafe ==
  ASSUME NEW bf, NEW dt, Sharing(bf, dt), NEW b \in Buffers, IsLive(bf, b),
         NEW g \in Field, g.data = Unused(dt), NEW x \in Datum, x.m_count = 1, InPlace(g, x),
         g.end <= x.m_dirtyEnd
  PROVE  Safe(bf, dt, b, g, [Unref(dt, bf[b].data) EXCEPT ![g.data] = x])
<1> PICK dt1 : dt1 = Unref(dt, bf[b].data)
  OBVIOUS
<1> PICK bg : bg = [bf EXCEPT ![b] = Gone]
  OBVIOUS
<1>1. bf \in [Buffers -> Field \cup {Gone}]
  BY Zenon DEF Sharing
<1>2. g.data \in DataIds /\ dt[g.data].m_count = 0
  BY OneUnused
<1>3. Safe(bf, dt, b, Gone, dt1) /\ dt1[g.data].m_count = 0
  BY <1>2, ReleaseSafe
<1>4. Sharing(bg, dt1) /\ ~IsLive(bg, b)
  BY <1>1, <1>3 DEF Safe, IsLive
<1> PICK dt2 : dt2 = [dt1 EXCEPT ![g.data] = x]
  OBVIOUS
<1>5. Safe(bg, dt1, b, g, dt2)
  BY <1>3, <1>4, FreshSafe
<1>6. Safe(bf, dt, b, g, dt2)
  BY ONLY <1>1, <1>3, <1>5, b \in Buffers, bg = [bf EXCEPT ![b] = Gone], TwoSteps, Zenon
<1> QED
  BY <1>6

\* Two buffers that look at the same Data are counted.
LEMMA AloneOrCounted ==
  ASSUME NEW bf, NEW dt, Sharing(bf, dt), NEW b \in Buffers, IsLive(bf, b),
         NEW o \in Users(bf, bf[b].data), o # b
  PROVE  dt[bf[b].data].m_count > 1
<1> PICK d : d = bf[b].data
  OBVIOUS
<1>1. d \in DataIds /\ b \in Users(bf, d)
  BY SharingOf
<1>2. IsFiniteSet(Users(bf, d)) /\ Cardinality(Users(bf, d)) \in Nat
  BY UsersFinite
<1>3. {b, o} \in SUBSET Users(bf, d)
  BY <1>1
<1>4. IsFiniteSet({b}) /\ Cardinality({b}) = 1
  BY FS_Singleton
<1>5. Cardinality({b} \cup {o}) = 1 + 1
  BY <1>4, FS_AddElement
<1>6. {b} \cup {o} = {b, o}
  OBVIOUS
<1>7. Cardinality({b, o}) <= Cardinality(Users(bf, d))
  BY <1>2, <1>3, FS_Subset
<1>8. dt[d].m_count = Cardinality(Users(bf, d))
  BY <1>1, Zenon DEF Sharing
<1> QED
  BY <1>2, <1>5, <1>6, <1>7, <1>8

\* Buffer b becomes what s says, holding c.
Does(bf, dt, b, s, c) == s.f \in Field /\ Safe(bf, dt, b, s.f, s.data) /\ ReadBytes(s.f, s.data) = c

\* The bytes of f moved.
MovedBytes(f, y, k, n) ==
  [i \in 1 .. n |-> IF i > k /\ i <= k + InternalSize(f) THEN y[f.start + i - k] ELSE Junk]

\* u is n bytes, those of f after the first k.
MovedTo(f, y, k, n, u) ==
  /\ u \in Seq(Int) /\ Len(u) = n
  /\ \A i \in 1 .. InternalSize(f) : u[k + i] = y[f.start + i]

LEMMA MovedTyped ==
  ASSUME NEW f, NEW y, Offsets(f, y), NEW k \in Nat, NEW n \in Nat, k + InternalSize(f) <= n
  PROVE  MovedTo(f, y, k, n, MovedBytes(f, y, k, n))
<1> PICK m : m = InternalSize(f)
  OBVIOUS
<1> PICK fs \in Nat : fs = f.start
  BY DEF Offsets
<1>1. m \in Nat /\ fs + m <= Len(y) /\ Len(y) \in Nat /\ \A i \in 1 .. Len(y) : y[i] \in Int
  <2>1. m \in Nat /\ BytesEnd(f) = fs + m /\ BytesEnd(f) <= Len(y)
    BY OffsetsTyped DEF Offsets
  <2> QED
    BY <2>1, OffsetsTyped
<1> DEFINE e(i) == IF i > k /\ i <= k + m THEN y[fs + i - k] ELSE Junk
<1> PICK q : q = [i \in 1 .. n |-> e(i)]
  OBVIOUS
<1>2. MovedBytes(f, y, k, n) = q
  BY Zenon DEF MovedBytes
<1>3. ASSUME NEW i \in 1 .. n PROVE e(i) \in Int
  <2>1. Junk \in Int
    BY DEF Junk
  <2>2. CASE i > k /\ i <= k + m
    <3>1. fs + i - k \in 1 .. Len(y)
      BY ONLY <1>1, <2>2, fs \in Nat, k \in Nat, n \in Nat, i \in 1 .. n
    <3> QED
      BY <1>1, <2>2, <3>1
  <2>3. CASE ~(i > k /\ i <= k + m)
    BY <2>1, <2>3
  <2> QED
    BY <2>2, <2>3
<1>4. q \in Seq(Int) /\ Len(q) = n /\ \A i \in 1 .. n : q[i] = e(i)
  BY <1>3
<1>5. ASSUME NEW i \in 1 .. m PROVE q[k + i] = y[fs + i]
  <2>1. k + i \in 1 .. n /\ k + i > k /\ k + i <= k + m /\ fs + (k + i) - k = fs + i
    BY ONLY <1>1, i \in 1 .. m, k \in Nat, n \in Nat, fs \in Nat, k + InternalSize(f) <= n, m = InternalSize(f)
  <2> QED
    BY <1>4, <2>1, Zenon
<1> HIDE DEF e
<1>6. MovedTo(f, y, k, n, q)
  BY ONLY <1>4, <1>5, m = InternalSize(f), fs = f.start DEF MovedTo
<1> QED
  BY ONLY <1>2, <1>6

LEMMA UnrefTyped ==
  ASSUME NEW bf, NEW dt, Sharing(bf, dt), NEW b \in Buffers, IsLive(bf, b)
  PROVE  Unref(dt, bf[b].data) \in [DataIds -> Datum]
<1>1. Safe(bf, dt, b, Gone, Unref(dt, bf[b].data))
  BY ReleaseSafe
<1> QED
  BY <1>1, Zenon DEF Safe, Sharing

\* Written to the Data it has: its dirty area and bytes are others.
Rewritten(dt, d, a, e, z) ==
  [dt EXCEPT ![d] = [m_count |-> dt[d].m_count, m_dirtyStart |-> a, m_dirtyEnd |-> e, bytes |-> z]]

\* To write bs at v makes dt2 of dt1.
Writes(g, dt1, v, bs, dt2) == Write([f |-> g, data |-> dt1], v, bs) = [f |-> g, data |-> dt2]

LEMMA WrittenInPlace ==
  ASSUME NEW g \in Field, NEW dt \in [DataIds -> Datum], NEW a \in Nat, NEW e \in Nat, NEW v, NEW bs, NEW k,
         k = IF v < g.zeroStart THEN v ELSE v - Zeroes(g),
         NEW dt1, dt1 = [dt EXCEPT ![g.data] = [dt[g.data] EXCEPT !.m_dirtyStart = a, !.m_dirtyEnd = e]]
  PROVE  Writes(g, dt1, v, bs, Rewritten(dt, g.data, a, e, Over(dt[g.data].bytes, k, bs)))
<1> PICK d \in DataIds : d = g.data
  BY DEF Field
<1> PICK x \in Datum : x = dt[d]
  OBVIOUS
<1> PICK y : y = Over(x.bytes, k, bs)
  OBVIOUS
<1> PICK x1 : x1 = [x EXCEPT !.m_dirtyStart = a, !.m_dirtyEnd = e]
  OBVIOUS
<1>1. x1 \in Datum /\ x1.bytes = x.bytes
  BY DEF Datum
<1>2. dt1 = [dt EXCEPT ![d] = x1]
  OBVIOUS
<1>3. dt1 \in [DataIds -> Datum] /\ dt1[d] = x1
  BY ONLY <1>1, <1>2, dt \in [DataIds -> Datum], d \in DataIds
<1>4. Write([f |-> g, data |-> dt1], v, bs) = [f |-> g, data |-> WithBytes(dt1, g.data, Over(dt1[g.data].bytes, k, bs))]
  BY ONLY <1>3, g \in Field, k = IF v < g.zeroStart THEN v ELSE v - Zeroes(g), WriteIs
<1>5. [dt1[d] EXCEPT !.bytes = Over(dt1[d].bytes, k, bs)]
        = [m_count |-> x.m_count, m_dirtyStart |-> a, m_dirtyEnd |-> e, bytes |-> y]
  <2>1. [x1 EXCEPT !.bytes = y] = [m_count |-> x.m_count, m_dirtyStart |-> a, m_dirtyEnd |-> e, bytes |-> y]
    <3>1. x = [m_count |-> x.m_count, m_dirtyStart |-> x.m_dirtyStart, m_dirtyEnd |-> x.m_dirtyEnd, bytes |-> x.bytes]
      BY ONLY x \in Datum DEF Datum
    <3>2. x1 = [m_count |-> x.m_count, m_dirtyStart |-> a, m_dirtyEnd |-> e, bytes |-> x.bytes]
      BY ONLY <3>1, x1 = [x EXCEPT !.m_dirtyStart = a, !.m_dirtyEnd = e]
    <3> QED
      BY ONLY <3>2
  <2> QED
    BY <1>1, <1>3, <2>1
<1> PICK w : w = [m_count |-> x.m_count, m_dirtyStart |-> a, m_dirtyEnd |-> e, bytes |-> y]
  OBVIOUS
<1>6. [dt1 EXCEPT ![d] = w] = [dt EXCEPT ![d] = w]
  BY ONLY <1>2, dt \in [DataIds -> Datum], d \in DataIds
<1>7. WithBytes(dt1, d, Over(dt1[d].bytes, k, bs)) = [dt EXCEPT ![d] = w]
  BY ONLY <1>5, <1>6, w = [m_count |-> x.m_count, m_dirtyStart |-> a, m_dirtyEnd |-> e, bytes |-> y] DEF WithBytes
<1>8. Rewritten(dt, d, a, e, y) = [dt EXCEPT ![d] = w]
  BY ONLY x = dt[d], w = [m_count |-> x.m_count, m_dirtyStart |-> a, m_dirtyEnd |-> e, bytes |-> y] DEF Rewritten
<1> QED
  BY ONLY <1>4, <1>7, <1>8, d = g.data, x = dt[d], y = Over(x.bytes, k, bs) DEF Writes

\* f with n more bytes before, in its Data x or in another, d; x must be clean there.
Ahead(f, n) == [f EXCEPT !.start = f.start - n]
AheadData(f, x, bs) ==
  [m_count |-> x.m_count, m_dirtyStart |-> f.start - Len(bs), m_dirtyEnd |-> x.m_dirtyEnd,
   bytes |-> Over(x.bytes, f.start - Len(bs), bs)]
CleanAhead(f, x) == x.m_count > 1 => f.start <= x.m_dirtyStart
FreshAhead(f, d, n) ==
  [data |-> d, start |-> 0, zeroStart |-> f.zeroStart - f.start + n,
   zeroEnd |-> f.zeroEnd - f.start + n, end |-> f.end - f.start + n]
FreshAheadData(f, x, bs, l) ==
  [m_count |-> 1, m_dirtyStart |-> 0, m_dirtyEnd |-> f.end - f.start + Len(bs),
   bytes |-> Over(MovedBytes(f, x.bytes, Len(bs), l), 0, bs)]

LEMMA PrependInPlace ==
  ASSUME NEW bf, NEW dt, Sharing(bf, dt), NEW b \in Buffers, IsLive(bf, b),
         NEW bs \in Seq(Int), NEW n \in Nat, n = Len(bs), n > 0,
         NEW f, f = bf[b], n <= f.start, CleanAhead(f, dt[f.data]),
         NEW g, g = Ahead(f, n), NEW x, x = AheadData(f, dt[f.data], bs)
  PROVE  Does(bf, dt, b, [f |-> g, data |-> [dt EXCEPT ![f.data] = x]], bs \o ReadBytes(f, dt))
<1> PICK d : d = f.data
  OBVIOUS
<1>1. /\ f \in Field /\ d \in DataIds /\ dt[d] \in Datum /\ InPlace(f, dt[d]) /\ b \in Users(bf, d)
      /\ Offsets(f, dt[d].bytes) /\ dt \in [DataIds -> Datum]
  BY SharingOf, Zenon DEF Sharing
<1> PICK y \in Seq(Int) : y = dt[d].bytes
  BY <1>1 DEF Datum
<1> PICK fs, fz, fe, fn \in Nat : f.start = fs /\ f.zeroStart = fz /\ f.zeroEnd = fe /\ f.end = fn
  BY <1>1 DEF Field
<1>0. fs - n \in Nat /\ (fs - n) + n = fs
  BY ONLY n <= f.start, f.start = fs, fs \in Nat, n \in Nat
<1> PICK k \in Nat : k = fs - n /\ k + n = fs
  BY ONLY <1>0
<1> PICK m \in Nat : m = Len(y)
  OBVIOUS
<1>2. fs <= fz /\ fz <= fe /\ fe <= fn /\ fn - (fe - fz) <= m
  BY <1>1 DEF Offsets, BytesEnd, Zeroes
<1>3. g \in Field /\ g.data = d /\ g.start = k /\ g.zeroStart = fz /\ g.zeroEnd = fe /\ g.end = fn
  BY <1>1 DEF Field, Ahead
<1>4. /\ Zeroes(f) = fe - fz /\ Zeroes(g) = fe - fz /\ BytesEnd(f) = fn - (fe - fz) /\ BytesEnd(g) = fn - (fe - fz)
      /\ InternalSize(f) = fn - fs - (fe - fz)
  BY <1>3 DEF Zeroes, BytesEnd, InternalSize, GetSize
<1> PICK z : z = Over(y, k, bs)
  OBVIOUS
<1>5. /\ z \in Seq(Int) /\ Len(z) = m /\ Holding(z, k, bs)
      /\ \A i \in 1 .. m : i <= k \/ i > k + n => z[i] = y[i]
  <2>1. k + n <= m
    BY ONLY <1>2, k + n = fs, k \in Nat, fs \in Nat, fz \in Nat, fe \in Nat, fn \in Nat, m \in Nat
  <2>2. k + Len(bs) <= Len(y)
    BY ONLY <2>1, n = Len(bs), m = Len(y)
  <2>3. /\ Over(y, k, bs) \in Seq(Int) /\ Len(Over(y, k, bs)) = Len(y) /\ Holding(Over(y, k, bs), k, bs)
        /\ \A i \in 1 .. Len(y) : i <= k \/ i > k + Len(bs) => Over(y, k, bs)[i] = y[i]
    BY ONLY <2>2, y \in Seq(Int), bs \in Seq(Int), k \in Nat, Overwritten, ZenonT(40)
  <2> QED
    BY ONLY <2>3, z = Over(y, k, bs), n = Len(bs), m = Len(y)
<1>6. x \in Datum /\ x.bytes = z /\ x.m_count = dt[d].m_count /\ x.m_dirtyStart = k /\ x.m_dirtyEnd = dt[d].m_dirtyEnd
  BY <1>1, <1>5 DEF Datum, AheadData
<1>7. Offsets(g, z) /\ InPlace(g, x)
  <2>1. k <= fz /\ k \in Nat
    BY ONLY <1>2, k + n = fs, k \in Nat, n \in Nat, fs \in Nat, fz \in Nat
  <2>2. Len(z) = m /\ BytesEnd(g) <= m
    BY ONLY <1>2, <1>4, <1>5
  <2>3. k <= k
    BY ONLY <2>1
  <2>4. g.start <= g.zeroStart /\ g.zeroStart <= g.zeroEnd /\ g.zeroEnd <= g.end /\ BytesEnd(g) <= Len(z)
    BY ONLY <1>2, <1>3, <2>1, <2>2
  <2> QED
    BY ONLY <1>3, <1>5, <1>6, <2>3, <2>4, k \in Nat, fz \in Nat, fe \in Nat, fn \in Nat DEF Offsets, InPlace
<1>8. PICK w \in Nat : \A o \in Users(bf, d) : Covers(dt[d], w, bf[o])
  BY <1>1, Zenon DEF Sharing, Covered
<1>9. \A o \in Users(bf, d) : Covers(x, w, bf[o])
  BY <1>6, <1>8, CoversCount, ZenonT(40)
<1>10. Covers(x, w, g)
  BY <1>1, <1>4, <1>9, Zenon DEF Covers
<1>11. ASSUME NEW o \in Users(bf, d), o # b
       PROVE  /\ x.m_dirtyStart <= bf[o].start /\ BytesEnd(bf[o]) <= Len(x.bytes)
              /\ \A i \in bf[o].start + 1 .. BytesEnd(bf[o]) : x.bytes[i] = y[i]
  <2>1. o \in Buffers /\ IsLive(bf, o) /\ bf[o].data = d
    BY DEF Users
  <2>2. Offsets(bf[o], y) /\ InPlace(bf[o], dt[d])
    BY <2>1, SharingOf
  <2>3. dt[d].m_count > 1
    BY <1>11, AloneOrCounted
  <2>4. fs <= dt[d].m_dirtyStart /\ dt[d].m_dirtyStart \in Nat
    BY <1>1, <2>3 DEF Datum, CleanAhead
  <2> PICK os \in Nat : os = bf[o].start
    BY <2>2 DEF Offsets
  <2> PICK oe \in Nat : oe = BytesEnd(bf[o])
    BY <2>2, OffsetsTyped
  <2>5. oe <= m /\ fs <= os
    <3>1. dt[d].m_dirtyStart <= bf[o].start /\ BytesEnd(bf[o]) <= Len(dt[d].bytes)
      BY ONLY <2>2, Zenon DEF InPlace
    <3>2. fs <= dt[d].m_dirtyStart /\ dt[d].m_dirtyStart <= os /\ oe <= m
      BY ONLY <2>4, <3>1, os = bf[o].start, oe = BytesEnd(bf[o]), m = Len(y), y = dt[d].bytes
    <3> QED
      BY ONLY <2>4, <3>2, fs \in Nat, os \in Nat
  <2>6. ASSUME NEW i \in os + 1 .. oe PROVE z[i] = y[i]
    <3>1. i \in 1 .. m /\ i > k + n
      BY ONLY <2>5, i \in os + 1 .. oe, os \in Nat, oe \in Nat, m \in Nat, k + n = fs, fs \in Nat
    <3> QED
      BY <1>5, <3>1
  <2>7. k <= os
    BY SMTT(40), <2>5
  <2> QED
    BY SMTT(40), <1>5, <1>6, <2>5, <2>6, <2>7
<1> PICK dt2 : dt2 = [dt EXCEPT ![d] = x]
  OBVIOUS
<1>12. Safe(bf, dt, b, g, dt2)
  <2>1. g.data = bf[b].data /\ x.m_count = dt[g.data].m_count
    BY ONLY <1>3, <1>6, d = f.data, f = bf[b]
  <2>2. \A o \in Users(bf, g.data) : o # b =>
          /\ x.m_dirtyStart <= bf[o].start /\ BytesEnd(bf[o]) <= Len(x.bytes)
          /\ \A i \in bf[o].start + 1 .. BytesEnd(bf[o]) : x.bytes[i] = dt[g.data].bytes[i]
    BY ONLY <1>3, <1>11, y = dt[d].bytes
  <2>3. \A o \in Users(bf, g.data) : o # b => Covers(x, w, bf[o])
    BY ONLY <1>3, <1>9
  <2>4. dt2 = [dt EXCEPT ![g.data] = x]
    BY ONLY <1>3, dt2 = [dt EXCEPT ![d] = x]
  <2> QED
    BY ONLY <1>3, <1>6, <1>7, <1>10, <2>1, <2>2, <2>3, <2>4, Sharing(bf, dt), b \in Buffers, IsLive(bf, b),
            w \in Nat, InPlaceSafe
<1>13. ReadOf(g, z) = bs \o ReadOf(f, y)
  <2>1. ZeroesAlike(f, g, n)
    BY SMTT(40), <1>3, <1>4 DEF ZeroesAlike
  <2>2. ASSUME NEW i \in 1 .. InternalSize(f) PROVE z[g.start + n + i] = y[f.start + i]
    <3>1. fs + i \in 1 .. m /\ fs + i > k + n /\ k + n + i = fs + i
      BY ONLY <1>2, <1>4, i \in 1 .. InternalSize(f), k + n = fs, fs \in Nat, m \in Nat, k \in Nat, n \in Nat,
              fz \in Nat, fe \in Nat, fn \in Nat
    <3> QED
      BY ZenonT(40), <1>3, <1>5, <3>1
  <2>3. Carried(f, y, g, z, n) /\ Holding(z, g.start, bs) /\ g.end - g.zeroEnd = f.end - f.zeroEnd
    BY <1>3, <1>5, <2>2, Zenon DEF Carried
  <2> QED
    BY ONLY <1>1, <1>7, <2>1, <2>3, y = dt[d].bytes, n = Len(bs), bs \in Seq(Int), ReadsMoreBefore
<1>14. dt2[d].bytes = z
  BY SMTT(40), <1>1, <1>6
<1>15. ReadBytes(g, dt2) = bs \o ReadBytes(f, dt)
  BY <1>3, <1>13, <1>14, ReadsBytes
<1> QED
  BY <1>3, <1>12, <1>15 DEF Does

\* A buffer with bs before, in a Data of its own; and one with bs behind.
LEMMA PrependMoved ==
  ASSUME NEW bf, NEW dt, Sharing(bf, dt), NEW b \in Buffers, IsLive(bf, b),
         NEW bs \in Seq(Int), NEW n \in Nat, n = Len(bs), NEW slack \in Nat,
         NEW f, f = bf[b],
         NEW g, g = FreshAhead(f, Unused(dt), n),
         NEW l, l = InternalSize(f) + n + slack,
         NEW x, x = FreshAheadData(f, dt[f.data], bs, l)
  PROVE  Does(bf, dt, b, [f |-> g, data |-> [Unref(dt, f.data) EXCEPT ![g.data] = x]], bs \o ReadBytes(f, dt))
<1> PICK d : d = f.data
  OBVIOUS
<1>1. f \in Field /\ d \in DataIds /\ dt[d] \in Datum /\ Offsets(f, dt[d].bytes)
  BY SharingOf, Zenon
<1> PICK y \in Seq(Int) : y = dt[d].bytes
  BY <1>1 DEF Datum
<1> PICK fs, fz, fe, fn \in Nat : f.start = fs /\ f.zeroStart = fz /\ f.zeroEnd = fe /\ f.end = fn
  BY <1>1 DEF Field
<1>2. fs <= fz /\ fz <= fe /\ fe <= fn
  BY <1>1 DEF Offsets
<1> PICK gz, ge, gn \in Nat : gz = fz - fs + n /\ ge = fe - fs + n /\ gn = fn - fs + n
  BY SMTT(40), <1>2
<1> PICK m \in Nat : m = fn - fs - (fe - fz)
  BY <1>2
<1>3. Unused(dt) \in DataIds
  BY OneUnused
<1>4. g \in Field /\ g.data = Unused(dt) /\ g.start = 0 /\ g.zeroStart = gz /\ g.zeroEnd = ge /\ g.end = gn
  BY <1>3 DEF Field, FreshAhead
<1>5. /\ Zeroes(f) = fe - fz /\ Zeroes(g) = ge - gz /\ BytesEnd(g) = gn - (ge - gz) /\ InternalSize(f) = m
  BY <1>4 DEF Zeroes, BytesEnd, InternalSize, GetSize
<1>a. l = m + n + slack /\ l \in Nat
  BY SMTT(40), <1>5
<1> PICK u : u = MovedBytes(f, y, n, l)
  OBVIOUS
<1>6. u \in Seq(Int) /\ Len(u) = l /\ \A i \in 1 .. m : u[n + i] = y[fs + i]
  <2>1. n + InternalSize(f) <= l
    BY <1>5, <1>a
  <2>2. /\ MovedBytes(f, y, n, l) \in Seq(Int) /\ Len(MovedBytes(f, y, n, l)) = l
        /\ \A i \in 1 .. InternalSize(f) : MovedBytes(f, y, n, l)[n + i] = y[f.start + i]
    <3>1. Offsets(f, y) /\ l \in Nat
      BY ONLY <1>1, <1>a, y = dt[d].bytes
    <3>2. MovedTo(f, y, n, l, MovedBytes(f, y, n, l))
      BY ONLY <2>1, <3>1, n \in Nat, MovedTyped, Zenon
    <3> QED
      BY ONLY <3>2, Zenon DEF MovedTo
  <2> QED
    BY <1>5, <2>2
<1> PICK z : z = Over(u, 0, bs)
  OBVIOUS
<1>7. /\ z \in Seq(Int) /\ Len(z) = l /\ Holding(z, 0, bs)
      /\ \A i \in 1 .. l : i <= 0 \/ i > 0 + n => z[i] = u[i]
  <2>1. 0 + n <= l /\ 0 \in Nat
    BY ONLY <1>a, m \in Nat, n \in Nat, slack \in Nat
  <2>2. 0 + Len(bs) <= Len(u)
    BY ONLY <1>6, <2>1, n = Len(bs)
  <2>3. /\ Over(u, 0, bs) \in Seq(Int) /\ Len(Over(u, 0, bs)) = Len(u) /\ Holding(Over(u, 0, bs), 0, bs)
        /\ \A i \in 1 .. Len(u) : i <= 0 \/ i > 0 + Len(bs) => Over(u, 0, bs)[i] = u[i]
    BY ONLY <1>6, <2>1, <2>2, bs \in Seq(Int), Overwritten, ZenonT(40)
  <2> QED
    BY ONLY <1>6, <2>3, z = Over(u, 0, bs), n = Len(bs)
<1>8. x \in Datum /\ x.bytes = z /\ x.m_count = 1 /\ x.m_dirtyStart = 0 /\ x.m_dirtyEnd = gn
  <2>1. x = [m_count |-> 1, m_dirtyStart |-> 0, m_dirtyEnd |-> gn, bytes |-> z]
    BY ONLY x = FreshAheadData(f, dt[f.data], bs, l), z = Over(u, 0, bs), u = MovedBytes(f, y, n, l), y = dt[d].bytes, d = f.data,
            n = Len(bs), f.start = fs, f.end = fn, gn = fn - fs + n DEF FreshAheadData
  <2> QED
    BY ONLY <1>7, <2>1, gn \in Nat DEF Datum
<1>9. gz <= ge /\ ge <= gn /\ gn - (ge - gz) <= l
  BY ONLY <1>2, gz = fz - fs + n, ge = fe - fs + n, gn = fn - fs + n, m = fn - fs - (fe - fz), <1>a,
          fs \in Nat, fz \in Nat, fe \in Nat, fn \in Nat, n \in Nat, slack \in Nat
<1>10. Offsets(g, z) /\ InPlace(g, x)
  <2>1. BytesEnd(g) <= Len(z) /\ 0 <= gz /\ 0 \in Nat /\ 0 <= 0
    BY ONLY <1>5, <1>7, <1>9, gz \in Nat
  <2>2. g.start <= g.zeroStart /\ g.zeroStart <= g.zeroEnd /\ g.zeroEnd <= g.end
    BY ONLY <1>4, <1>9, <2>1
  <2> QED
    BY ONLY <1>4, <1>7, <1>8, <2>1, <2>2, gz \in Nat, ge \in Nat, gn \in Nat DEF Offsets, InPlace
<1> PICK dt2 : dt2 = [Unref(dt, d) EXCEPT ![g.data] = x]
  OBVIOUS
<1>11. Safe(bf, dt, b, g, dt2)
  <2>1. g.end <= x.m_dirtyEnd
    BY <1>4, <1>8
  <2> QED
    BY <1>4, <1>8, <1>10, <2>1, ReplacedSafe
<1>12. ReadOf(g, z) = bs \o ReadOf(f, y)
  <2>1. ZeroesAlike(f, g, n)
    <3>1. gz - 0 = fz - fs + n /\ ge - gz = fe - fz
      BY ONLY gz = fz - fs + n, ge = fe - fs + n, fs \in Nat, fz \in Nat, fe \in Nat, n \in Nat
    <3> QED
      BY ONLY <1>4, <1>5, <3>1, f.start = fs, f.zeroStart = fz DEF ZeroesAlike
  <2>2. ASSUME NEW i \in 1 .. m PROVE z[g.start + n + i] = y[f.start + i]
    <3>1. n + i \in 1 .. l /\ n + i > 0 + n /\ 0 + n + i = n + i
      BY ONLY i \in 1 .. m, m \in Nat, n \in Nat, <1>a, slack \in Nat
    <3> QED
      BY ONLY SMTT(40), <1>4, <1>6, <1>7, <3>1, i \in 1 .. m, f.start = fs
  <2>3. Carried(f, y, g, z, n) /\ Holding(z, g.start, bs)
    BY <1>4, <1>5, <1>7, <2>2, ZenonT(40) DEF Carried
  <2>4. g.end - g.zeroEnd = f.end - f.zeroEnd
    BY ONLY <1>4, f.zeroEnd = fe, f.end = fn, ge = fe - fs + n, gn = fn - fs + n, fs \in Nat, fe \in Nat, fn \in Nat, n \in Nat
  <2> QED
    BY ONLY <1>1, <1>10, <2>1, <2>3, <2>4, y = dt[d].bytes, n = Len(bs), bs \in Seq(Int), ReadsMoreBefore
<1>13. dt2[g.data].bytes = z
  BY <1>3, <1>4, <1>8, UnrefTyped
<1>14. ReadBytes(g, dt2) = bs \o ReadBytes(f, dt)
  BY <1>12, <1>13, ReadsBytes
<1> QED
  BY <1>4, <1>11, <1>14 DEF Does

\* f with n more bytes behind, in its Data x or in another, d; x must be clean there.
Behind(f, n) == [f EXCEPT !.end = f.end + n]
BehindData(f, x, bs) ==
  [m_count |-> x.m_count, m_dirtyStart |-> x.m_dirtyStart, m_dirtyEnd |-> f.end + Len(bs),
   bytes |-> Over(x.bytes, BytesEnd(f), bs)]
CleanBehind(f, x) == x.m_count > 1 => f.end >= x.m_dirtyEnd
FreshBehind(f, d, n) ==
  [data |-> d, start |-> 0, zeroStart |-> f.zeroStart - f.start, zeroEnd |-> f.zeroEnd - f.start,
   end |-> f.end - f.start + n]
FreshBehindData(f, x, bs, l) ==
  [m_count |-> 1, m_dirtyStart |-> 0, m_dirtyEnd |-> f.end - f.start + Len(bs),
   bytes |-> Over(MovedBytes(f, x.bytes, 0, l), InternalSize(f), bs)]

LEMMA AppendInPlace ==
  ASSUME NEW bf, NEW dt, Sharing(bf, dt), NEW b \in Buffers, IsLive(bf, b),
         NEW bs \in Seq(Int), NEW n \in Nat, n = Len(bs),
         NEW f, f = bf[b], BytesEnd(f) + n <= Len(dt[f.data].bytes), CleanBehind(f, dt[f.data]),
         NEW g, g = Behind(f, n), NEW x, x = BehindData(f, dt[f.data], bs)
  PROVE  Does(bf, dt, b, [f |-> g, data |-> [dt EXCEPT ![f.data] = x]], ReadBytes(f, dt) \o bs)
<1> PICK d : d = f.data
  OBVIOUS
<1>1. /\ f \in Field /\ d \in DataIds /\ dt[d] \in Datum /\ InPlace(f, dt[d]) /\ b \in Users(bf, d)
      /\ Offsets(f, dt[d].bytes) /\ dt \in [DataIds -> Datum]
  BY SharingOf, Zenon DEF Sharing
<1> PICK y \in Seq(Int) : y = dt[d].bytes
  BY <1>1 DEF Datum
<1> PICK fs, fz, fe, fn \in Nat : f.start = fs /\ f.zeroStart = fz /\ f.zeroEnd = fe /\ f.end = fn
  BY <1>1 DEF Field
<1> PICK m \in Nat : m = Len(y)
  OBVIOUS
<1>2. fs <= fz /\ fz <= fe /\ fe <= fn /\ fn - (fe - fz) <= m
  BY <1>1 DEF Offsets, BytesEnd, Zeroes
<1>0. fn - (fe - fz) \in Nat /\ fn + n \in Nat /\ fe - fz \in Nat
  BY ONLY <1>2, fs \in Nat, fz \in Nat, fe \in Nat, fn \in Nat, n \in Nat
<1> PICK k \in Nat : k = fn - (fe - fz)
  BY ONLY <1>0
<1>3. g \in Field /\ g.data = d /\ g.start = fs /\ g.zeroStart = fz /\ g.zeroEnd = fe /\ g.end = fn + n
  BY <1>1, <1>0 DEF Field, Behind
<1>4. /\ Zeroes(f) = fe - fz /\ Zeroes(g) = fe - fz /\ BytesEnd(f) = k /\ BytesEnd(g) = (fn + n) - (fe - fz)
      /\ InternalSize(f) = fn - fs - (fe - fz)
  BY <1>3 DEF Zeroes, BytesEnd, InternalSize, GetSize
<1>a. k + n <= m /\ BytesEnd(g) = k + n /\ fs + InternalSize(f) = k
  <2>1. BytesEnd(f) + n <= m
    BY ONLY BytesEnd(f) + n <= Len(dt[f.data].bytes), d = f.data, y = dt[d].bytes, m = Len(y)
  <2> QED
    BY ONLY <1>4, <2>1, k = fn - (fe - fz), fs \in Nat, fz \in Nat, fe \in Nat, fn \in Nat, n \in Nat
<1> PICK z : z = Over(y, k, bs)
  OBVIOUS
<1>5. /\ z \in Seq(Int) /\ Len(z) = m /\ Holding(z, k, bs)
      /\ \A i \in 1 .. m : i <= k \/ i > k + n => z[i] = y[i]
  <2>2. k + Len(bs) <= Len(y)
    BY ONLY <1>a, n = Len(bs), m = Len(y)
  <2>3. /\ Over(y, k, bs) \in Seq(Int) /\ Len(Over(y, k, bs)) = Len(y) /\ Holding(Over(y, k, bs), k, bs)
        /\ \A i \in 1 .. Len(y) : i <= k \/ i > k + Len(bs) => Over(y, k, bs)[i] = y[i]
    BY ONLY <2>2, y \in Seq(Int), bs \in Seq(Int), k \in Nat, Overwritten, Zenon
  <2> QED
    BY ONLY <2>3, z = Over(y, k, bs), n = Len(bs), m = Len(y)
<1>6. x \in Datum /\ x.bytes = z /\ x.m_count = dt[d].m_count /\ x.m_dirtyStart = dt[d].m_dirtyStart /\ x.m_dirtyEnd = fn + n
  <2>1. x = [m_count |-> dt[d].m_count, m_dirtyStart |-> dt[d].m_dirtyStart, m_dirtyEnd |-> fn + n, bytes |-> z]
    BY ONLY <1>4, x = BehindData(f, dt[f.data], bs), d = f.data, y = dt[d].bytes, z = Over(y, k, bs), n = Len(bs), f.end = fn
       DEF BehindData
  <2>2. dt[d].m_count \in Nat /\ dt[d].m_dirtyStart \in Nat
    BY ONLY <1>1 DEF Datum
  <2> QED
    BY ONLY <1>0, <1>5, <2>1, <2>2 DEF Datum
<1>7. Offsets(g, z) /\ InPlace(g, x)
  <2>1. Len(z) = m /\ BytesEnd(g) <= m
    BY ONLY <1>a, <1>5
  <2>2. g.start <= g.zeroStart /\ g.zeroStart <= g.zeroEnd /\ g.zeroEnd <= g.end /\ BytesEnd(g) <= Len(z)
    BY ONLY <1>2, <1>3, <2>1, fn \in Nat, fe \in Nat, n \in Nat
  <2>3. x.m_dirtyStart <= g.start
    BY ONLY <1>1, <1>3, <1>6, f.start = fs DEF InPlace
  <2> QED
    BY ONLY <1>0, <1>3, <1>5, <1>6, <2>2, <2>3, fs \in Nat, fz \in Nat, fe \in Nat, fn \in Nat DEF Offsets, InPlace
<1> PICK w \in Nat : w = fe - fz
  BY ONLY <1>0
<1>8. Covers(x, w, g)
  <2>1. Zeroes(g) <= w /\ BytesEnd(g) + w <= x.m_dirtyEnd
    BY ONLY SMTT(40), <1>4, <1>6, w = fe - fz, w \in Nat, fz \in Nat, fe \in Nat, fn \in Nat, n \in Nat
  <2> QED
    BY <2>1, Zenon DEF Covers
<1>9. ASSUME NEW o \in Users(bf, d), o # b
      PROVE  /\ x.m_dirtyStart <= bf[o].start /\ BytesEnd(bf[o]) <= Len(x.bytes) /\ Covers(x, w, bf[o])
             /\ \A i \in bf[o].start + 1 .. BytesEnd(bf[o]) : x.bytes[i] = y[i]
  <2>1. o \in Buffers /\ IsLive(bf, o) /\ bf[o].data = d
    BY DEF Users
  <2>2. Offsets(bf[o], y) /\ InPlace(bf[o], dt[d])
    BY <2>1, SharingOf
  <2>3. dt[d].m_count > 1
    BY <1>9, AloneOrCounted
  <2> PICK last \in Nat : last = dt[d].m_dirtyEnd
    BY <1>1 DEF Datum
  <2>4. last <= fn
    BY ONLY <2>3, CleanBehind(f, dt[f.data]), d = f.data, f.end = fn, last = dt[d].m_dirtyEnd, fn \in Nat, last \in Nat DEF CleanBehind
  <2> PICK os \in Nat : os = bf[o].start
    BY <2>2 DEF Offsets
  <2> PICK oe \in Nat : oe = BytesEnd(bf[o])
    BY <2>2, OffsetsTyped
  <2> PICK oz \in Nat : oz = Zeroes(bf[o])
    BY <2>2, OffsetsTyped
  <2> PICK v \in Nat : \A p \in Users(bf, d) : Covers(dt[d], v, bf[p])
    BY <1>1, Zenon DEF Sharing, Covered
  <2>5. oz <= v /\ oe + v <= last
    <3>1. Covers(dt[d], v, bf[o])
      OBVIOUS
    <3> QED
      BY ONLY <3>1, oz = Zeroes(bf[o]), oe = BytesEnd(bf[o]), last = dt[d].m_dirtyEnd DEF Covers
  <2>6. w <= v /\ k + v <= last
    <3>1. Covers(dt[d], v, f)
      BY <1>1
    <3> QED
      BY ONLY <1>4, <3>1, w = fe - fz, last = dt[d].m_dirtyEnd DEF Covers
  <2>7. v = w /\ oe <= k
    BY ONLY <2>4, <2>5, <2>6, k = fn - (fe - fz), w = fe - fz, k \in Nat, w \in Nat, v \in Nat, oe \in Nat, last \in Nat,
            fn \in Nat, fe \in Nat, fz \in Nat
  <2>8. oe <= m /\ oz <= w /\ oe + w <= fn + n
    BY ONLY <1>a, <2>4, <2>5, <2>7, k \in Nat, w \in Nat, v \in Nat, oe \in Nat, last \in Nat, oz \in Nat,
            fn \in Nat, n \in Nat, m \in Nat
  <2>9. ASSUME NEW i \in os + 1 .. oe PROVE z[i] = y[i]
    <3>1. i \in 1 .. m /\ i <= k
      BY ONLY <2>7, <2>8, i \in os + 1 .. oe, os \in Nat, oe \in Nat, m \in Nat, k \in Nat
    <3> QED
      BY ONLY <1>5, <3>1
  <2>10. Covers(x, w, bf[o])
    BY ONLY <1>6, <2>8, oz = Zeroes(bf[o]), oe = BytesEnd(bf[o]) DEF Covers
  <2>11. x.m_dirtyStart <= bf[o].start
    BY ONLY <1>6, <2>2 DEF InPlace
  <2> QED
    BY ONLY <1>5, <1>6, <2>8, <2>9, <2>10, <2>11, os = bf[o].start, oe = BytesEnd(bf[o])
<1> PICK dt2 : dt2 = [dt EXCEPT ![d] = x]
  OBVIOUS
<1>12. Safe(bf, dt, b, g, dt2)
  <2>1. g.data = bf[b].data /\ x.m_count = dt[g.data].m_count
    BY ONLY <1>3, <1>6, d = f.data, f = bf[b]
  <2>2. \A o \in Users(bf, g.data) : o # b =>
          /\ x.m_dirtyStart <= bf[o].start /\ BytesEnd(bf[o]) <= Len(x.bytes)
          /\ \A i \in bf[o].start + 1 .. BytesEnd(bf[o]) : x.bytes[i] = dt[g.data].bytes[i]
    BY ONLY <1>3, <1>9, y = dt[d].bytes
  <2>3. \A o \in Users(bf, g.data) : o # b => Covers(x, w, bf[o])
    BY ONLY <1>3, <1>9
  <2>4. dt2 = [dt EXCEPT ![g.data] = x]
    BY ONLY <1>3, dt2 = [dt EXCEPT ![d] = x]
  <2> QED
    BY ONLY <1>3, <1>6, <1>7, <1>8, <2>1, <2>2, <2>3, <2>4, Sharing(bf, dt), b \in Buffers, IsLive(bf, b),
            w \in Nat, InPlaceSafe
<1>13. ReadOf(g, z) = ReadOf(f, y) \o bs
  <2>1. ZeroesAlike(f, g, 0)
    BY ONLY <1>3, <1>4, f.start = fs, f.zeroStart = fz, fs \in Nat, fz \in Nat DEF ZeroesAlike
  <2>2. ASSUME NEW i \in 1 .. InternalSize(f) PROVE z[g.start + 0 + i] = y[f.start + i]
    <3>1. fs + i \in 1 .. m /\ fs + i <= k /\ fs + 0 + i = fs + i
      BY ONLY <1>2, <1>4, <1>a, i \in 1 .. InternalSize(f), fs \in Nat, m \in Nat, k \in Nat, n \in Nat,
              fz \in Nat, fe \in Nat, fn \in Nat
    <3> QED
      BY ONLY <1>3, <1>5, <3>1, f.start = fs
  <2>3. Carried(f, y, g, z, 0)
    BY <2>2, Zenon DEF Carried
  <2>4. Holding(z, g.start + InternalSize(f), bs)
    BY ONLY <1>3, <1>5, <1>a
  <2>5. g.end - g.zeroEnd = f.end - f.zeroEnd + Len(bs)
    BY ONLY <1>3, n = Len(bs), f.zeroEnd = fe, f.end = fn, fe \in Nat, fn \in Nat, n \in Nat
  <2> QED
    BY ONLY <1>1, <1>7, <2>1, <2>3, <2>4, <2>5, y = dt[d].bytes, bs \in Seq(Int), ReadsMoreBehind
<1>14. dt2[d].bytes = z
  BY SMTT(40), <1>1, <1>6
<1>15. ReadBytes(g, dt2) = ReadBytes(f, dt) \o bs
  BY <1>3, <1>13, <1>14, ReadsBytes
<1> QED
  BY <1>3, <1>12, <1>15 DEF Does

LEMMA AppendMoved ==
  ASSUME NEW bf, NEW dt, Sharing(bf, dt), NEW b \in Buffers, IsLive(bf, b),
         NEW bs \in Seq(Int), NEW n \in Nat, n = Len(bs), NEW slack \in Nat,
         NEW f, f = bf[b],
         NEW g, g = FreshBehind(f, Unused(dt), n),
         NEW l, l = InternalSize(f) + n + slack,
         NEW x, x = FreshBehindData(f, dt[f.data], bs, l)
  PROVE  Does(bf, dt, b, [f |-> g, data |-> [Unref(dt, f.data) EXCEPT ![g.data] = x]], ReadBytes(f, dt) \o bs)
<1> PICK d : d = f.data
  OBVIOUS
<1>1. f \in Field /\ d \in DataIds /\ dt[d] \in Datum /\ Offsets(f, dt[d].bytes)
  BY SharingOf, Zenon
<1> PICK y \in Seq(Int) : y = dt[d].bytes
  BY <1>1 DEF Datum
<1> PICK fs, fz, fe, fn \in Nat : f.start = fs /\ f.zeroStart = fz /\ f.zeroEnd = fe /\ f.end = fn
  BY <1>1 DEF Field
<1>2. fs <= fz /\ fz <= fe /\ fe <= fn
  BY <1>1 DEF Offsets
<1> PICK gz, ge, gn \in Nat : gz = fz - fs /\ ge = fe - fs /\ gn = fn - fs + n
  BY SMTT(40), <1>2
<1> PICK m \in Nat : m = fn - fs - (fe - fz)
  BY <1>2
<1>3. Unused(dt) \in DataIds
  BY OneUnused
<1>4. g \in Field /\ g.data = Unused(dt) /\ g.start = 0 /\ g.zeroStart = gz /\ g.zeroEnd = ge /\ g.end = gn
  BY <1>3 DEF Field, FreshBehind
<1>5. /\ Zeroes(f) = fe - fz /\ Zeroes(g) = ge - gz /\ BytesEnd(g) = gn - (ge - gz) /\ InternalSize(f) = m
  BY <1>4 DEF Zeroes, BytesEnd, InternalSize, GetSize
<1>a. l = m + n + slack /\ l \in Nat
  BY ONLY <1>5, l = InternalSize(f) + n + slack, m \in Nat, n \in Nat, slack \in Nat
<1> PICK u : u = MovedBytes(f, y, 0, l)
  OBVIOUS
<1>6. u \in Seq(Int) /\ Len(u) = l /\ \A i \in 1 .. m : u[0 + i] = y[fs + i]
  <2> PICK j \in Nat : j = 0
    OBVIOUS
  <2>1. j + InternalSize(f) <= l
    BY ONLY <1>5, <1>a, j = 0, m \in Nat, n \in Nat, slack \in Nat
  <2>2. Offsets(f, y)
    BY ONLY <1>1, y = dt[d].bytes
  <2>3. /\ MovedBytes(f, y, j, l) \in Seq(Int) /\ Len(MovedBytes(f, y, j, l)) = l
        /\ \A i \in 1 .. InternalSize(f) : MovedBytes(f, y, j, l)[j + i] = y[f.start + i]
    <3>1. l \in Nat
      BY <1>a
    <3>2. MovedTo(f, y, j, l, MovedBytes(f, y, j, l))
      BY ONLY <2>1, <2>2, <3>1, j \in Nat, MovedTyped, Zenon
    <3> QED
      BY ONLY <3>2, Zenon DEF MovedTo
  <2> QED
    BY ONLY <1>5, <2>3, j = 0, u = MovedBytes(f, y, 0, l), f.start = fs
<1> PICK z : z = Over(u, m, bs)
  OBVIOUS
<1>7. /\ z \in Seq(Int) /\ Len(z) = l /\ Holding(z, m, bs)
      /\ \A i \in 1 .. l : i <= m \/ i > m + n => z[i] = u[i]
  <2>1. m + n <= l
    BY ONLY <1>a, m \in Nat, n \in Nat, slack \in Nat
  <2>2. m + Len(bs) <= Len(u)
    BY ONLY <1>6, <2>1, n = Len(bs)
  <2>3. /\ Over(u, m, bs) \in Seq(Int) /\ Len(Over(u, m, bs)) = Len(u) /\ Holding(Over(u, m, bs), m, bs)
        /\ \A i \in 1 .. Len(u) : i <= m \/ i > m + Len(bs) => Over(u, m, bs)[i] = u[i]
    BY ONLY <1>6, <2>2, bs \in Seq(Int), m \in Nat, Overwritten, ZenonT(40)
  <2> QED
    BY ONLY <1>6, <2>3, z = Over(u, m, bs), n = Len(bs)
<1>8. x \in Datum /\ x.bytes = z /\ x.m_count = 1 /\ x.m_dirtyStart = 0 /\ x.m_dirtyEnd = gn
  <2>1. x = [m_count |-> 1, m_dirtyStart |-> 0, m_dirtyEnd |-> gn, bytes |-> z]
    BY ONLY <1>5, x = FreshBehindData(f, dt[f.data], bs, l), z = Over(u, m, bs), u = MovedBytes(f, y, 0, l), y = dt[d].bytes, d = f.data,
            n = Len(bs), f.start = fs, f.end = fn, gn = fn - fs + n DEF FreshBehindData
  <2> QED
    BY ONLY <1>7, <2>1, gn \in Nat DEF Datum
<1>9. gz <= ge /\ ge <= gn /\ gn - (ge - gz) = m + n /\ m + n <= l
  BY ONLY <1>2, gz = fz - fs, ge = fe - fs, gn = fn - fs + n, m = fn - fs - (fe - fz), <1>a,
          fs \in Nat, fz \in Nat, fe \in Nat, fn \in Nat, n \in Nat, slack \in Nat
<1>10. Offsets(g, z) /\ InPlace(g, x)
  <2>1. BytesEnd(g) <= Len(z) /\ 0 <= gz /\ 0 \in Nat /\ 0 <= 0
    BY ONLY <1>5, <1>7, <1>9, gz \in Nat
  <2>2. g.start <= g.zeroStart /\ g.zeroStart <= g.zeroEnd /\ g.zeroEnd <= g.end
    BY ONLY <1>4, <1>9, <2>1
  <2> QED
    BY ONLY <1>4, <1>7, <1>8, <2>1, <2>2, gz \in Nat, ge \in Nat, gn \in Nat DEF Offsets, InPlace
<1> PICK dt2 : dt2 = [Unref(dt, d) EXCEPT ![g.data] = x]
  OBVIOUS
<1>11. Safe(bf, dt, b, g, dt2)
  <2>1. g.end <= x.m_dirtyEnd
    BY <1>4, <1>8
  <2> QED
    BY <1>4, <1>8, <1>10, <2>1, ReplacedSafe
<1>12. ReadOf(g, z) = ReadOf(f, y) \o bs
  <2>1. ZeroesAlike(f, g, 0)
    <3>1. gz - 0 = fz - fs + 0 /\ ge - gz = fe - fz
      BY ONLY gz = fz - fs, ge = fe - fs, fs \in Nat, fz \in Nat, fe \in Nat
    <3> QED
      BY ONLY <1>4, <1>5, <3>1, f.start = fs, f.zeroStart = fz DEF ZeroesAlike
  <2>2. ASSUME NEW i \in 1 .. m PROVE z[g.start + 0 + i] = y[f.start + i]
    <3>1. i \in 1 .. l /\ i <= m /\ 0 + 0 + i = i /\ 0 + i = i
      BY ONLY i \in 1 .. m, m \in Nat, n \in Nat, <1>a, slack \in Nat
    <3> QED
      BY ONLY SMTT(40), <1>4, <1>6, <1>7, <3>1, i \in 1 .. m, f.start = fs
  <2>3. Carried(f, y, g, z, 0)
    BY <1>5, <2>2, Zenon DEF Carried
  <2>4. Holding(z, g.start + InternalSize(f), bs)
    BY ONLY <1>4, <1>5, <1>7, m \in Nat
  <2>5. g.end - g.zeroEnd = f.end - f.zeroEnd + Len(bs)
    BY ONLY <1>4, n = Len(bs), f.zeroEnd = fe, f.end = fn, ge = fe - fs, gn = fn - fs + n, fs \in Nat, fe \in Nat, fn \in Nat, n \in Nat
  <2> QED
    BY ONLY <1>1, <1>10, <2>1, <2>3, <2>4, <2>5, y = dt[d].bytes, bs \in Seq(Int), ReadsMoreBehind
<1>13. dt2[g.data].bytes = z
  BY SMTT(40), <1>3, <1>4, <1>8, UnrefTyped
<1>14. ReadBytes(g, dt2) = ReadBytes(f, dt) \o bs
  BY <1>12, <1>13, ReadsBytes
<1> QED
  BY <1>4, <1>11, <1>14 DEF Does

----------------------------------------------------------------------------
(* What AddAtStart and AddAtEnd do, and the writing after them.            *)

\* What a write before f, or behind it, makes: where f is, or in l bytes elsewhere.
AheadInPlace(f, dt, n, bs, w) ==
  w = [f |-> Ahead(f, n), data |-> [dt EXCEPT ![f.data] = AheadData(f, dt[f.data], bs)]]

AheadElsewhere(f, dt, n, bs, l, w) ==
  w = [f |-> FreshAhead(f, Unused(dt), n),
       data |-> [Unref(dt, f.data) EXCEPT ![Unused(dt)] = FreshAheadData(f, dt[f.data], bs, l)]]

BehindInPlace(f, dt, n, bs, w) ==
  w = [f |-> Behind(f, n), data |-> [dt EXCEPT ![f.data] = BehindData(f, dt[f.data], bs)]]

BehindElsewhere(f, dt, n, bs, l, w) ==
  w = [f |-> FreshBehind(f, Unused(dt), n),
       data |-> [Unref(dt, f.data) EXCEPT ![Unused(dt)] = FreshBehindData(f, dt[f.data], bs, l)]]

LEMMA StartAdded ==
  ASSUME NEW bf, NEW dt, Sharing(bf, dt), NEW b \in Buffers, IsLive(bf, b),
         NEW bs \in Seq(Int), NEW n \in Nat, n = Len(bs), n > 0, NEW slack \in Nat,
         NEW s, s = [f |-> bf[b], data |-> dt], NEW f, f = bf[b],
         f.start >= n /\ ~StartIsDirty(s), NEW r, r = AddAtStart(s, n, slack)
  PROVE  AheadInPlace(f, dt, n, bs, Write(r, r.f.start, bs))
<1>1. f \in Field /\ f.data \in DataIds /\ dt[f.data] \in Datum /\ Offsets(f, dt[f.data].bytes) /\ dt \in [DataIds -> Datum]
  BY SharingOf, Zenon DEF Sharing
<1> PICK fs, fz \in Nat : f.start = fs /\ f.zeroStart = fz /\ fs <= fz
  BY <1>1 DEF Offsets
<1> PICK e \in Nat : e = dt[f.data].m_dirtyEnd
  BY <1>1 DEF Datum
<1>2. n <= fs /\ fs - n \in Nat /\ fs - n < fz
  BY ONLY f.start >= n /\ ~StartIsDirty(s), f.start = fs, fs <= fz, fs \in Nat, fz \in Nat, n \in Nat, n > 0
<1> PICK k \in Nat : k = fs - n /\ k < fz
  BY ONLY <1>2
<1> PICK g : g = Ahead(f, n)
  OBVIOUS
<1>3. g \in Field /\ g.data = f.data /\ g.start = k /\ g.zeroStart = fz
  BY ONLY <1>1, g = Ahead(f, n), f.start = fs, f.zeroStart = fz, k = fs - n, k \in Nat DEF Field, Ahead
<1> PICK dt1 : dt1 = [dt EXCEPT ![f.data] = [dt[f.data] EXCEPT !.m_dirtyStart = k, !.m_dirtyEnd = e]]
  OBVIOUS
<1>4. r = [f |-> g, data |-> dt1]
  <2>1. s.f = f /\ s.data = dt
    BY ONLY SMTT(40), s = [f |-> bf[b], data |-> dt], f = bf[b]
  <2>2. r = [f |-> [f EXCEPT !.start = @ - n], data |-> [dt EXCEPT ![f.data].m_dirtyStart = f.start - n]]
    BY ONLY <2>1, f.start >= n /\ ~StartIsDirty(s), r = AddAtStart(s, n, slack) DEF AddAtStart
  <2>3. [f EXCEPT !.start = @ - n] = g
    BY ONLY <1>1, g = Ahead(f, n) DEF Ahead, Field
  <2>4. [dt EXCEPT ![f.data].m_dirtyStart = f.start - n] = dt1
    <3>1. dt1 = [dt EXCEPT ![f.data] = [dt[f.data] EXCEPT !.m_dirtyStart = k]]
      <4>1. [dt[f.data] EXCEPT !.m_dirtyStart = k, !.m_dirtyEnd = e] = [dt[f.data] EXCEPT !.m_dirtyStart = k]
        BY ONLY <1>1, e = dt[f.data].m_dirtyEnd DEF Datum
      <4> QED
        BY ONLY <4>1, dt1 = [dt EXCEPT ![f.data] = [dt[f.data] EXCEPT !.m_dirtyStart = k, !.m_dirtyEnd = e]]
    <3> QED
      BY ONLY <1>1, <3>1, f.start = fs, k = fs - n
  <2> QED
    BY ONLY <2>2, <2>3, <2>4
<1>5. r.f.start = k
  BY ONLY <1>3, <1>4
<1>6. k = IF k < g.zeroStart THEN k ELSE k - Zeroes(g)
  BY ONLY <1>3, k < fz
<1>7. Writes(g, dt1, k, bs, Rewritten(dt, g.data, k, e, Over(dt[g.data].bytes, k, bs)))
  <2>1. dt1 = [dt EXCEPT ![g.data] = [dt[g.data] EXCEPT !.m_dirtyStart = k, !.m_dirtyEnd = e]]
    BY ONLY <1>3, dt1 = [dt EXCEPT ![f.data] = [dt[f.data] EXCEPT !.m_dirtyStart = k, !.m_dirtyEnd = e]]
  <2> QED
    BY ONLY <1>1, <1>3, <1>6, <2>1, k \in Nat, e \in Nat, WrittenInPlace, Zenon
<1>8. AheadData(f, dt[f.data], bs) = [m_count |-> dt[f.data].m_count, m_dirtyStart |-> k, m_dirtyEnd |-> e,
            bytes |-> Over(dt[f.data].bytes, k, bs)]
  BY ONLY n = Len(bs), f.start = fs, k = fs - n, e = dt[f.data].m_dirtyEnd DEF AheadData
<1>c. Write(r, r.f.start, bs) =
        [f |-> Ahead(f, n), data |-> [dt EXCEPT ![f.data] = AheadData(f, dt[f.data], bs)]]
  BY ONLY <1>3, <1>4, <1>5, <1>7, <1>8, g = Ahead(f, n) DEF Rewritten, Writes
<1> QED
  BY ONLY <1>c DEF AheadInPlace

\* The bytes of f moved, and written in their new place.
Anew(u) == [m_count |-> 1, m_dirtyStart |-> 0, m_dirtyEnd |-> 0, bytes |-> u]
Elsewhere(f, d, n) ==
  [data |-> d, start |-> n, zeroStart |-> f.zeroStart - f.start + n,
   zeroEnd |-> f.zeroEnd - f.start + n, end |-> f.end - f.start + n]
MovesTo(s, k, n, slack, g, dt) == Moved(s, k, n, slack) = [f |-> g, data |-> dt]

LEMMA MovedIs ==
  ASSUME NEW f \in Field, NEW dt, NEW s, s = [f |-> f, data |-> dt], NEW k \in Nat, NEW n \in Nat, NEW slack \in Nat,
         NEW l, l = InternalSize(f) + n + slack
  PROVE  MovesTo(s, k, n, slack, Elsewhere(f, Unused(dt), k),
                 [Unref(dt, f.data) EXCEPT ![Unused(dt)] = Anew(MovedBytes(f, dt[f.data].bytes, k, l))])
<1> PICK fs, fz, fe, fn \in Nat : f.start = fs /\ f.zeroStart = fz /\ f.zeroEnd = fe /\ f.end = fn
  BY DEF Field
<1> PICK d : d = Unused(dt)
  OBVIOUS
<1> PICK u : u = MovedBytes(f, dt[f.data].bytes, k, l)
  OBVIOUS
<1>1. s.f = f /\ s.data = dt
  BY ONLY s = [f |-> f, data |-> dt]
<1>2. [Shift(f, k - f.start) EXCEPT !.data = d] = Elsewhere(f, d, k)
  <2>1. f = [data |-> f.data, start |-> fs, zeroStart |-> fz, zeroEnd |-> fe, end |-> fn]
    BY DEF Field
  <2>2. Shift(f, k - fs) = [data |-> f.data, start |-> fs + (k - fs), zeroStart |-> fz + (k - fs),
                            zeroEnd |-> fe + (k - fs), end |-> fn + (k - fs)]
    <3> PICK j : j = k - fs
      OBVIOUS
    <3> PICK a : a = f.data
      OBVIOUS
    <3> PICK a1, a2, a3, a4 : a1 = fs + j /\ a2 = fz + j /\ a3 = fe + j /\ a4 = fn + j
      OBVIOUS
    <3> PICK h : h = [f EXCEPT !.start = a1, !.zeroStart = a2, !.zeroEnd = a3, !.end = a4]
      OBVIOUS
    <3>0. h = [data |-> a, start |-> a1, zeroStart |-> a2, zeroEnd |-> a3, end |-> a4]
      BY ONLY <2>1, a = f.data, h = [f EXCEPT !.start = a1, !.zeroStart = a2, !.zeroEnd = a3, !.end = a4]
    <3>1. [f EXCEPT !.start = fs + j, !.zeroStart = fz + j, !.zeroEnd = fe + j, !.end = fn + j]
            = [data |-> a, start |-> fs + j, zeroStart |-> fz + j, zeroEnd |-> fe + j, end |-> fn + j]
      BY ONLY <3>0, h = [f EXCEPT !.start = a1, !.zeroStart = a2, !.zeroEnd = a3, !.end = a4],
              a1 = fs + j /\ a2 = fz + j /\ a3 = fe + j /\ a4 = fn + j, Zenon
    <3>2. Shift(f, j) = [f EXCEPT !.start = fs + j, !.zeroStart = fz + j, !.zeroEnd = fe + j, !.end = fn + j]
      BY ONLY f.start = fs, f.zeroStart = fz, f.zeroEnd = fe, f.end = fn, Zenon DEF Shift
    <3> QED
      BY ONLY <3>1, <3>2, j = k - fs, a = f.data
  <2>3. fs + (k - fs) = k /\ fz + (k - fs) = fz - fs + k /\ fe + (k - fs) = fe - fs + k /\ fn + (k - fs) = fn - fs + k
    BY ONLY fs \in Nat, fz \in Nat, fe \in Nat, fn \in Nat, k \in Nat
  <2>4. Elsewhere(f, d, k) = [data |-> d, start |-> k, zeroStart |-> fz - fs + k, zeroEnd |-> fe - fs + k, end |-> fn - fs + k]
    BY ONLY f.start = fs, f.zeroStart = fz, f.zeroEnd = fe, f.end = fn DEF Elsewhere
  <2>5. Shift(f, k - f.start) = [data |-> f.data, start |-> k, zeroStart |-> fz - fs + k, zeroEnd |-> fe - fs + k, end |-> fn - fs + k]
    BY ONLY <2>2, <2>3, f.start = fs
  <2> QED
    BY ONLY <2>4, <2>5
<1>3. [i \in 1 .. InternalSize(f) + n + slack |->
         IF i > k /\ i <= k + InternalSize(f) THEN dt[f.data].bytes[f.start + i - k] ELSE Junk] = u
  BY ONLY l = InternalSize(f) + n + slack, u = MovedBytes(f, dt[f.data].bytes, k, l), Zenon DEF MovedBytes
<1>4. [FreeData EXCEPT !.m_count = 1, !.bytes = u] = Anew(u)
  <2> PICK w : w = <<>>
    OBVIOUS
  <2>1. FreeData = [m_count |-> 0, m_dirtyStart |-> 0, m_dirtyEnd |-> 0, bytes |-> w]
    BY DEF FreeData
  <2>2. [FreeData EXCEPT !.m_count = 1, !.bytes = u] = [m_count |-> 1, m_dirtyStart |-> 0, m_dirtyEnd |-> 0, bytes |-> u]
    <3> PICK h : h = [FreeData EXCEPT !.m_count = 1, !.bytes = u]
      OBVIOUS
    <3>1. h = [m_count |-> 1, m_dirtyStart |-> 0, m_dirtyEnd |-> 0, bytes |-> u]
      BY ONLY <2>1, h = [FreeData EXCEPT !.m_count = 1, !.bytes = u]
    <3> QED
      BY ONLY <3>1, h = [FreeData EXCEPT !.m_count = 1, !.bytes = u], Zenon
  <2> QED
    BY ONLY <2>2 DEF Anew
<1>5. Moved(s, k, n, slack) =
        [f |-> [Shift(f, k - f.start) EXCEPT !.data = d],
         data |-> [Unref(dt, f.data) EXCEPT ![d] = [FreeData EXCEPT !.m_count = 1, !.bytes = u]]]
  BY ONLY <1>1, <1>3, d = Unused(dt), Zenon DEF Moved
<1> QED
  BY ONLY <1>2, <1>4, <1>5, d = Unused(dt), u = MovedBytes(f, dt[f.data].bytes, k, l) DEF MovesTo

LEMMA AnewWritten ==
  ASSUME NEW g \in Field, NEW dt \in [DataIds -> Datum], NEW u \in Seq(Int), NEW e \in Nat, NEW v, NEW bs, NEW k,
         k = IF v < g.zeroStart THEN v ELSE v - Zeroes(g),
         NEW d, d = g.data, NEW dt0, dt0 = [dt EXCEPT ![d] = Anew(u)],
         NEW dt1, dt1 = [dt0 EXCEPT ![d].m_dirtyStart = 0, ![d].m_dirtyEnd = e]
  PROVE  Writes(g, dt1, v, bs, [dt EXCEPT ![d] =
           [m_count |-> 1, m_dirtyStart |-> 0, m_dirtyEnd |-> e, bytes |-> Over(u, k, bs)]])
<1>1. d \in DataIds
  BY DEF Field
<1>2. Anew(u) \in Datum /\ Anew(u).bytes = u /\ Anew(u).m_count = 1
  BY ONLY u \in Seq(Int) DEF Anew, Datum
<1>3. dt0 \in [DataIds -> Datum] /\ dt0[d] = Anew(u)
  BY ONLY <1>1, <1>2, dt \in [DataIds -> Datum], dt0 = [dt EXCEPT ![d] = Anew(u)]
<1>4. dt1 = [dt0 EXCEPT ![d] = [dt0[d] EXCEPT !.m_dirtyStart = 0, !.m_dirtyEnd = e]]
  BY ONLY <1>1, <1>3, dt1 = [dt0 EXCEPT ![d].m_dirtyStart = 0, ![d].m_dirtyEnd = e]
<1> PICK z : z = Over(u, k, bs)
  OBVIOUS
<1>5. Writes(g, dt1, v, bs, Rewritten(dt0, g.data, 0, e, Over(dt0[g.data].bytes, k, bs)))
  <2>1. dt1 = [dt0 EXCEPT ![g.data] = [dt0[g.data] EXCEPT !.m_dirtyStart = 0, !.m_dirtyEnd = e]] /\ 0 \in Nat
    BY ONLY <1>4, d = g.data
  <2>2. dt0 \in [DataIds -> Datum]
    BY <1>3
  <2> PICK j : j = 0
    OBVIOUS
  <2>3. dt1 = [dt0 EXCEPT ![g.data] = [dt0[g.data] EXCEPT !.m_dirtyStart = j, !.m_dirtyEnd = e]] /\ j \in Nat
    BY ONLY <2>1, j = 0
  <2>4. Writes(g, dt1, v, bs, Rewritten(dt0, g.data, j, e, Over(dt0[g.data].bytes, k, bs)))
    BY ONLY <2>2, <2>3, g \in Field, e \in Nat, k = IF v < g.zeroStart THEN v ELSE v - Zeroes(g), WrittenInPlace, Zenon
  <2> QED
    BY ONLY <2>4, j = 0
<1>6. Rewritten(dt0, d, 0, e, z) = [dt EXCEPT ![d] = [m_count |-> 1, m_dirtyStart |-> 0, m_dirtyEnd |-> e, bytes |-> z]]
  <2> PICK w : w = [m_count |-> 1, m_dirtyStart |-> 0, m_dirtyEnd |-> e, bytes |-> z]
    OBVIOUS
  <2>1. Rewritten(dt0, d, 0, e, z) = [dt0 EXCEPT ![d] = w]
    BY ONLY <1>2, <1>3, w = [m_count |-> 1, m_dirtyStart |-> 0, m_dirtyEnd |-> e, bytes |-> z] DEF Rewritten
  <2>2. [dt0 EXCEPT ![d] = w] = [dt EXCEPT ![d] = w]
    BY ONLY <1>1, dt \in [DataIds -> Datum], dt0 = [dt EXCEPT ![d] = Anew(u)]
  <2> QED
    BY ONLY <2>1, <2>2, w = [m_count |-> 1, m_dirtyStart |-> 0, m_dirtyEnd |-> e, bytes |-> z]
<1> QED
  BY ONLY <1>2, <1>3, <1>5, <1>6, d = g.data, z = Over(u, k, bs)

LEMMA StartMoved ==
  ASSUME NEW bf, NEW dt, Sharing(bf, dt), NEW b \in Buffers, IsLive(bf, b),
         NEW bs \in Seq(Int), NEW n \in Nat, n = Len(bs), n > 0, NEW slack \in Nat,
         NEW s, s = [f |-> bf[b], data |-> dt], NEW f, f = bf[b],
         ~(f.start >= n /\ ~StartIsDirty(s)), NEW r, r = AddAtStart(s, n, slack),
         NEW l, l = InternalSize(f) + n + slack
  PROVE  AheadElsewhere(f, dt, n, bs, l, Write(r, r.f.start, bs))
<1>1. f \in Field /\ f.data \in DataIds /\ dt[f.data] \in Datum /\ Offsets(f, dt[f.data].bytes)
  BY SharingOf, Zenon
<1> PICK y \in Seq(Int) : y = dt[f.data].bytes
  BY <1>1 DEF Datum
<1> PICK fs, fz, fe, fn \in Nat : f.start = fs /\ f.zeroStart = fz /\ f.zeroEnd = fe /\ f.end = fn
  BY <1>1 DEF Field
<1>2. fs <= fz /\ fz <= fe /\ fe <= fn
  BY <1>1 DEF Offsets
<1>3. fz - fs + n \in Nat /\ fe - fs + n \in Nat /\ fn - fs + n \in Nat /\ 0 < fz - fs + n /\ l \in Nat /\ n + InternalSize(f) <= l
  <2>1. InternalSize(f) \in Nat
    BY <1>1, OffsetsTyped
  <2> QED
    BY ONLY <1>2, <2>1, l = InternalSize(f) + n + slack, fs \in Nat, fz \in Nat, fe \in Nat, fn \in Nat, n \in Nat, n > 0, slack \in Nat
<1> PICK d \in DataIds : d = Unused(dt)
  BY OneUnused
<1> PICK g : g = FreshAhead(f, d, n)
  OBVIOUS
<1>4. g \in Field /\ g.data = d /\ g.start = 0 /\ g.zeroStart = fz - fs + n
  BY ONLY <1>3, d \in DataIds, g = FreshAhead(f, d, n), f.start = fs, f.zeroStart = fz, f.zeroEnd = fe, f.end = fn DEF FreshAhead, Field
<1> PICK u : u = MovedBytes(f, y, n, l)
  OBVIOUS
<1>5. u \in Seq(Int)
  <2>1. Offsets(f, y) /\ l \in Nat /\ n + InternalSize(f) <= l
    BY ONLY <1>1, <1>3, y = dt[f.data].bytes
  <2> QED
    <3>1. MovedTo(f, y, n, l, MovedBytes(f, y, n, l))
      BY ONLY <2>1, n \in Nat, MovedTyped, Zenon
    <3> QED
      BY ONLY <3>1, u = MovedBytes(f, y, n, l) DEF MovedTo
<1> PICK dr : dr = Unref(dt, f.data)
  OBVIOUS
<1>6. dr \in [DataIds -> Datum]
  BY UnrefTyped
<1> PICK e \in Nat : e = fn - fs + n
  BY <1>3
<1> PICK dt0 : dt0 = [dr EXCEPT ![d] = Anew(u)]
  OBVIOUS
<1> PICK dt1 : dt1 = [dt0 EXCEPT ![d].m_dirtyStart = 0, ![d].m_dirtyEnd = e]
  OBVIOUS
<1>7. r = [f |-> g, data |-> dt1]
  <2> PICK h : h = Elsewhere(f, d, n)
    OBVIOUS
  <2>1. Moved(s, n, n, slack) = [f |-> h, data |-> dt0]
    <3>1. s = [f |-> f, data |-> dt]
      BY ONLY s = [f |-> bf[b], data |-> dt], f = bf[b]
    <3>2. MovesTo(s, n, n, slack, Elsewhere(f, Unused(dt), n),
                 [Unref(dt, f.data) EXCEPT ![Unused(dt)] = Anew(MovedBytes(f, dt[f.data].bytes, n, l))])
      BY ONLY <1>1, <3>1, n \in Nat, slack \in Nat, l = InternalSize(f) + n + slack, MovedIs, Zenon
    <3> QED
      BY ONLY <3>2, h = Elsewhere(f, d, n), d = Unused(dt), dr = Unref(dt, f.data), y = dt[f.data].bytes,
              u = MovedBytes(f, y, n, l), dt0 = [dr EXCEPT ![d] = Anew(u)] DEF MovesTo
  <2>2. h.data = d /\ h.end = e /\ [h EXCEPT !.start = 0] = g
    BY ONLY SMTT(40), h = Elsewhere(f, d, n), g = FreshAhead(f, d, n), e = fn - fs + n, f.start = fs, f.end = fn DEF Elsewhere, FreshAhead
  <2>3. s.f = f /\ s.data = dt
    BY ONLY s = [f |-> bf[b], data |-> dt], f = bf[b]
  <2> PICK m : m = Moved(s, n, n, slack)
    OBVIOUS
  <2>4. r = [f |-> [m.f EXCEPT !.start = 0],
             data |-> [m.data EXCEPT ![m.f.data].m_dirtyStart = 0, ![m.f.data].m_dirtyEnd = m.f.end]]
    BY ONLY <2>3, ~(f.start >= n /\ ~StartIsDirty(s)), r = AddAtStart(s, n, slack), m = Moved(s, n, n, slack), Zenon DEF AddAtStart
  <2>5. m.f = h /\ m.data = dt0
    BY ONLY <2>1, m = Moved(s, n, n, slack)
  <2> QED
    BY ONLY <2>2, <2>4, <2>5, dt1 = [dt0 EXCEPT ![d].m_dirtyStart = 0, ![d].m_dirtyEnd = e]
<1>8. Writes(g, dt1, 0, bs, [dr EXCEPT ![d] =
           [m_count |-> 1, m_dirtyStart |-> 0, m_dirtyEnd |-> e, bytes |-> Over(u, 0, bs)]])
  <2> PICK j : j = 0
    OBVIOUS
  <2>1. j = IF j < g.zeroStart THEN j ELSE j - Zeroes(g)
    BY ONLY <1>3, <1>4, j = 0
  <2>2. Writes(g, dt1, j, bs, [dr EXCEPT ![d] =
           [m_count |-> 1, m_dirtyStart |-> 0, m_dirtyEnd |-> e, bytes |-> Over(u, j, bs)]])
    BY ONLY <1>4, <1>5, <1>6, <2>1, e \in Nat, dt0 = [dr EXCEPT ![d] = Anew(u)],
            dt1 = [dt0 EXCEPT ![d].m_dirtyStart = 0, ![d].m_dirtyEnd = e], AnewWritten, Zenon
  <2> QED
    BY ONLY <2>2, j = 0
<1>9. FreshAheadData(f, dt[f.data], bs, l) = [m_count |-> 1, m_dirtyStart |-> 0, m_dirtyEnd |-> e, bytes |-> Over(u, 0, bs)]
  BY ONLY n = Len(bs), f.start = fs, f.end = fn, e = fn - fs + n, y = dt[f.data].bytes, u = MovedBytes(f, y, n, l) DEF FreshAheadData
<1>c. Write(r, r.f.start, bs) =
        [f |-> FreshAhead(f, Unused(dt), n),
         data |-> [Unref(dt, f.data) EXCEPT ![Unused(dt)] = FreshAheadData(f, dt[f.data], bs, l)]]
  BY ONLY <1>4, <1>7, <1>8, <1>9, g = FreshAhead(f, d, n), d = Unused(dt), dr = Unref(dt, f.data) DEF Writes
<1> QED
  BY ONLY <1>c DEF AheadElsewhere

\* The byte after the last of f, n bytes before the end of g.
LEMMA LastByte ==
  ASSUME NEW y, NEW f, Offsets(f, y), NEW n \in Nat, NEW g, g.end = f.end + n, g.zeroStart = f.zeroStart, Zeroes(g) = Zeroes(f)
  PROVE  BytesEnd(f) = IF g.end - n < g.zeroStart THEN g.end - n ELSE g.end - n - Zeroes(g)
<1> PICK fz, fe, fn \in Nat : f.zeroStart = fz /\ f.zeroEnd = fe /\ f.end = fn
  BY DEF Offsets
<1>1. fz <= fe /\ fe <= fn
  BY DEF Offsets
<1>2. BytesEnd(f) = fn - (fe - fz) /\ Zeroes(f) = fe - fz
  BY DEF BytesEnd, Zeroes
<1>3. g.end - n = fn /\ ~(fn < fz)
  BY ONLY <1>1, g.end = f.end + n, f.end = fn, fn \in Nat, n \in Nat, fz \in Nat, fe \in Nat
<1> QED
  BY ONLY <1>2, <1>3, g.zeroStart = f.zeroStart, f.zeroStart = fz, Zeroes(g) = Zeroes(f)

LEMMA EndAdded ==
  ASSUME NEW bf, NEW dt, Sharing(bf, dt), NEW b \in Buffers, IsLive(bf, b),
         NEW bs \in Seq(Int), NEW n \in Nat, n = Len(bs), NEW slack \in Nat,
         NEW s, s = [f |-> bf[b], data |-> dt], NEW f, f = bf[b],
         BytesEnd(f) + n <= Size(dt[f.data]) /\ ~EndIsDirty(s), NEW r, r = AddAtEnd(s, n, slack)
  PROVE  BehindInPlace(f, dt, n, bs, Write(r, r.f.end - n, bs))
<1>1. f \in Field /\ f.data \in DataIds /\ dt[f.data] \in Datum /\ Offsets(f, dt[f.data].bytes) /\ dt \in [DataIds -> Datum]
  BY SharingOf, Zenon DEF Sharing
<1> PICK fn \in Nat : f.end = fn
  BY <1>1 DEF Offsets
<1> PICK a \in Nat : a = dt[f.data].m_dirtyStart
  BY <1>1 DEF Datum
<1> PICK e \in Nat : e = fn + n
  OBVIOUS
<1> PICK k : k = BytesEnd(f)
  OBVIOUS
<1> PICK g : g = Behind(f, n)
  OBVIOUS
<1>3. g \in Field /\ g.data = f.data /\ g.end = e /\ g.zeroStart = f.zeroStart /\ g.zeroEnd = f.zeroEnd
  BY ONLY <1>1, g = Behind(f, n), f.end = fn, e = fn + n, e \in Nat DEF Field, Behind
<1> PICK dt1 : dt1 = [dt EXCEPT ![f.data] = [dt[f.data] EXCEPT !.m_dirtyStart = a, !.m_dirtyEnd = e]]
  OBVIOUS
<1>4. r = [f |-> g, data |-> dt1]
  <2>1. s.f = f /\ s.data = dt
    BY ONLY s = [f |-> bf[b], data |-> dt], f = bf[b]
  <2>2. f.end - Zeroes(f) + n <= Size(dt[f.data]) /\ ~EndIsDirty(s)
    BY Zenon DEF BytesEnd
  <2>3. r = [f |-> [f EXCEPT !.end = @ + n], data |-> [dt EXCEPT ![f.data].m_dirtyEnd = f.end + n]]
    BY ONLY <2>1, <2>2, r = AddAtEnd(s, n, slack) DEF AddAtEnd
  <2>4. [f EXCEPT !.end = @ + n] = g
    BY ONLY <1>1, g = Behind(f, n) DEF Behind, Field
  <2>5. [dt EXCEPT ![f.data].m_dirtyEnd = f.end + n] = dt1
    <3>1. dt1 = [dt EXCEPT ![f.data] = [dt[f.data] EXCEPT !.m_dirtyEnd = e]]
      <4>1. [dt[f.data] EXCEPT !.m_dirtyStart = a, !.m_dirtyEnd = e] = [dt[f.data] EXCEPT !.m_dirtyEnd = e]
        BY ONLY <1>1, a = dt[f.data].m_dirtyStart DEF Datum
      <4> QED
        BY ONLY <4>1, dt1 = [dt EXCEPT ![f.data] = [dt[f.data] EXCEPT !.m_dirtyStart = a, !.m_dirtyEnd = e]]
    <3> QED
      BY ONLY <1>1, <3>1, f.end = fn, e = fn + n
  <2> QED
    BY ONLY <2>3, <2>4, <2>5
<1>5. r.f.end - n = fn
  BY ONLY <1>3, <1>4, e = fn + n, fn \in Nat, n \in Nat
<1>6. k = IF fn < g.zeroStart THEN fn ELSE fn - Zeroes(g)
  <2>1. Zeroes(g) = Zeroes(f)
    BY ONLY <1>3 DEF Zeroes
  <2>2. g.end = f.end + n /\ g.zeroStart = f.zeroStart
    BY ONLY <1>3, f.end = fn, e = fn + n
  <2>3. BytesEnd(f) = IF g.end - n < g.zeroStart THEN g.end - n ELSE g.end - n - Zeroes(g)
    BY ONLY <1>1, <2>1, <2>2, n \in Nat, LastByte
  <2>4. g.end - n = fn
    BY ONLY <1>3, e = fn + n, fn \in Nat, n \in Nat
  <2> QED
    BY ONLY <2>3, <2>4, k = BytesEnd(f)
<1>7. Writes(g, dt1, fn, bs, Rewritten(dt, g.data, a, e, Over(dt[g.data].bytes, k, bs)))
  <2>1. dt1 = [dt EXCEPT ![g.data] = [dt[g.data] EXCEPT !.m_dirtyStart = a, !.m_dirtyEnd = e]]
    BY ONLY <1>3, dt1 = [dt EXCEPT ![f.data] = [dt[f.data] EXCEPT !.m_dirtyStart = a, !.m_dirtyEnd = e]]
  <2> QED
    BY ONLY <1>1, <1>3, <1>6, <2>1, a \in Nat, e \in Nat, WrittenInPlace, Zenon
<1>8. BehindData(f, dt[f.data], bs) = [m_count |-> dt[f.data].m_count, m_dirtyStart |-> a, m_dirtyEnd |-> e,
            bytes |-> Over(dt[f.data].bytes, k, bs)]
  BY ONLY n = Len(bs), f.end = fn, e = fn + n, k = BytesEnd(f), a = dt[f.data].m_dirtyStart DEF BehindData
<1>c. Write(r, r.f.end - n, bs) =
        [f |-> Behind(f, n), data |-> [dt EXCEPT ![f.data] = BehindData(f, dt[f.data], bs)]]
  BY ONLY <1>3, <1>4, <1>5, <1>7, <1>8, g = Behind(f, n) DEF Rewritten, Writes
<1> QED
  BY ONLY <1>c DEF BehindInPlace

LEMMA EndMoved ==
  ASSUME NEW bf, NEW dt, Sharing(bf, dt), NEW b \in Buffers, IsLive(bf, b),
         NEW bs \in Seq(Int), NEW n \in Nat, n = Len(bs), NEW slack \in Nat,
         NEW s, s = [f |-> bf[b], data |-> dt], NEW f, f = bf[b],
         ~(BytesEnd(f) + n <= Size(dt[f.data]) /\ ~EndIsDirty(s)), NEW r, r = AddAtEnd(s, n, slack),
         NEW l, l = InternalSize(f) + n + slack
  PROVE  BehindElsewhere(f, dt, n, bs, l, Write(r, r.f.end - n, bs))
<1>1. f \in Field /\ f.data \in DataIds /\ dt[f.data] \in Datum /\ Offsets(f, dt[f.data].bytes)
  BY SharingOf, Zenon
<1> PICK y \in Seq(Int) : y = dt[f.data].bytes
  BY <1>1 DEF Datum
<1> PICK fs, fz, fe, fn \in Nat : f.start = fs /\ f.zeroStart = fz /\ f.zeroEnd = fe /\ f.end = fn
  BY <1>1 DEF Field
<1>2. fs <= fz /\ fz <= fe /\ fe <= fn
  BY <1>1 DEF Offsets
<1>0. InternalSize(f) = fn - fs - (fe - fz)
  BY ONLY f.start = fs, f.zeroStart = fz, f.zeroEnd = fe, f.end = fn DEF InternalSize, GetSize, Zeroes
<1> PICK j \in Nat : j = 0
  OBVIOUS
<1>3. /\ fz - fs \in Nat /\ fe - fs \in Nat /\ fn - fs + n \in Nat /\ ~(fn - fs < fz - fs) /\ l \in Nat /\ j + InternalSize(f) <= l
      /\ fz - fs + j = fz - fs /\ fe - fs + j = fe - fs /\ fn - fs + j = fn - fs
      /\ (fn - fs) - ((fe - fs) - (fz - fs)) = InternalSize(f) /\ (fn - fs + n) - n = fn - fs
  BY ONLY <1>0, <1>2, j = 0, l = InternalSize(f) + n + slack, fs \in Nat, fz \in Nat, fe \in Nat, fn \in Nat, n \in Nat, slack \in Nat
<1> PICK d \in DataIds : d = Unused(dt)
  BY OneUnused
<1> PICK g : g = FreshBehind(f, d, n)
  OBVIOUS
<1>4. g \in Field /\ g.data = d /\ g.start = 0 /\ g.zeroStart = fz - fs /\ g.zeroEnd = fe - fs /\ g.end = fn - fs + n
  BY ONLY <1>3, d \in DataIds, g = FreshBehind(f, d, n), f.start = fs, f.zeroStart = fz, f.zeroEnd = fe, f.end = fn DEF FreshBehind, Field
<1> PICK u : u = MovedBytes(f, y, j, l)
  OBVIOUS
<1>5. u \in Seq(Int)
  <2>1. Offsets(f, y) /\ l \in Nat /\ j + InternalSize(f) <= l
    BY ONLY <1>1, <1>3, y = dt[f.data].bytes
  <2> QED
    <3>1. MovedTo(f, y, j, l, MovedBytes(f, y, j, l))
      BY ONLY <2>1, j \in Nat, MovedTyped, Zenon
    <3> QED
      BY ONLY <3>1, u = MovedBytes(f, y, j, l) DEF MovedTo
<1> PICK dr : dr = Unref(dt, f.data)
  OBVIOUS
<1>6. dr \in [DataIds -> Datum]
  BY UnrefTyped
<1> PICK e \in Nat : e = fn - fs + n
  BY <1>3
<1> PICK dt0 : dt0 = [dr EXCEPT ![d] = Anew(u)]
  OBVIOUS
<1> PICK dt1 : dt1 = [dt0 EXCEPT ![d].m_dirtyStart = 0, ![d].m_dirtyEnd = e]
  OBVIOUS
<1>7. r = [f |-> g, data |-> dt1]
  <2> PICK h : h = Elsewhere(f, d, j)
    OBVIOUS
  <2> PICK m : m = Moved(s, j, n, slack)
    OBVIOUS
  <2>1. m = [f |-> h, data |-> dt0]
    <3>1. s = [f |-> f, data |-> dt]
      BY ONLY s = [f |-> bf[b], data |-> dt], f = bf[b]
    <3>2. MovesTo(s, j, n, slack, Elsewhere(f, Unused(dt), j),
                 [Unref(dt, f.data) EXCEPT ![Unused(dt)] = Anew(MovedBytes(f, dt[f.data].bytes, j, l))])
      BY ONLY <1>1, <3>1, j \in Nat, n \in Nat, slack \in Nat, l = InternalSize(f) + n + slack, MovedIs, Zenon
    <3> QED
      BY ONLY <3>2, h = Elsewhere(f, d, j), d = Unused(dt), dr = Unref(dt, f.data), y = dt[f.data].bytes,
              u = MovedBytes(f, y, j, l), dt0 = [dr EXCEPT ![d] = Anew(u)], m = Moved(s, j, n, slack) DEF MovesTo
  <2>2. h = [data |-> d, start |-> 0, zeroStart |-> fz - fs, zeroEnd |-> fe - fs, end |-> fn - fs]
    BY ONLY SMTT(40), <1>3, h = Elsewhere(f, d, j), f.start = fs, f.zeroStart = fz, f.zeroEnd = fe, f.end = fn, j = 0 DEF Elsewhere
  <2>a. g = [data |-> d, start |-> 0, zeroStart |-> fz - fs, zeroEnd |-> fe - fs, end |-> e]
    BY ONLY SMTT(40), g = FreshBehind(f, d, n), f.start = fs, f.zeroStart = fz, f.zeroEnd = fe, f.end = fn, e = fn - fs + n DEF FreshBehind
  <2>b. h.data = d /\ h.end + n = e /\ [h EXCEPT !.end = @ + n] = g
    <3>1. h.data = d /\ h.end + n = e
      BY ONLY <2>2, e = fn - fs + n
    <3>2. [h EXCEPT !.end = e] = g
      BY ONLY SMTT(40), <2>2, <2>a
    <3>3. [h EXCEPT !.end = @ + n] = [h EXCEPT !.end = e]
      BY ONLY <3>1, Zenon
    <3> QED
      BY <3>1, <3>2, <3>3
  <2>3. s.f = f /\ s.data = dt
    BY ONLY s = [f |-> bf[b], data |-> dt], f = bf[b]
  <2>4. r = [f |-> [m.f EXCEPT !.end = @ + n],
             data |-> [m.data EXCEPT ![m.f.data].m_dirtyStart = 0, ![m.f.data].m_dirtyEnd = m.f.end + n]]
    <3>1. ~(f.end - Zeroes(f) + n <= Size(dt[f.data]) /\ ~EndIsDirty(s))
      BY Zenon DEF BytesEnd
    <3>2. m = Moved(s, 0, n, slack)
      BY ONLY j = 0, m = Moved(s, j, n, slack)
    <3> QED
      BY ONLY <2>3, <3>1, <3>2, r = AddAtEnd(s, n, slack), Zenon DEF AddAtEnd
  <2>5. m.f = h /\ m.data = dt0
    BY ONLY <2>1
  <2> QED
    BY ONLY <2>b, <2>4, <2>5, dt1 = [dt0 EXCEPT ![d].m_dirtyStart = 0, ![d].m_dirtyEnd = e]
<1> PICK v : v = fn - fs
  OBVIOUS
<1> PICK k : k = InternalSize(f)
  OBVIOUS
<1>8. Writes(g, dt1, v, bs, [dr EXCEPT ![d] =
           [m_count |-> 1, m_dirtyStart |-> 0, m_dirtyEnd |-> e, bytes |-> Over(u, k, bs)]])
  <2>1. Zeroes(g) = (fe - fs) - (fz - fs)
    BY ONLY <1>4 DEF Zeroes
  <2>2. k = IF v < g.zeroStart THEN v ELSE v - Zeroes(g)
    BY ONLY <1>3, <1>4, <2>1, k = InternalSize(f), v = fn - fs
  <2> QED
    BY ONLY <1>4, <1>5, <1>6, <2>2, e \in Nat, dt0 = [dr EXCEPT ![d] = Anew(u)],
            dt1 = [dt0 EXCEPT ![d].m_dirtyStart = 0, ![d].m_dirtyEnd = e], AnewWritten, ZenonT(40)
<1>9. FreshBehindData(f, dt[f.data], bs, l) = [m_count |-> 1, m_dirtyStart |-> 0, m_dirtyEnd |-> e, bytes |-> Over(u, k, bs)]
  BY ONLY SMTT(40), n = Len(bs), f.start = fs, f.end = fn, e = fn - fs + n, y = dt[f.data].bytes, u = MovedBytes(f, y, j, l), j = 0,
          k = InternalSize(f) DEF FreshBehindData
<1>10. r.f.end - n = v
  BY ONLY <1>3, <1>4, <1>7, v = fn - fs
<1>c. Write(r, r.f.end - n, bs) =
        [f |-> FreshBehind(f, Unused(dt), n),
         data |-> [Unref(dt, f.data) EXCEPT ![Unused(dt)] = FreshBehindData(f, dt[f.data], bs, l)]]
  BY ONLY <1>4, <1>7, <1>8, <1>9, <1>10, g = FreshBehind(f, d, n), d = Unused(dt), dr = Unref(dt, f.data) DEF Writes
<1> QED
  BY ONLY <1>c DEF BehindElsewhere

LEMMA PrependSafe ==
  ASSUME NEW bf, NEW dt, Sharing(bf, dt), NEW b \in Buffers, IsLive(bf, b),
         NEW bs \in Seq(Int), NEW n \in Nat, n = Len(bs), n > 0, NEW slack \in Nat,
         NEW s, s = [f |-> bf[b], data |-> dt], NEW r, r = AddAtStart(s, n, slack)
  PROVE  Does(bf, dt, b, Write(r, r.f.start, bs), bs \o ReadBytes(bf[b], dt))
<1> PICK f : f = bf[b]
  OBVIOUS
<1> PICK w : w = Write(r, r.f.start, bs)
  OBVIOUS
<1>1. f \in Field /\ f.data \in DataIds /\ dt[f.data] \in Datum
  BY SharingOf
<1>2. CASE f.start >= n /\ ~StartIsDirty(s)
  <2>1. w = [f |-> Ahead(f, n), data |-> [dt EXCEPT ![f.data] = AheadData(f, dt[f.data], bs)]]
    <3>1. AheadInPlace(f, dt, n, bs, Write(r, r.f.start, bs))
      BY ONLY <1>2, Sharing(bf, dt), b \in Buffers, IsLive(bf, b), bs \in Seq(Int), n \in Nat, n = Len(bs), slack \in Nat, f = bf[b],
            s = [f |-> bf[b], data |-> dt], n > 0, r = AddAtStart(s, n, slack), StartAdded
    <3> QED
      BY ONLY <3>1, w = Write(r, r.f.start, bs), Zenon DEF AheadInPlace
  <2>2. CleanAhead(f, dt[f.data])
    <3>1. s.f = f /\ s.data = dt
      BY ONLY s = [f |-> bf[b], data |-> dt], f = bf[b]
    <3>2. f.start \in Nat /\ dt[f.data].m_dirtyStart \in Nat
      BY ONLY <1>1 DEF Field, Datum
    <3> QED
      BY ONLY <1>2, <3>1, <3>2 DEF StartIsDirty, CleanAhead
  <2>3. n <= f.start
    BY ONLY <1>1, <1>2, n \in Nat DEF Field
  <2>4. Does(bf, dt, b, [f |-> Ahead(f, n), data |-> [dt EXCEPT ![f.data] = AheadData(f, dt[f.data], bs)]], bs \o ReadBytes(f, dt))
    BY ONLY <2>2, <2>3, Sharing(bf, dt), b \in Buffers, IsLive(bf, b), bs \in Seq(Int), n \in Nat, n = Len(bs), n > 0, f = bf[b],
            PrependInPlace, Zenon
  <2> QED
    BY ONLY <2>1, <2>4, f = bf[b], w = Write(r, r.f.start, bs)
<1>3. CASE ~(f.start >= n /\ ~StartIsDirty(s))
  <2> PICK l : l = InternalSize(f) + n + slack
    OBVIOUS
  <2> PICK g : g = FreshAhead(f, Unused(dt), n)
    OBVIOUS
  <2> PICK x : x = FreshAheadData(f, dt[f.data], bs, l)
    OBVIOUS
  <2>1. w = [f |-> g, data |-> [Unref(dt, f.data) EXCEPT ![Unused(dt)] = x]]
    <3>1. AheadElsewhere(f, dt, n, bs, l, Write(r, r.f.start, bs))
      BY ONLY <1>3, Sharing(bf, dt), b \in Buffers, IsLive(bf, b), bs \in Seq(Int), n \in Nat, n = Len(bs), slack \in Nat, f = bf[b],
            s = [f |-> bf[b], data |-> dt], n > 0, r = AddAtStart(s, n, slack), l = InternalSize(f) + n + slack, StartMoved
    <3> QED
      BY ONLY <3>1, w = Write(r, r.f.start, bs), g = FreshAhead(f, Unused(dt), n), x = FreshAheadData(f, dt[f.data], bs, l) DEF AheadElsewhere
  <2>2. g.data = Unused(dt)
    BY ONLY g = FreshAhead(f, Unused(dt), n) DEF FreshAhead
  <2>3. Does(bf, dt, b, [f |-> g, data |-> [Unref(dt, f.data) EXCEPT ![g.data] = x]], bs \o ReadBytes(f, dt))
    BY ONLY Sharing(bf, dt), b \in Buffers, IsLive(bf, b), bs \in Seq(Int), n \in Nat, n = Len(bs), slack \in Nat, f = bf[b],
            g = FreshAhead(f, Unused(dt), n), l = InternalSize(f) + n + slack, x = FreshAheadData(f, dt[f.data], bs, l),
            PrependMoved, ZenonT(40)
  <2> QED
    BY ONLY <2>1, <2>2, <2>3, f = bf[b], w = Write(r, r.f.start, bs)
<1> QED
  BY <1>2, <1>3

LEMMA AppendSafe ==
  ASSUME NEW bf, NEW dt, Sharing(bf, dt), NEW b \in Buffers, IsLive(bf, b),
         NEW bs \in Seq(Int), NEW n \in Nat, n = Len(bs), NEW slack \in Nat,
         NEW s, s = [f |-> bf[b], data |-> dt], NEW r, r = AddAtEnd(s, n, slack)
  PROVE  Does(bf, dt, b, Write(r, r.f.end - n, bs), ReadBytes(bf[b], dt) \o bs)
<1> PICK f : f = bf[b]
  OBVIOUS
<1> PICK w : w = Write(r, r.f.end - n, bs)
  OBVIOUS
<1>1. f \in Field /\ f.data \in DataIds /\ dt[f.data] \in Datum
  BY SharingOf
<1>2. CASE BytesEnd(f) + n <= Size(dt[f.data]) /\ ~EndIsDirty(s)
  <2>1. w = [f |-> Behind(f, n), data |-> [dt EXCEPT ![f.data] = BehindData(f, dt[f.data], bs)]]
    <3>1. BehindInPlace(f, dt, n, bs, Write(r, r.f.end - n, bs))
      BY ONLY <1>2, Sharing(bf, dt), b \in Buffers, IsLive(bf, b), bs \in Seq(Int), n \in Nat, n = Len(bs), slack \in Nat, f = bf[b],
            s = [f |-> bf[b], data |-> dt], r = AddAtEnd(s, n, slack), EndAdded
    <3> QED
      BY ONLY <3>1, w = Write(r, r.f.end - n, bs), Zenon DEF BehindInPlace
  <2>2. CleanBehind(f, dt[f.data])
    <3>1. s.f = f /\ s.data = dt
      BY ONLY s = [f |-> bf[b], data |-> dt], f = bf[b]
    <3>2. f.end \in Nat /\ dt[f.data].m_dirtyEnd \in Nat
      BY ONLY <1>1 DEF Field, Datum
    <3> QED
      BY ONLY <1>2, <3>1, <3>2 DEF EndIsDirty, CleanBehind
  <2>3. BytesEnd(f) + n <= Len(dt[f.data].bytes)
    BY ONLY <1>2 DEF Size
  <2>4. Does(bf, dt, b, [f |-> Behind(f, n), data |-> [dt EXCEPT ![f.data] = BehindData(f, dt[f.data], bs)]], ReadBytes(f, dt) \o bs)
    BY ONLY <2>2, <2>3, Sharing(bf, dt), b \in Buffers, IsLive(bf, b), bs \in Seq(Int), n \in Nat, n = Len(bs), f = bf[b],
            AppendInPlace, Zenon
  <2> QED
    BY ONLY <2>1, <2>4, f = bf[b], w = Write(r, r.f.end - n, bs)
<1>3. CASE ~(BytesEnd(f) + n <= Size(dt[f.data]) /\ ~EndIsDirty(s))
  <2> PICK l : l = InternalSize(f) + n + slack
    OBVIOUS
  <2> PICK g : g = FreshBehind(f, Unused(dt), n)
    OBVIOUS
  <2> PICK x : x = FreshBehindData(f, dt[f.data], bs, l)
    OBVIOUS
  <2>1. w = [f |-> g, data |-> [Unref(dt, f.data) EXCEPT ![Unused(dt)] = x]]
    <3>1. BehindElsewhere(f, dt, n, bs, l, Write(r, r.f.end - n, bs))
      BY ONLY <1>3, Sharing(bf, dt), b \in Buffers, IsLive(bf, b), bs \in Seq(Int), n \in Nat, n = Len(bs), slack \in Nat, f = bf[b],
            s = [f |-> bf[b], data |-> dt], r = AddAtEnd(s, n, slack), l = InternalSize(f) + n + slack, EndMoved
    <3> QED
      BY ONLY <3>1, w = Write(r, r.f.end - n, bs), g = FreshBehind(f, Unused(dt), n), x = FreshBehindData(f, dt[f.data], bs, l) DEF BehindElsewhere
  <2>2. g.data = Unused(dt)
    BY ONLY g = FreshBehind(f, Unused(dt), n) DEF FreshBehind
  <2>3. Does(bf, dt, b, [f |-> g, data |-> [Unref(dt, f.data) EXCEPT ![g.data] = x]], ReadBytes(f, dt) \o bs)
    BY ONLY Sharing(bf, dt), b \in Buffers, IsLive(bf, b), bs \in Seq(Int), n \in Nat, n = Len(bs), slack \in Nat, f = bf[b],
            g = FreshBehind(f, Unused(dt), n), l = InternalSize(f) + n + slack, x = FreshBehindData(f, dt[f.data], bs, l),
            AppendMoved, ZenonT(40)
  <2> QED
    BY ONLY <2>1, <2>2, <2>3, f = bf[b], w = Write(r, r.f.end - n, bs)
<1> QED
  BY <1>2, <1>3

----------------------------------------------------------------------------
(* Zeroes made real, and joined.                                           *)

NoBytes(k) == [i \in 1 .. k |-> 0]

LEMMA NoBytesTyped ==
  ASSUME NEW k \in Nat
  PROVE  NoBytes(k) \in Seq(Int) /\ Len(NoBytes(k)) = k /\ \A i \in 1 .. k : NoBytes(k)[i] = 0
BY DEF NoBytes

\* f with k zeroes more at its end, where it has zeroes already, or none.
Extended(f, k) ==
  [f EXCEPT !.zeroStart = IF Zeroes(f) = 0 THEN f.end ELSE @, !.zeroEnd = f.end + k, !.end = f.end + k]

IsExtended(f, y, g, k) ==
  /\ g \in Field /\ g.data = f.data /\ g.start = f.start /\ g.end = f.end + k
  /\ Offsets(g, y) /\ BytesEnd(g) = BytesEnd(f)
  /\ ReadOf(g, y) = ReadOf(f, y) \o NoBytes(k)

LEMMA ZeroesBehind ==
  ASSUME NEW f \in Field, NEW y, Offsets(f, y), NEW k \in Nat, f.end = f.zeroEnd \/ Zeroes(f) = 0,
         NEW g, g = Extended(f, k)
  PROVE  IsExtended(f, y, g, k)
<1> PICK fs, fz, fe, fn \in Nat : f.start = fs /\ f.zeroStart = fz /\ f.zeroEnd = fe /\ f.end = fn
  BY DEF Offsets
<1>1. fs <= fz /\ fz <= fe /\ fe <= fn
  BY DEF Offsets
<1>2. Zeroes(f) = fe - fz /\ GetSize(f) = fn - fs /\ BytesEnd(f) = fn - (fe - fz)
  BY DEF Zeroes, GetSize, BytesEnd
<1> PICK gz \in Nat : gz = IF fe - fz = 0 THEN fn ELSE fz
  OBVIOUS
<1> PICK gn \in Nat : gn = fn + k
  OBVIOUS
<1>3. g = [f EXCEPT !.zeroStart = gz, !.zeroEnd = gn, !.end = gn]
  BY ONLY <1>2, g = Extended(f, k), f.end = fn, f.zeroStart = fz, gz = IF fe - fz = 0 THEN fn ELSE fz, gn = fn + k DEF Extended
<1>4. g \in Field /\ g.data = f.data /\ g.start = fs /\ g.zeroStart = gz /\ g.zeroEnd = gn /\ g.end = gn
  BY ONLY <1>3, f \in Field, f.start = fs, gz \in Nat, gn \in Nat DEF Field
<1>5. fn = fe \/ fe - fz = 0
  BY ONLY <1>2, f.end = f.zeroEnd \/ Zeroes(f) = 0, f.end = fn, f.zeroEnd = fe
<1>6. /\ gn - (gn - gz) = fn - (fe - fz) /\ fs <= gz /\ gz <= gn /\ gz <= fn /\ gn - fs = (fn - fs) + k
      /\ fn - fs \in Nat /\ gn - fs \in Nat
  BY ONLY <1>1, <1>5, gz = IF fe - fz = 0 THEN fn ELSE fz, gn = fn + k, fs \in Nat, fz \in Nat, fe \in Nat, fn \in Nat, k \in Nat
<1>7. Zeroes(g) = gn - gz /\ GetSize(g) = gn - fs /\ BytesEnd(g) = gn - (gn - gz)
  BY ONLY <1>4 DEF Zeroes, GetSize, BytesEnd
<1>8. BytesEnd(g) = BytesEnd(f)
  BY ONLY <1>2, <1>6, <1>7
<1>9. Offsets(g, y)
  <2>1. y \in Seq(Int) /\ BytesEnd(g) <= Len(y)
    BY <1>8 DEF Offsets
  <2>2. gn <= gn
    OBVIOUS
  <2> QED
    BY ONLY <1>4, <1>6, <2>1, <2>2, fs \in Nat, gz \in Nat, gn \in Nat DEF Offsets
<1> PICK r : r = ReadOf(f, y)
  OBVIOUS
<1> PICK q : q = ReadOf(g, y)
  OBVIOUS
<1> PICK m \in Nat : m = fn - fs
  BY ONLY <1>6
<1>10. /\ r \in Seq(Int) /\ Len(r) = m /\ \A i \in 1 .. m : r[i] = ByteOf(f, y, fs + i - 1)
  <2>1. /\ ReadOf(f, y) \in Seq(Int) /\ Len(ReadOf(f, y)) = GetSize(f)
        /\ \A i \in 1 .. GetSize(f) : ReadOf(f, y)[i] = ByteOf(f, y, f.start + i - 1)
    BY ReadTyped, Zenon
  <2> QED
    BY ONLY <1>2, <2>1, r = ReadOf(f, y), m = fn - fs, f.start = fs
<1>11. /\ q \in Seq(Int) /\ Len(q) = m + k /\ \A i \in 1 .. m + k : q[i] = ByteOf(g, y, fs + i - 1)
  <2>1. /\ ReadOf(g, y) \in Seq(Int) /\ Len(ReadOf(g, y)) = GetSize(g)
        /\ \A i \in 1 .. GetSize(g) : ReadOf(g, y)[i] = ByteOf(g, y, g.start + i - 1)
    BY <1>9, ReadTyped, Zenon
  <2>2. GetSize(g) = m + k
    BY ONLY <1>6, <1>7, m = fn - fs
  <2> QED
    BY ONLY <1>4, <2>1, <2>2, q = ReadOf(g, y)
<1>12. \A v : /\ ByteOf(f, y, v) = IF v < fz THEN y[v + 1] ELSE IF v < fe THEN 0 ELSE y[v - (fe - fz) + 1]
              /\ ByteOf(g, y, v) = IF v < gz THEN y[v + 1] ELSE IF v < gn THEN 0 ELSE y[v - (gn - gz) + 1]
  BY ONLY <1>2, <1>4, <1>7, f.zeroStart = fz, f.zeroEnd = fe, Zenon DEF ByteOf
<1>13. ASSUME NEW i \in 1 .. m PROVE q[i] = r[i]
  <2> PICK v : v = fs + i - 1
    OBVIOUS
  <2>1. v \in Nat /\ v < fn /\ i \in 1 .. m + k
    BY ONLY v = fs + i - 1, i \in 1 .. m, m = fn - fs, fs \in Nat, fn \in Nat, k \in Nat, m \in Nat
  <2>2. q[i] = ByteOf(g, y, v) /\ r[i] = ByteOf(f, y, v)
    BY ONLY <1>10, <1>11, <2>1, i \in 1 .. m, v = fs + i - 1
  <2>3. CASE fe - fz = 0
    <3>1. v < gz /\ gz = fn
      BY ONLY <2>1, <2>3, gz = IF fe - fz = 0 THEN fn ELSE fz
    <3>2. CASE v < fz
      BY ONLY <1>12, <2>2, <3>1, <3>2, Zenon
    <3>3. CASE ~(v < fz)
      <4>1. ~(v < fe) /\ v - (fe - fz) + 1 = v + 1
        BY ONLY <2>1, <2>3, <3>3, fz \in Nat, fe \in Nat
      <4> QED
        BY ONLY <1>12, <2>2, <3>1, <3>3, <4>1, Zenon
    <3> QED
      BY <3>2, <3>3
  <2>4. CASE fe - fz # 0
    <3>1. gz = fz /\ v < fe /\ v < gn
      BY ONLY <1>5, <2>1, <2>4, gz = IF fe - fz = 0 THEN fn ELSE fz, gn = fn + k, fn \in Nat, k \in Nat
    <3> QED
      BY ONLY <1>12, <2>2, <3>1, Zenon
  <2> QED
    BY <2>3, <2>4
<1>14. ASSUME NEW i \in 1 .. k PROVE q[m + i] = 0
  <2> PICK v : v = fs + (m + i) - 1
    OBVIOUS
  <2>1. ~(v < gz) /\ v < gn /\ m + i \in 1 .. m + k
    BY ONLY <1>6, v = fs + (m + i) - 1, i \in 1 .. k, m = fn - fs, gn = fn + k, fs \in Nat, fn \in Nat, k \in Nat, m \in Nat,
            gz \in Nat
  <2>2. q[m + i] = ByteOf(g, y, v)
    BY ONLY <1>11, <2>1, v = fs + (m + i) - 1
  <2> QED
    BY ONLY <1>12, <2>1, <2>2, Zenon
<1>15. q = r \o NoBytes(k)
  <2> PICK z : z = NoBytes(k)
    OBVIOUS
  <2>1. z \in Seq(Int) /\ Len(z) = k /\ \A i \in 1 .. k : z[i] = 0
    BY NoBytesTyped
  <2>2. Len(q) = Len(r) + Len(z)
    BY ONLY <1>10, <1>11, <2>1
  <2>3. (\A i \in 1 .. Len(r) : q[i] = r[i]) /\ \A i \in 1 .. Len(z) : q[Len(r) + i] = z[i]
    BY ONLY <1>10, <1>13, <1>14, <2>1
  <2>4. q = r \o z
    BY ONLY <1>10, <1>11, <2>1, <2>2, <2>3, IsConcat
  <2> QED
    BY <2>4
<1> QED
  BY ONLY <1>4, <1>8, <1>9, <1>15, q = ReadOf(g, y), r = ReadOf(f, y), f.start = fs, f.end = fn, gn = fn + k DEF IsExtended

\* The zeroes come first, and the other bytes after them.
IsLast(r, n, t) == t = SubSeq(r, Len(r) - n + 1, Len(r))
ZeroesThen(r, k, t, n) == n \in Nat /\ t \in Seq(Int) /\ Len(t) = n /\ r = NoBytes(k) \o t

LEMMA ZeroesFirst ==
  ASSUME NEW f, NEW y, Offsets(f, y), f.start = f.zeroStart, NEW r, r = ReadOf(f, y),
         NEW n, n = f.end - f.zeroEnd, NEW t, IsLast(r, n, t)
  PROVE  ZeroesThen(r, Zeroes(f), t, n)
<1>0. t = SubSeq(r, Len(r) - n + 1, Len(r))
  BY Zenon DEF IsLast
<1> PICK fs, fe, fn \in Nat : f.start = fs /\ f.zeroStart = fs /\ f.zeroEnd = fe /\ f.end = fn
  BY DEF Offsets
<1>1. fs <= fe /\ fe <= fn
  BY DEF Offsets
<1>2. Zeroes(f) = fe - fs /\ GetSize(f) = fn - fs
  BY DEF Zeroes, GetSize
<1> PICK k \in Nat : k = fe - fs
  BY ONLY <1>1, fe \in Nat, fs \in Nat
<1>3. n \in Nat /\ fn - fs = k + n
  BY ONLY <1>1, k = fe - fs, n = f.end - f.zeroEnd, f.end = fn, f.zeroEnd = fe, fs \in Nat, fe \in Nat, fn \in Nat
<1>4. /\ r \in Seq(Int) /\ Len(r) = k + n /\ \A i \in 1 .. k + n : r[i] = ByteOf(f, y, fs + i - 1)
  <2>1. /\ ReadOf(f, y) \in Seq(Int) /\ Len(ReadOf(f, y)) = GetSize(f)
        /\ \A i \in 1 .. GetSize(f) : ReadOf(f, y)[i] = ByteOf(f, y, f.start + i - 1)
    BY ReadTyped, Zenon
  <2> QED
    BY ONLY <1>2, <1>3, <2>1, r = ReadOf(f, y), f.start = fs
<1>5. t = SubSeq(r, k + 1, k + n)
  <2>1. Len(r) - n + 1 = k + 1 /\ Len(r) = k + n
    BY ONLY <1>3, <1>4, k \in Nat
  <2> QED
    BY ONLY <1>0, <2>1
<1>6. t \in Seq(Int) /\ Len(t) = n /\ \A i \in 1 .. n : t[i] = r[k + i]
  <2>1. \A i \in k + 1 .. k + n : r[i] \in Int
    <3>1. \A i \in 1 .. Len(r) : r[i] \in Int
      BY ONLY <1>4, ElementOfSeq, Zenon
    <3> QED
      BY ONLY <1>3, <1>4, <3>1, k \in Nat
  <2>2. k + 1 \in Int /\ k + n \in Int /\ (IF k + 1 <= k + n THEN (k + n) - (k + 1) + 1 ELSE 0) = n
    BY ONLY <1>3, k \in Nat
  <2> PICK a, b : a = k + 1 /\ b = k + n
    OBVIOUS
  <2> PICK w : w = SubSeq(r, a, b)
    OBVIOUS
  <2>3. /\ w \in Seq(Int) /\ Len(w) = IF a <= b THEN b - a + 1 ELSE 0
        /\ \A i \in 1 .. b - a + 1 : w[i] = r[a + i - 1]
    BY ONLY SMTT(40), <1>4, <2>1, <2>2, a = k + 1 /\ b = k + n, w = SubSeq(r, a, b), SubSeqProperties
  <2>4. w = t /\ b - a + 1 = n
    BY ONLY <1>3, <1>5, a = k + 1 /\ b = k + n, w = SubSeq(r, a, b), k \in Nat
  <2>5. ASSUME NEW i \in 1 .. n PROVE a + i - 1 = k + i
    BY ONLY <1>3, i \in 1 .. n, a = k + 1 /\ b = k + n, k \in Nat
  <2> QED
    BY ONLY <2>2, <2>3, <2>4, <2>5, a = k + 1 /\ b = k + n
<1>7. ASSUME NEW i \in 1 .. k PROVE r[i] = 0
  <2> PICK v : v = fs + i - 1
    OBVIOUS
  <2>1. i \in 1 .. k + n /\ ~(v < fs) /\ v < fe
    BY ONLY <1>3, v = fs + i - 1, i \in 1 .. k, k = fe - fs, k \in Nat, fs \in Nat, fe \in Nat
  <2>2. r[i] = ByteOf(f, y, v)
    BY ONLY <1>4, <2>1, v = fs + i - 1
  <2>3. ByteOf(f, y, v) = IF v < fs THEN y[v + 1] ELSE IF v < fe THEN 0 ELSE y[v - Zeroes(f) + 1]
    BY ONLY f.zeroStart = fs, f.zeroEnd = fe, Zenon DEF ByteOf
  <2> QED
    BY ONLY <2>1, <2>2, <2>3, Zenon
<1> PICK z : z = NoBytes(k)
  OBVIOUS
<1>8. z \in Seq(Int) /\ Len(z) = k /\ \A i \in 1 .. k : z[i] = 0
  BY NoBytesTyped
<1>9. (\A i \in 1 .. Len(z) : r[i] = z[i]) /\ (\A i \in 1 .. Len(t) : r[Len(z) + i] = t[i]) /\ Len(r) = Len(z) + Len(t)
  BY ONLY <1>4, <1>6, <1>7, <1>8
<1>10. r = z \o t
  BY ONLY <1>4, <1>6, <1>8, <1>9, IsConcat
<1> QED
  BY ONLY <1>2, <1>3, <1>6, <1>10, k = fe - fs, z = NoBytes(k) DEF ZeroesThen

\* First one thing, then another.
Becoming(bf, b, f) == [bf EXCEPT ![b] = f]

LEMMA DoesBoth ==
  ASSUME NEW bf, NEW dt, Sharing(bf, dt), NEW b \in Buffers, NEW s, NEW c, NEW t, NEW c2,
         Does(bf, dt, b, s, c), Does(Becoming(bf, b, s.f), s.data, b, t, c2)
  PROVE  Does(bf, dt, b, t, c2)
<1> PICK bg : bg = [bf EXCEPT ![b] = s.f]
  OBVIOUS
<1>0. Does(bg, s.data, b, t, c2)
  BY ONLY bg = [bf EXCEPT ![b] = s.f], Does(Becoming(bf, b, s.f), s.data, b, t, c2) DEF Becoming
<1>1. Safe(bf, dt, b, s.f, s.data) /\ Safe(bg, s.data, b, t.f, t.data) /\ t.f \in Field /\ ReadBytes(t.f, t.data) = c2
  BY <1>0, Zenon DEF Does
<1>2. bf \in [Buffers -> Field \cup {Gone}]
  BY Zenon DEF Sharing
<1>3. Safe(bf, dt, b, t.f, t.data)
  <2> PICK f, dt1, g, dt2 : f = s.f /\ dt1 = s.data /\ g = t.f /\ dt2 = t.data
    OBVIOUS
  <2>1. Safe(bf, dt, b, f, dt1)
    BY ONLY <1>1, f = s.f /\ dt1 = s.data /\ g = t.f /\ dt2 = t.data
  <2>2. Safe(bg, dt1, b, g, dt2)
    BY ONLY <1>1, f = s.f /\ dt1 = s.data /\ g = t.f /\ dt2 = t.data
  <2>3. bg = [bf EXCEPT ![b] = f]
    BY ONLY bg = [bf EXCEPT ![b] = s.f], f = s.f /\ dt1 = s.data /\ g = t.f /\ dt2 = t.data
  <2>4. Safe(bf, dt, b, g, dt2)
    BY ONLY <1>2, <2>1, <2>2, <2>3, b \in Buffers, TwoSteps
  <2> QED
    BY ONLY <2>4, f = s.f /\ dt1 = s.data /\ g = t.f /\ dt2 = t.data
<1> QED
  BY ONLY <1>1, <1>3, Zenon DEF Does

\* After the first of them, the buffer is there, and holds what it should.
Holds(bf, dt, b, f, c) == Sharing(bf, dt) /\ IsLive(bf, b) /\ bf[b] = f /\ ReadBytes(bf[b], dt) = c

LEMMA DoesFirst ==
  ASSUME NEW bf, NEW dt, Sharing(bf, dt), NEW b \in Buffers, NEW s, NEW c, Does(bf, dt, b, s, c)
  PROVE  Holds(Becoming(bf, b, s.f), s.data, b, s.f, c)
<1> PICK bg : bg = [bf EXCEPT ![b] = s.f]
  OBVIOUS
<1>1. bf \in [Buffers -> Field \cup {Gone}]
  BY Zenon DEF Sharing
<1>2. bg[b] = s.f
  BY ONLY <1>1, b \in Buffers, bg = [bf EXCEPT ![b] = s.f]
<1>3. Safe(bf, dt, b, s.f, s.data) /\ s.f \in Field /\ ReadBytes(s.f, s.data) = c
  BY Zenon DEF Does
<1>4. Sharing(bg, s.data)
  BY ONLY <1>3, bg = [bf EXCEPT ![b] = s.f] DEF Safe
<1>5. s.f # Gone
  BY <1>3, BuffersAre
<1>6. Holds(bg, s.data, b, s.f, c)
  BY ONLY <1>2, <1>3, <1>4, <1>5 DEF IsLive, Holds
<1> QED
  BY ONLY <1>6, bg = [bf EXCEPT ![b] = s.f] DEF Becoming

\* A buffer that becomes a part of what it is.
LEMMA KeptSafe ==
  ASSUME NEW bf, NEW dt, Sharing(bf, dt), NEW b \in Buffers, IsLive(bf, b)
  PROVE  Does(bf, dt, b, [f |-> bf[b], data |-> dt], ReadBytes(bf[b], dt))
<1>1. bf \in [Buffers -> Field \cup {Gone}]
  BY Zenon DEF Sharing
<1>2. [bf EXCEPT ![b] = bf[b]] = bf
  BY ONLY <1>1, b \in Buffers
<1>3. Safe(bf, dt, b, bf[b], dt)
  BY <1>2 DEF Safe, Unnoticed
<1>4. bf[b] \in Field
  BY SharingOf
<1> QED
  BY <1>3, <1>4 DEF Does

LEMMA RealSafe ==
  ASSUME NEW bf, NEW dt, Sharing(bf, dt), NEW b \in Buffers, IsLive(bf, b), NEW slack \in Nat,
         NEW s, s = [f |-> bf[b], data |-> dt]
  PROVE  Does(bf, dt, b, FullCopy(s, slack), ReadBytes(bf[b], dt))
<1> PICK f : f = bf[b]
  OBVIOUS
<1> PICK w : w = FullCopy(s, slack)
  OBVIOUS
<1>0. s.f = f /\ s.data = dt
  BY ONLY s = [f |-> bf[b], data |-> dt], f = bf[b]
<1>1. CASE Zeroes(f) = 0
  <2>1. w = s
    BY ONLY <1>0, <1>1, w = FullCopy(s, slack) DEF FullCopy
  <2>2. Does(bf, dt, b, [f |-> bf[b], data |-> dt], ReadBytes(bf[b], dt))
    BY KeptSafe
  <2> QED
    BY ONLY <2>1, <2>2, s = [f |-> bf[b], data |-> dt], w = FullCopy(s, slack)
<1>2. CASE Zeroes(f) # 0
  <2>1. f \in Field /\ f.data \in DataIds /\ dt[f.data] \in Datum /\ Offsets(f, dt[f.data].bytes)
    BY SharingOf, Zenon
  <2> PICK y \in Seq(Int) : y = dt[f.data].bytes
    BY <2>1 DEF Datum
  <2> PICK fs, fz, fe, fn \in Nat : f.start = fs /\ f.zeroStart = fz /\ f.zeroEnd = fe /\ f.end = fn
    BY <2>1 DEF Field
  <2>2. fs <= fz /\ fz <= fe /\ fe <= fn
    BY ONLY <2>1, f.start = fs, f.zeroStart = fz, f.zeroEnd = fe, f.end = fn DEF Offsets
  <2>3. fn - fs \in Nat /\ fe - fs \in Nat /\ fe - fs <= fn - fs /\ GetSize(f) = fn - fs
    BY ONLY <2>2, f.start = fs, f.end = fn, fs \in Nat, fz \in Nat, fe \in Nat, fn \in Nat DEF GetSize
  <2> PICK n \in Nat : n = fn - fs
    BY ONLY <2>3
  <2> PICK ge \in Nat : ge = fe - fs
    BY ONLY <2>3
  <2> PICK l \in Nat : l = n + slack
    OBVIOUS
  <2> PICK r : r = ReadBytes(f, dt)
    OBVIOUS
  <2>4. r = ReadOf(f, y) /\ r \in Seq(Int) /\ Len(r) = n
    <3>1. r = ReadOf(f, dt[f.data].bytes)
      BY ONLY r = ReadBytes(f, dt), ReadsBytes
    <3>2. Offsets(f, y)
      BY ONLY <2>1, y = dt[f.data].bytes
    <3>3. ReadOf(f, y) \in Seq(Int) /\ Len(ReadOf(f, y)) = GetSize(f)
      BY ONLY <3>2, ReadTyped, Zenon
    <3> QED
      BY ONLY <2>3, <3>1, <3>3, y = dt[f.data].bytes, n = fn - fs
  <2> PICK d \in DataIds : d = Unused(dt)
    BY OneUnused
  <2> PICK z : z = [i \in 1 .. l |-> IF i <= n THEN r[i] ELSE Junk]
    OBVIOUS
  <2>5. z \in Seq(Int) /\ Len(z) = l /\ n <= l /\ \A i \in 1 .. n : z[i] = r[i]
    <3>1. Junk \in Int /\ \A i \in 1 .. n : r[i] \in Int
      BY <2>4 DEF Junk
    <3>2. ASSUME NEW i \in 1 .. l PROVE (IF i <= n THEN r[i] ELSE Junk) \in Int
      BY ONLY <3>1, i \in 1 .. l, l \in Nat, n \in Nat
    <3>3. n <= l
      BY ONLY l = n + slack, n \in Nat, slack \in Nat
    <3>4. z \in [1 .. l -> Int] /\ \A i \in 1 .. l : z[i] = IF i <= n THEN r[i] ELSE Junk
      BY ONLY <3>2, z = [i \in 1 .. l |-> IF i <= n THEN r[i] ELSE Junk]
    <3>5. \A i \in 1 .. n : i \in 1 .. l /\ i <= n
      BY ONLY <3>3, l \in Nat, n \in Nat
    <3> QED
      BY ONLY <3>3, <3>4, <3>5, l \in Nat
  <2> PICK g : g = [data |-> d, start |-> 0, zeroStart |-> ge, zeroEnd |-> ge, end |-> n]
    OBVIOUS
  <2> PICK x : x = [m_count |-> 1, m_dirtyStart |-> 0, m_dirtyEnd |-> n, bytes |-> z]
    OBVIOUS
  <2>6. g \in Field /\ g.data = d /\ g.start = 0 /\ g.zeroStart = ge /\ g.zeroEnd = ge /\ g.end = n
    BY ONLY g = [data |-> d, start |-> 0, zeroStart |-> ge, zeroEnd |-> ge, end |-> n], d \in DataIds, ge \in Nat, n \in Nat
       DEF Field
  <2>7. x \in Datum /\ x.m_count = 1 /\ x.m_dirtyStart = 0 /\ x.m_dirtyEnd = n /\ x.bytes = z
    BY ONLY <2>5, x = [m_count |-> 1, m_dirtyStart |-> 0, m_dirtyEnd |-> n, bytes |-> z], n \in Nat DEF Datum
  <2>8. Zeroes(g) = 0 /\ GetSize(g) = n /\ BytesEnd(g) = n
    BY ONLY <2>6, ge \in Nat, n \in Nat DEF Zeroes, GetSize, BytesEnd
  <2>9. Offsets(g, z) /\ InPlace(g, x)
    <3>1. ge <= n /\ 0 <= ge /\ ge <= ge /\ 0 <= 0 /\ 0 \in Nat
      BY ONLY <2>3, n = fn - fs, ge = fe - fs, ge \in Nat
    <3> QED
      BY ONLY <2>5, <2>6, <2>7, <2>8, <3>1, ge \in Nat, n \in Nat DEF Offsets, InPlace
  <2> PICK dt2 : dt2 = [Unref(dt, f.data) EXCEPT ![g.data] = x]
    OBVIOUS
  <2>10. Safe(bf, dt, b, g, dt2)
    <3>1. g.data = Unused(dt) /\ g.end <= x.m_dirtyEnd
      BY ONLY <2>6, <2>7, d = Unused(dt), n \in Nat
    <3>2. dt2 = [Unref(dt, bf[b].data) EXCEPT ![g.data] = x]
      BY ONLY f = bf[b], dt2 = [Unref(dt, f.data) EXCEPT ![g.data] = x]
    <3> QED
      BY ONLY <2>6, <2>7, <2>9, <3>1, <3>2, Sharing(bf, dt), b \in Buffers, IsLive(bf, b), ReplacedSafe
  <2>11. ReadOf(g, z) = r
    <3> PICK q : q = ReadOf(g, z)
      OBVIOUS
    <3>1. q \in Seq(Int) /\ Len(q) = n /\ \A i \in 1 .. n : q[i] = ByteOf(g, z, 0 + i - 1)
      <4>1. /\ ReadOf(g, z) \in Seq(Int) /\ Len(ReadOf(g, z)) = GetSize(g)
            /\ \A i \in 1 .. GetSize(g) : ReadOf(g, z)[i] = ByteOf(g, z, g.start + i - 1)
        BY ONLY <2>9, ReadTyped, Zenon
      <4> QED
        BY ONLY <2>6, <2>8, <4>1, q = ReadOf(g, z)
    <3>2. ASSUME NEW i \in 1 .. n PROVE q[i] = r[i]
      <4> PICK v : v = 0 + i - 1
        OBVIOUS
      <4>1. v + 1 = i /\ v - 0 + 1 = i
        BY ONLY v = 0 + i - 1, i \in 1 .. n, n \in Nat
      <4>2. ByteOf(g, z, v) = IF v < ge THEN z[v + 1] ELSE IF v < ge THEN 0 ELSE z[v - Zeroes(g) + 1]
        BY ONLY <2>6, Zenon DEF ByteOf
      <4>3. ByteOf(g, z, v) = z[i]
        BY ONLY <2>8, <4>1, <4>2
      <4> QED
        BY ONLY <2>5, <3>1, <4>3, i \in 1 .. n, v = 0 + i - 1
    <3> QED
      BY ONLY <2>4, <3>1, <3>2, q = ReadOf(g, z), SeqEqual
  <2>12. dt2[g.data].bytes = z
    <3>1. Unref(dt, f.data) \in [DataIds -> Datum]
      BY ONLY f = bf[b], Sharing(bf, dt), b \in Buffers, IsLive(bf, b), UnrefTyped
    <3> QED
      BY ONLY <2>6, <2>7, <3>1, d \in DataIds, dt2 = [Unref(dt, f.data) EXCEPT ![g.data] = x]
  <2>13. ReadBytes(g, dt2) = r
    BY ONLY <2>11, <2>12, ReadsBytes
  <2>14. w = [f |-> g, data |-> dt2]
    <3>1. fe - fs = ge /\ GetSize(f) = n /\ s.f.zeroEnd - s.f.start = ge
      BY ONLY <1>0, <2>3, n = fn - fs, ge = fe - fs, f.start = fs, f.zeroEnd = fe
    <3>2. w = [f |-> [data |-> d, start |-> 0, zeroStart |-> ge, zeroEnd |-> ge, end |-> n],
               data |-> [Unref(dt, f.data) EXCEPT ![d] =
                         [m_count |-> 1, m_dirtyStart |-> 0, m_dirtyEnd |-> n,
                          bytes |-> [i \in 1 .. n + slack |-> IF i <= n THEN r[i] ELSE Junk]]]]
      BY ONLY <1>0, <1>2, <3>1, d = Unused(dt), r = ReadBytes(f, dt), w = FullCopy(s, slack), Zenon DEF FullCopy
    <3>3. [i \in 1 .. n + slack |-> IF i <= n THEN r[i] ELSE Junk] = z
      BY ONLY l = n + slack, z = [i \in 1 .. l |-> IF i <= n THEN r[i] ELSE Junk], Zenon
    <3> QED
      BY ONLY <2>6, <3>2, <3>3, g = [data |-> d, start |-> 0, zeroStart |-> ge, zeroEnd |-> ge, end |-> n],
              x = [m_count |-> 1, m_dirtyStart |-> 0, m_dirtyEnd |-> n, bytes |-> z],
              dt2 = [Unref(dt, f.data) EXCEPT ![g.data] = x]
  <2>15. w.f = g /\ w.data = dt2
    BY ONLY <2>14
  <2> QED
    BY ONLY <2>6, <2>10, <2>13, <2>15, r = ReadBytes(f, dt), f = bf[b], w = FullCopy(s, slack) DEF Does
<1> QED
  BY <1>1, <1>2

LEMMA ExtendedSafe ==
  ASSUME NEW bf, NEW dt, Sharing(bf, dt), NEW b \in Buffers, IsLive(bf, b), NEW k \in Nat, NEW f, f = bf[b],
         dt[f.data].m_count = 1, f.end = f.zeroEnd \/ Zeroes(f) = 0,
         NEW dt2, dt2 = [dt EXCEPT ![f.data].m_dirtyEnd = f.end + k]
  PROVE  Does(bf, dt, b, [f |-> Extended(f, k), data |-> dt2], ReadBytes(f, dt) \o NoBytes(k))
<1> PICK d : d = f.data
  OBVIOUS
<1>1. /\ f \in Field /\ d \in DataIds /\ dt[d] \in Datum /\ InPlace(f, dt[d]) /\ Offsets(f, dt[d].bytes)
      /\ dt \in [DataIds -> Datum]
  BY SharingOf, Zenon DEF Sharing
<1> PICK y \in Seq(Int) : y = dt[d].bytes
  BY <1>1 DEF Datum
<1> PICK fn \in Nat : fn = f.end
  BY <1>1 DEF Field
<1> PICK last \in Nat : last = fn + k
  OBVIOUS
<1> PICK g : g = Extended(f, k)
  OBVIOUS
<1>2. /\ g \in Field /\ g.data = f.data /\ g.start = f.start /\ g.end = f.end + k
      /\ Offsets(g, y) /\ BytesEnd(g) = BytesEnd(f)
      /\ ReadOf(g, y) = ReadOf(f, y) \o NoBytes(k)
  <2>1. Offsets(f, y)
    BY ONLY <1>1, y = dt[d].bytes
  <2> QED
    <3>1. IsExtended(f, y, g, k)
      BY ONLY <1>1, <2>1, k \in Nat, f.end = f.zeroEnd \/ Zeroes(f) = 0, g = Extended(f, k), ZeroesBehind
    <3> QED
      BY ONLY <3>1 DEF IsExtended
<1> PICK x : x = [dt[d] EXCEPT !.m_dirtyEnd = last]
  OBVIOUS
<1>3. /\ x \in Datum /\ x.bytes = y /\ x.m_count = dt[d].m_count /\ x.m_dirtyStart = dt[d].m_dirtyStart /\ x.m_dirtyEnd = last
  BY ONLY <1>1, x = [dt[d] EXCEPT !.m_dirtyEnd = last], y = dt[d].bytes, last \in Nat DEF Datum
<1>4. dt2 = [dt EXCEPT ![d] = x]
  BY ONLY <1>1, dt2 = [dt EXCEPT ![f.data].m_dirtyEnd = f.end + k], d = f.data, fn = f.end, last = fn + k,
          x = [dt[d] EXCEPT !.m_dirtyEnd = last]
<1>5. InPlace(g, x)
  <2>1. x.m_dirtyStart <= g.start
    BY ONLY <1>1, <1>2, <1>3 DEF InPlace
  <2> QED
    BY ONLY <1>2, <1>3, <2>1, Zenon DEF Offsets, InPlace
<1>6. ASSUME NEW o \in Users(bf, d), o # b PROVE FALSE
  <2>1. dt[d].m_count > 1
    BY SMTT(40), <1>6, AloneOrCounted
  <2> QED
    BY ONLY <2>1, dt[f.data].m_count = 1, d = f.data
<1> PICK z \in Nat : z = Zeroes(g)
  BY <1>2, OffsetsTyped
<1>7. Covers(x, z, g)
  <2> PICK gz, ge \in Nat : g.zeroStart = gz /\ g.zeroEnd = ge
    BY <1>2 DEF Field
  <2>1. g.end = last
    BY ONLY <1>2, fn = f.end, last = fn + k
  <2>2. Zeroes(g) <= z /\ BytesEnd(g) + z <= last
    BY ONLY <2>1, z = Zeroes(g), g.zeroStart = gz /\ g.zeroEnd = ge, gz \in Nat, ge \in Nat, last \in Nat DEF BytesEnd, Zeroes
  <2> QED
    BY ONLY SMTT(40), <1>3, <2>2 DEF Covers
<1>8. Safe(bf, dt, b, g, dt2)
  <2>1. g.data = bf[b].data /\ x.m_count = dt[g.data].m_count /\ dt2 = [dt EXCEPT ![g.data] = x]
    BY ONLY <1>2, <1>3, <1>4, d = f.data, f = bf[b]
  <2>2. \A o \in Users(bf, g.data) : o = b
    BY ONLY <1>2, <1>6, d = f.data
  <2> QED
    BY ONLY <1>2, <1>3, <1>5, <1>7, <2>1, <2>2, Sharing(bf, dt), b \in Buffers, IsLive(bf, b), z \in Nat, InPlaceSafe
<1>9. ReadBytes(g, dt2) = ReadBytes(f, dt) \o NoBytes(k)
  <2>1. dt2[d].bytes = y
    BY ONLY <1>1, <1>3, <1>4
  <2>2. ReadBytes(g, dt2) = ReadOf(g, dt2[g.data].bytes) /\ ReadBytes(f, dt) = ReadOf(f, dt[f.data].bytes)
    BY ReadsBytes
  <2> QED
    BY ONLY <1>2, <2>1, <2>2, d = f.data, y = dt[d].bytes
<1> PICK s : s = [f |-> g, data |-> dt2]
  OBVIOUS
<1>10. s.f = g /\ s.data = dt2
  BY ONLY s = [f |-> g, data |-> dt2]
<1>11. Does(bf, dt, b, s, ReadBytes(f, dt) \o NoBytes(k))
  BY ONLY <1>2, <1>8, <1>9, <1>10 DEF Does
<1> QED
  BY ONLY <1>11, s = [f |-> g, data |-> dt2], g = Extended(f, k)

\* AddAtEnd of a buffer, both ways.
LEMMA JoinedSafe ==
  ASSUME NEW bf, NEW dt, Sharing(bf, dt), NEW b \in Buffers, IsLive(bf, b), NEW c \in Buffers, IsLive(bf, c), c # b,
         NEW slack \in Nat, NEW s, s = [f |-> bf[b], data |-> dt], NEW o, o = bf[c]
  PROVE  Does(bf, dt, b, Joined(s, o, slack), ReadBytes(bf[b], dt) \o ReadBytes(o, dt))
<1> PICK f : f = bf[b]
  OBVIOUS
<1> PICK w : w = Joined(s, o, slack)
  OBVIOUS
<1> PICK p : p = ReadBytes(f, dt)
  OBVIOUS
<1> PICK q : q = ReadBytes(o, dt)
  OBVIOUS
<1>0. s.f = f /\ s.data = dt
  BY ONLY s = [f |-> bf[b], data |-> dt], f = bf[b]
<1>1. f \in Field /\ f.data \in DataIds /\ dt[f.data] \in Datum /\ Offsets(f, dt[f.data].bytes)
  BY SharingOf, Zenon
<1>2. o \in Field /\ Offsets(o, dt[o.data].bytes)
  BY SharingOf, Zenon
<1>3. p \in Seq(Int) /\ q \in Seq(Int) /\ Len(q) = GetSize(o) /\ q = ReadOf(o, dt[o.data].bytes) /\ GetSize(o) \in Nat
  <2>1. p = ReadOf(f, dt[f.data].bytes) /\ q = ReadOf(o, dt[o.data].bytes)
    BY ONLY p = ReadBytes(f, dt), q = ReadBytes(o, dt), ReadsBytes
  <2>2. ReadOf(f, dt[f.data].bytes) \in Seq(Int)
    BY ONLY <1>1, ReadTyped, Zenon
  <2>3. ReadOf(o, dt[o.data].bytes) \in Seq(Int) /\ Len(ReadOf(o, dt[o.data].bytes)) = GetSize(o)
    BY ONLY <1>2, ReadTyped, Zenon
  <2>4. GetSize(o) \in Nat
    BY ONLY <1>2, OffsetsTyped, Zenon
  <2> QED
    BY ONLY <2>1, <2>2, <2>3, <2>4
<1>4. CASE ~ZeroesMeet(s, o)
  <2> PICK s1 : s1 = FullCopy(s, slack)
    OBVIOUS
  <2> PICK n \in Nat : n = GetSize(o)
    BY ONLY <1>3
  <2> PICK t : t = AddAtEnd(s1, n, slack)
    OBVIOUS
  <2>1. w = Write(t, t.f.end - n, q)
    BY ONLY <1>0, <1>4, w = Joined(s, o, slack), q = ReadBytes(o, dt), s1 = FullCopy(s, slack), n = GetSize(o),
            t = AddAtEnd(s1, n, slack), Zenon DEF Joined
  <2>2. Does(bf, dt, b, s1, p)
    BY ONLY s1 = FullCopy(s, slack), p = ReadBytes(f, dt), f = bf[b], Sharing(bf, dt), b \in Buffers, IsLive(bf, b),
            slack \in Nat, s = [f |-> bf[b], data |-> dt], RealSafe
  <2> PICK bg : bg = Becoming(bf, b, s1.f)
    OBVIOUS
  <2>3. Sharing(bg, s1.data) /\ IsLive(bg, b) /\ bg[b] = s1.f /\ ReadBytes(bg[b], s1.data) = p
    BY ONLY <2>2, Sharing(bf, dt), b \in Buffers, bg = Becoming(bf, b, s1.f), DoesFirst DEF Holds
  <2>4. s1 = [f |-> bg[b], data |-> s1.data]
    <3>1. s1 = [f |-> s1.f, data |-> s1.data]
      <4>1. CASE Zeroes(f) = 0
        <5>1. s1 = s
          BY ONLY <1>0, <4>1, s1 = FullCopy(s, slack) DEF FullCopy
        <5> QED
          BY ONLY <5>1, <1>0, s = [f |-> bf[b], data |-> dt], f = bf[b]
      <4>2. CASE Zeroes(f) # 0
        <5>1. \E h, e : s1 = [f |-> h, data |-> e]
          BY ONLY <1>0, <4>2, s1 = FullCopy(s, slack) DEF FullCopy
        <5> QED
          BY ONLY <5>1
      <4> QED
        BY <4>1, <4>2
    <3> QED
      BY ONLY <2>3, <3>1
  <2>5. Does(bg, s1.data, b, w, ReadBytes(bg[b], s1.data) \o q)
    <3> PICK dt1 : dt1 = s1.data
      OBVIOUS
    <3>1. Sharing(bg, dt1) /\ IsLive(bg, b) /\ s1 = [f |-> bg[b], data |-> dt1] /\ n = Len(q) /\ q \in Seq(Int)
      BY ONLY <1>3, <2>3, <2>4, dt1 = s1.data, n = GetSize(o)
    <3>2. Does(bg, dt1, b, Write(t, t.f.end - n, q), ReadBytes(bg[b], dt1) \o q)
      BY ONLY <3>1, b \in Buffers, n \in Nat, slack \in Nat, t = AddAtEnd(s1, n, slack), AppendSafe
    <3> QED
      BY ONLY <2>1, <3>2, dt1 = s1.data
  <2>6. Does(bf, dt, b, w, ReadBytes(bg[b], s1.data) \o q)
    BY ONLY <2>2, <2>5, Sharing(bf, dt), b \in Buffers, bg = Becoming(bf, b, s1.f), DoesBoth
  <2> QED
    BY ONLY <2>3, <2>6, w = Joined(s, o, slack), p = ReadBytes(f, dt), q = ReadBytes(o, dt), f = bf[b]
<1>5. CASE ZeroesMeet(s, o)
  <2>0. /\ dt[f.data].m_count = 1 /\ (f.end = f.zeroEnd \/ Zeroes(f) = 0) /\ o.start = o.zeroStart
    BY ONLY <1>0, <1>5 DEF ZeroesMeet
  <2> PICK k \in Nat : k = Zeroes(o)
    BY ONLY <1>2, OffsetsTyped
  <2> PICK n : n = o.end - o.zeroEnd
    OBVIOUS
  <2> PICK v : v = SubSeq(q, Len(q) - n + 1, Len(q))
    OBVIOUS
  <2>1. n \in Nat /\ v \in Seq(Int) /\ Len(v) = n /\ q = NoBytes(k) \o v
    <3> PICK y : y = dt[o.data].bytes
      OBVIOUS
    <3>1. Offsets(o, y) /\ q = ReadOf(o, y)
      BY ONLY <1>2, <1>3, y = dt[o.data].bytes
    <3> QED
      <4>1. IsLast(q, n, v)
        BY ONLY v = SubSeq(q, Len(q) - n + 1, Len(q)) DEF IsLast
      <4>2. ZeroesThen(q, Zeroes(o), v, n)
        BY ONLY <2>0, <3>1, <4>1, n = o.end - o.zeroEnd, ZeroesFirst
      <4> QED
        BY ONLY <4>2, k = Zeroes(o) DEF ZeroesThen
  <2> PICK dt1 : dt1 = [dt EXCEPT ![f.data].m_dirtyEnd = f.end + k]
    OBVIOUS
  <2> PICK g : g = Extended(f, k)
    OBVIOUS
  <2> PICK s1 : s1 = [f |-> g, data |-> dt1]
    OBVIOUS
  <2>2. s1.f = g /\ s1.data = dt1
    BY ONLY s1 = [f |-> g, data |-> dt1]
  <2> PICK t : t = AddAtEnd(s1, n, slack)
    OBVIOUS
  <2>3. w = Write(t, t.f.end - n, v)
    <3>1. g = [f EXCEPT !.zeroStart = IF Zeroes(f) = 0 THEN f.end ELSE @, !.zeroEnd = f.end + k, !.end = f.end + k]
      BY ONLY g = Extended(f, k), Zenon DEF Extended
    <3>2. g.data = f.data
      BY ONLY <1>1, <3>1 DEF Field
    <3> QED
      BY ONLY <1>0, <1>5, <3>1, <3>2, w = Joined(s, o, slack), q = ReadBytes(o, dt), k = Zeroes(o), n = o.end - o.zeroEnd,
              v = SubSeq(q, Len(q) - n + 1, Len(q)), dt1 = [dt EXCEPT ![f.data].m_dirtyEnd = f.end + k],
              s1 = [f |-> g, data |-> dt1], t = AddAtEnd(s1, n, slack), Zenon DEF Joined
  <2>4. Does(bf, dt, b, s1, p \o NoBytes(k))
    <3>1. Does(bf, dt, b, [f |-> Extended(f, k), data |-> dt1], ReadBytes(f, dt) \o NoBytes(k))
      BY ONLY <2>0, Sharing(bf, dt), b \in Buffers, IsLive(bf, b), k \in Nat, f = bf[b],
              dt1 = [dt EXCEPT ![f.data].m_dirtyEnd = f.end + k], ExtendedSafe, Zenon
    <3> QED
      BY ONLY <3>1, s1 = [f |-> g, data |-> dt1], g = Extended(f, k), p = ReadBytes(f, dt)
  <2> PICK bg : bg = Becoming(bf, b, s1.f)
    OBVIOUS
  <2>5. Sharing(bg, s1.data) /\ IsLive(bg, b) /\ bg[b] = s1.f /\ ReadBytes(bg[b], s1.data) = p \o NoBytes(k)
    BY ONLY ZenonT(40), <2>4, Sharing(bf, dt), b \in Buffers, bg = Becoming(bf, b, s1.f), DoesFirst DEF Holds
  <2>6. Does(bg, s1.data, b, w, ReadBytes(bg[b], s1.data) \o v)
    <3>1. Sharing(bg, dt1) /\ IsLive(bg, b) /\ s1 = [f |-> bg[b], data |-> dt1] /\ n = Len(v) /\ v \in Seq(Int) /\ n \in Nat
      BY ONLY <2>1, <2>2, <2>5, s1 = [f |-> g, data |-> dt1]
    <3>2. Does(bg, dt1, b, Write(t, t.f.end - n, v), ReadBytes(bg[b], dt1) \o v)
      BY ONLY <3>1, b \in Buffers, slack \in Nat, t = AddAtEnd(s1, n, slack), AppendSafe
    <3> QED
      BY ONLY <2>2, <2>3, <3>2
  <2>7. Does(bf, dt, b, w, ReadBytes(bg[b], s1.data) \o v)
    BY ONLY <2>4, <2>6, Sharing(bf, dt), b \in Buffers, bg = Becoming(bf, b, s1.f), DoesBoth
  <2>8. (p \o NoBytes(k)) \o v = p \o q
    <3>1. NoBytes(k) \in Seq(Int)
      BY NoBytesTyped
    <3>2. (p \o NoBytes(k)) \o v = p \o (NoBytes(k) \o v)
      <4> PICK z \in Seq(Int) : z = NoBytes(k)
        BY ONLY <3>1
      <4>1. p \in Seq(Int) /\ v \in Seq(Int)
        BY ONLY <1>3, <2>1
      <4>2. (p \o z) \o v = p \o (z \o v)
        BY ONLY SMTT(40), <4>1, z \in Seq(Int), ConcatAssociative
      <4> QED
        BY ONLY <4>2, z = NoBytes(k)
    <3> QED
      BY ONLY <2>1, <3>2
  <2> QED
    BY ONLY <2>5, <2>7, <2>8, w = Joined(s, o, slack), p = ReadBytes(f, dt), q = ReadBytes(o, dt), f = bf[b]
<1> QED
  BY <1>4, <1>5

----------------------------------------------------------------------------
(* The actions.                                                            *)

BuffersInv == Sharing(buffer, m_data) /\ content \in [Buffers -> Seq(Int)] /\ ContentKept

\* What a step does to one of the buffers, and to no other.
LEMMA BecomesKeeps ==
  ASSUME BuffersInv, NEW b \in Buffers, NEW s, NEW bs \in Seq(Int), Becomes(b, s, bs),
         Safe(buffer, m_data, b, s.f, s.data), s.f # Gone => ReadBytes(s.f, s.data) = bs
  PROVE  BuffersInv'
<1>1. /\ buffer' = [buffer EXCEPT ![b] = s.f] /\ m_data' = s.data /\ content' = [content EXCEPT ![b] = bs]
  BY Zenon DEF Becomes
<1>2. /\ Sharing(buffer, m_data) /\ content \in [Buffers -> Seq(Int)]
      /\ \A o \in Buffers : buffer[o] # Gone => ReadBytes(buffer[o], m_data) = content[o]
  BY DEF BuffersInv, ContentKept, Live
<1>3. Sharing(buffer', m_data')
  BY <1>1, Zenon DEF Safe
<1>4. buffer \in [Buffers -> Field \cup {Gone}]
  BY <1>2, Zenon DEF Sharing
<1>5. buffer'[b] = s.f /\ content'[b] = bs /\ content' \in [Buffers -> Seq(Int)]
  BY ONLY <1>1, <1>2, <1>4, b \in Buffers, bs \in Seq(Int)
<1>6. \A o \in Buffers : o # b => buffer'[o] = buffer[o] /\ content'[o] = content[o]
  BY ONLY <1>1, <1>2, <1>4
<1>7. \A o \in Buffers \ {b} : buffer[o] # Gone => ReadBytes(buffer[o], m_data') = ReadBytes(buffer[o], m_data)
  <2>1. Unnoticed(buffer, m_data, b, m_data')
    BY <1>1, Zenon DEF Safe
  <2> QED
    BY ONLY <2>1 DEF Unnoticed, IsLive
<1>8. ASSUME NEW o \in Buffers, buffer'[o] # Gone PROVE ReadBytes(buffer'[o], m_data') = content'[o]
  <2>1. CASE o = b
    BY ONLY <1>1, <1>5, <1>8, <2>1, s.f # Gone => ReadBytes(s.f, s.data) = bs
  <2>2. CASE o # b
    BY ONLY SMTT(40), <1>2, <1>6, <1>7, <1>8, <2>2, o \in Buffers
  <2> QED
    BY <2>1, <2>2
<1>9. ContentKept'
  BY ONLY <1>8 DEF ContentKept, Live, ReadBytes, At, GetSize, Zeroes
<1> QED
  BY <1>3, <1>5, <1>9 DEF BuffersInv

LEMMA DoesKeeps ==
  ASSUME BuffersInv, NEW b \in Buffers, NEW s, NEW bs \in Seq(Int), Becomes(b, s, bs), Does(buffer, m_data, b, s, bs)
  PROVE  BuffersInv'
<1>1. Safe(buffer, m_data, b, s.f, s.data) /\ ReadBytes(s.f, s.data) = bs
  BY Zenon DEF Does
<1> QED
  BY <1>1, BecomesKeeps

\* What a live buffer is.
LEMMA LiveIs ==
  ASSUME BuffersInv, NEW b \in Live
  PROVE  /\ b \in Buffers /\ IsLive(buffer, b) /\ buffer[b] \in Field /\ buffer[b].data \in DataIds
         /\ Offsets(buffer[b], m_data[buffer[b].data].bytes)
         /\ content[b] \in Seq(Int) /\ ReadBytes(buffer[b], m_data) = content[b]
         /\ GetSize(buffer[b]) \in Nat /\ Len(content[b]) = GetSize(buffer[b])
<1>1. b \in Buffers /\ IsLive(buffer, b)
  BY DEF Live, IsLive
<1>2. Sharing(buffer, m_data) /\ content \in [Buffers -> Seq(Int)] /\ ReadBytes(buffer[b], m_data) = content[b]
  BY DEF BuffersInv, ContentKept
<1>3. buffer[b] \in Field /\ buffer[b].data \in DataIds /\ Offsets(buffer[b], m_data[buffer[b].data].bytes)
  BY <1>1, <1>2, SharingOf, Zenon
<1>4. GetSize(buffer[b]) \in Nat
  BY ONLY <1>3, OffsetsTyped, Zenon
<1>5. Len(ReadOf(buffer[b], m_data[buffer[b].data].bytes)) = GetSize(buffer[b])
  BY ONLY <1>3, ReadTyped, Zenon
<1>6. ReadBytes(buffer[b], m_data) = ReadOf(buffer[b], m_data[buffer[b].data].bytes)
  BY ReadsBytes
<1>7. content[b] \in Seq(Int)
  BY ONLY <1>1, <1>2
<1> QED
  BY ONLY <1>1, <1>2, <1>3, <1>4, <1>5, <1>6, <1>7

LEMMA MarkTyped ==
  ASSUME NEW b \in Buffers, NEW n \in Nat
  PROVE  Mark(b, n) \in Seq(Int) /\ Len(Mark(b, n)) = n
<1>1. b \in Int
  BY BufferAssumption DEF BufferAssumption
<1> QED
  BY <1>1 DEF Mark

LEMMA SlackIsNat == \A slack \in 0 .. Slack : slack \in Nat
BY BufferAssumption DEF BufferAssumption
LEMMA LengthIsNat == (\A n \in 0 .. MaxLength : n \in Nat) /\ \A n \in 1 .. MaxLength : n \in Nat /\ n > 0
BY BufferAssumption DEF BufferAssumption

LEMMA NewBufferKeeps ==
  ASSUME BuffersInv, NEW b \in Buffers, NEW zeroSize \in 0 .. MaxZeroes, NEW start \in 0 .. Slack, NewBuffer(b, zeroSize, start)
  PROVE  BuffersInv'
<1> PICK d : d = Unused(m_data)
  OBVIOUS
<1>1. zeroSize \in Nat /\ start \in Nat /\ Slack \in Nat /\ start <= 1 + Slack
  BY BufferAssumption DEF BufferAssumption
<1> PICK end \in Nat : end = start + zeroSize
  BY <1>1
<1> PICK z : z = [i \in 1 .. 1 + Slack |-> Junk]
  OBVIOUS
<1> PICK f : f = [data |-> d, start |-> start, zeroStart |-> start, zeroEnd |-> end, end |-> end]
  OBVIOUS
<1> PICK x : x = [m_count |-> 1, m_dirtyStart |-> start, m_dirtyEnd |-> end, bytes |-> z]
  OBVIOUS
<1> PICK s : s = [f |-> f, data |-> [m_data EXCEPT ![d] = x]]
  OBVIOUS
<1> PICK bs : bs = NoBytes(zeroSize)
  OBVIOUS
<1>2. b \notin Live /\ Becomes(b, s, bs)
  BY ONLY NewBuffer(b, zeroSize, start), d = Unused(m_data), end = start + zeroSize, z = [i \in 1 .. 1 + Slack |-> Junk],
          f = [data |-> d, start |-> start, zeroStart |-> start, zeroEnd |-> end, end |-> end],
          x = [m_count |-> 1, m_dirtyStart |-> start, m_dirtyEnd |-> end, bytes |-> z],
          s = [f |-> f, data |-> [m_data EXCEPT ![d] = x]], bs = NoBytes(zeroSize), Zenon DEF NewBuffer, NoBytes
<1>3. Sharing(buffer, m_data)
  BY DEF BuffersInv
<1>4. d \in DataIds /\ m_data[d].m_count = 0
  BY ONLY <1>3, d = Unused(m_data), OneUnused
<1>5. ~IsLive(buffer, b)
  BY ONLY <1>2, b \in Buffers DEF Live, IsLive
<1>6. z \in Seq(Int) /\ Len(z) = 1 + Slack
  <2>1. Junk \in Int
    BY DEF Junk
  <2> QED
    BY ONLY <1>1, <2>1, z = [i \in 1 .. 1 + Slack |-> Junk]
<1>7. f \in Field /\ f.data = d /\ f.start = start /\ f.zeroStart = start /\ f.zeroEnd = end /\ f.end = end
  BY ONLY <1>1, <1>4, end \in Nat, f = [data |-> d, start |-> start, zeroStart |-> start, zeroEnd |-> end, end |-> end]
     DEF Field
<1>8. x \in Datum /\ x.m_count = 1 /\ x.m_dirtyStart = start /\ x.m_dirtyEnd = end /\ x.bytes = z
  BY ONLY <1>1, <1>6, end \in Nat, x = [m_count |-> 1, m_dirtyStart |-> start, m_dirtyEnd |-> end, bytes |-> z] DEF Datum
<1>9. Zeroes(f) = zeroSize /\ GetSize(f) = zeroSize /\ BytesEnd(f) = start
  BY ONLY <1>1, <1>7, end = start + zeroSize, end \in Nat DEF Zeroes, GetSize, BytesEnd
<1>10. start <= start /\ start <= end /\ end <= end /\ start <= Len(z)
  BY ONLY <1>1, <1>6, end = start + zeroSize
<1>11. Offsets(f, z) /\ InPlace(f, x) /\ f.end <= x.m_dirtyEnd
  BY ONLY <1>1, <1>6, <1>7, <1>8, <1>9, <1>10, end \in Nat DEF Offsets, InPlace
<1>12. s.f = f /\ s.data = [m_data EXCEPT ![f.data] = x]
  BY ONLY <1>7, s = [f |-> f, data |-> [m_data EXCEPT ![d] = x]]
<1>13. Safe(buffer, m_data, b, f, [m_data EXCEPT ![f.data] = x])
  <2>1. m_data[f.data].m_count = 0
    BY ONLY <1>4, <1>7
  <2> QED
    BY ONLY <1>3, <1>5, <1>7, <1>8, <1>11, <2>1, b \in Buffers, FreshSafe
<1>14. ReadOf(f, z) = bs
  <2> PICK q : q = ReadOf(f, z)
    OBVIOUS
  <2>1. q \in Seq(Int) /\ Len(q) = zeroSize /\ \A i \in 1 .. zeroSize : q[i] = ByteOf(f, z, start + i - 1)
    <3>1. /\ ReadOf(f, z) \in Seq(Int) /\ Len(ReadOf(f, z)) = GetSize(f)
          /\ \A i \in 1 .. GetSize(f) : ReadOf(f, z)[i] = ByteOf(f, z, f.start + i - 1)
      BY ONLY <1>11, ReadTyped, Zenon
    <3> QED
      BY ONLY <1>7, <1>9, <3>1, q = ReadOf(f, z)
  <2>2. bs \in Seq(Int) /\ Len(bs) = zeroSize /\ \A i \in 1 .. zeroSize : bs[i] = 0
    BY ONLY <1>1, bs = NoBytes(zeroSize), NoBytesTyped
  <2>3. ASSUME NEW i \in 1 .. zeroSize PROVE q[i] = bs[i]
    <3> PICK v : v = start + i - 1
      OBVIOUS
    <3>1. ~(v < start) /\ v < end
      BY ONLY <1>1, v = start + i - 1, i \in 1 .. zeroSize, end = start + zeroSize
    <3>2. ByteOf(f, z, v) = IF v < start THEN z[v + 1] ELSE IF v < end THEN 0 ELSE z[v - Zeroes(f) + 1]
      BY ONLY <1>7, Zenon DEF ByteOf
    <3>3. ByteOf(f, z, v) = 0
      BY ONLY <3>1, <3>2, Zenon
    <3> QED
      BY ONLY <2>1, <2>2, <3>3, i \in 1 .. zeroSize, v = start + i - 1
  <2> QED
    BY ONLY <2>1, <2>2, <2>3, q = ReadOf(f, z), SeqEqual
<1>15. s.data[f.data].bytes = z
  <2>1. m_data \in [DataIds -> Datum]
    BY <1>3, Zenon DEF Sharing
  <2> QED
    BY ONLY <1>4, <1>7, <1>8, <1>12, <2>1
<1>16. ReadBytes(s.f, s.data) = bs /\ bs \in Seq(Int)
  <2>1. ReadBytes(f, s.data) = ReadOf(f, s.data[f.data].bytes)
    BY ReadsBytes
  <2>2. bs \in Seq(Int)
    BY ONLY <1>1, bs = NoBytes(zeroSize), NoBytesTyped
  <2> QED
    BY ONLY <1>12, <1>14, <1>15, <2>1, <2>2
<1>17. Safe(buffer, m_data, b, s.f, s.data)
  BY ONLY <1>12, <1>13
<1> QED
  BY ONLY <1>2, <1>16, <1>17, BuffersInv, b \in Buffers, BecomesKeeps

LEMMA AddHeaderKeeps ==
  ASSUME BuffersInv, NEW b \in Buffers, NEW n \in 1 .. MaxLength, NEW slack \in 0 .. Slack, AddHeader(b, n, slack)
  PROVE  BuffersInv'
<1> PICK s : s = AddAtStart(State(b), n, slack)
  OBVIOUS
<1> PICK w : w = Write(s, s.f.start, Mark(b, n))
  OBVIOUS
<1> PICK bs : bs = Mark(b, n)
  OBVIOUS
<1>1. b \in Live /\ Becomes(b, w, bs \o content[b])
  BY ONLY AddHeader(b, n, slack), s = AddAtStart(State(b), n, slack), w = Write(s, s.f.start, Mark(b, n)), bs = Mark(b, n),
          Zenon DEF AddHeader
<1>2. n \in Nat /\ n > 0 /\ slack \in Nat
  BY SlackIsNat, LengthIsNat
<1>3. bs \in Seq(Int) /\ Len(bs) = n
  BY ONLY <1>2, b \in Buffers, bs = Mark(b, n), MarkTyped
<1>4. IsLive(buffer, b) /\ content[b] \in Seq(Int) /\ ReadBytes(buffer[b], m_data) = content[b] /\ Sharing(buffer, m_data)
  BY <1>1, LiveIs DEF BuffersInv
<1>5. Does(buffer, m_data, b, w, bs \o content[b])
  <2> PICK bf, dt : bf = buffer /\ dt = m_data
    OBVIOUS
  <2> PICK s0 : s0 = [f |-> bf[b], data |-> dt]
    OBVIOUS
  <2>1. s = AddAtStart(s0, n, slack)
    BY ONLY s = AddAtStart(State(b), n, slack), s0 = [f |-> bf[b], data |-> dt], bf = buffer /\ dt = m_data DEF State
  <2>2. Sharing(bf, dt) /\ IsLive(bf, b)
    BY ONLY <1>4, bf = buffer /\ dt = m_data
  <2>3. Does(bf, dt, b, Write(s, s.f.start, bs), bs \o ReadBytes(bf[b], dt))
    BY ONLY <1>2, <1>3, <2>1, <2>2, b \in Buffers, s0 = [f |-> bf[b], data |-> dt], PrependSafe
  <2> QED
    BY ONLY <1>4, <2>3, w = Write(s, s.f.start, Mark(b, n)), bs = Mark(b, n), bf = buffer /\ dt = m_data
<1>6. bs \o content[b] \in Seq(Int)
  BY ONLY <1>3, <1>4
<1> QED
  BY ONLY <1>1, <1>5, <1>6, BuffersInv, b \in Buffers, DoesKeeps

LEMMA AddTrailerKeeps ==
  ASSUME BuffersInv, NEW b \in Buffers, NEW n \in 1 .. MaxLength, NEW slack \in 0 .. Slack, AddTrailer(b, n, slack)
  PROVE  BuffersInv'
<1> PICK s : s = AddAtEnd(State(b), n, slack)
  OBVIOUS
<1> PICK w : w = Write(s, s.f.end - n, Mark(b, n))
  OBVIOUS
<1> PICK bs : bs = Mark(b, n)
  OBVIOUS
<1>1. b \in Live /\ Becomes(b, w, content[b] \o bs)
  BY ONLY AddTrailer(b, n, slack), s = AddAtEnd(State(b), n, slack), w = Write(s, s.f.end - n, Mark(b, n)), bs = Mark(b, n),
          Zenon DEF AddTrailer
<1>2. n \in Nat /\ slack \in Nat
  BY SlackIsNat, LengthIsNat
<1>3. bs \in Seq(Int) /\ Len(bs) = n
  BY ONLY <1>2, b \in Buffers, bs = Mark(b, n), MarkTyped
<1>4. IsLive(buffer, b) /\ content[b] \in Seq(Int) /\ ReadBytes(buffer[b], m_data) = content[b] /\ Sharing(buffer, m_data)
  BY <1>1, LiveIs DEF BuffersInv
<1>5. Does(buffer, m_data, b, w, content[b] \o bs)
  <2> PICK bf, dt : bf = buffer /\ dt = m_data
    OBVIOUS
  <2> PICK s0 : s0 = [f |-> bf[b], data |-> dt]
    OBVIOUS
  <2>1. s = AddAtEnd(s0, n, slack)
    BY ONLY s = AddAtEnd(State(b), n, slack), s0 = [f |-> bf[b], data |-> dt], bf = buffer /\ dt = m_data DEF State
  <2>2. Sharing(bf, dt) /\ IsLive(bf, b)
    BY ONLY <1>4, bf = buffer /\ dt = m_data
  <2>3. Does(bf, dt, b, Write(s, s.f.end - n, bs), ReadBytes(bf[b], dt) \o bs)
    BY ONLY <1>2, <1>3, <2>1, <2>2, b \in Buffers, s0 = [f |-> bf[b], data |-> dt], AppendSafe
  <2> QED
    BY ONLY <1>4, <2>3, w = Write(s, s.f.end - n, Mark(b, n)), bs = Mark(b, n), bf = buffer /\ dt = m_data
<1>6. content[b] \o bs \in Seq(Int)
  BY ONLY <1>3, <1>4
<1> QED
  BY ONLY <1>1, <1>5, <1>6, BuffersInv, b \in Buffers, DoesKeeps

LEMMA AddBufferKeeps ==
  ASSUME BuffersInv, NEW b \in Buffers, NEW o \in Buffers, NEW slack \in 0 .. Slack, AddBuffer(b, o, slack)
  PROVE  BuffersInv'
<1> PICK w : w = Joined(State(b), buffer[o], slack)
  OBVIOUS
<1>1. b \in Live /\ o \in Live /\ o # b /\ Becomes(b, w, content[b] \o content[o])
  BY ONLY AddBuffer(b, o, slack), w = Joined(State(b), buffer[o], slack), Zenon DEF AddBuffer
<1>2. slack \in Nat
  BY SlackIsNat
<1>3. IsLive(buffer, b) /\ content[b] \in Seq(Int) /\ ReadBytes(buffer[b], m_data) = content[b] /\ Sharing(buffer, m_data)
  BY <1>1, LiveIs DEF BuffersInv
<1>4. IsLive(buffer, o) /\ content[o] \in Seq(Int) /\ ReadBytes(buffer[o], m_data) = content[o]
  BY <1>1, LiveIs
<1>5. Does(buffer, m_data, b, w, content[b] \o content[o])
  <2> PICK bf, dt : bf = buffer /\ dt = m_data
    OBVIOUS
  <2> PICK s0 : s0 = [f |-> bf[b], data |-> dt]
    OBVIOUS
  <2>1. w = Joined(s0, bf[o], slack)
    BY ONLY w = Joined(State(b), buffer[o], slack), s0 = [f |-> bf[b], data |-> dt], bf = buffer /\ dt = m_data DEF State
  <2>2. Sharing(bf, dt) /\ IsLive(bf, b) /\ IsLive(bf, o)
    BY ONLY <1>3, <1>4, bf = buffer /\ dt = m_data
  <2>3. Does(bf, dt, b, Joined(s0, bf[o], slack), ReadBytes(bf[b], dt) \o ReadBytes(bf[o], dt))
    BY ONLY <1>1, <1>2, <2>2, b \in Buffers, o \in Buffers, s0 = [f |-> bf[b], data |-> dt], JoinedSafe
  <2> QED
    BY ONLY <1>3, <1>4, <2>1, <2>3, bf = buffer /\ dt = m_data
<1>6. content[b] \o content[o] \in Seq(Int)
  BY ONLY <1>3, <1>4
<1> QED
  BY ONLY <1>1, <1>5, <1>6, BuffersInv, b \in Buffers, DoesKeeps

LEMMA TransformKeeps ==
  ASSUME BuffersInv, NEW b \in Buffers, NEW slack \in 0 .. Slack, TransformIntoRealBuffer(b, slack)
  PROVE  BuffersInv'
<1> PICK w : w = FullCopy(State(b), slack)
  OBVIOUS
<1>1. b \in Live /\ Becomes(b, w, content[b])
  BY ONLY TransformIntoRealBuffer(b, slack), w = FullCopy(State(b), slack), Zenon DEF TransformIntoRealBuffer
<1>2. slack \in Nat
  BY SlackIsNat
<1>3. IsLive(buffer, b) /\ content[b] \in Seq(Int) /\ ReadBytes(buffer[b], m_data) = content[b] /\ Sharing(buffer, m_data)
  BY <1>1, LiveIs DEF BuffersInv
<1>4. Does(buffer, m_data, b, w, content[b])
  <2> PICK bf, dt : bf = buffer /\ dt = m_data
    OBVIOUS
  <2> PICK s0 : s0 = [f |-> bf[b], data |-> dt]
    OBVIOUS
  <2>1. w = FullCopy(s0, slack)
    BY ONLY w = FullCopy(State(b), slack), s0 = [f |-> bf[b], data |-> dt], bf = buffer /\ dt = m_data DEF State
  <2>2. Sharing(bf, dt) /\ IsLive(bf, b)
    BY ONLY <1>3, bf = buffer /\ dt = m_data
  <2>3. Does(bf, dt, b, FullCopy(s0, slack), ReadBytes(bf[b], dt))
    BY ONLY <1>2, <2>2, b \in Buffers, s0 = [f |-> bf[b], data |-> dt], RealSafe
  <2> QED
    BY ONLY <1>3, <2>1, <2>3, bf = buffer /\ dt = m_data
<1> QED
  BY ONLY <1>1, <1>3, <1>4, BuffersInv, b \in Buffers, DoesKeeps

\* A buffer that is cut: it stays within what it was.
LEMMA CutDoes ==
  ASSUME NEW bf, NEW dt, Sharing(bf, dt), NEW b \in Buffers, IsLive(bf, b), NEW f, f = bf[b], NEW g, NEW n \in Nat, NEW k \in Nat,
         Cut(f, dt[f.data].bytes, g, n, k), n + k <= GetSize(f),
         NEW s, s = [f |-> g, data |-> dt]
  PROVE  Does(bf, dt, b, s, SubSeq(ReadBytes(f, dt), n + 1, n + k))
<1> PICK y : y = dt[f.data].bytes
  OBVIOUS
<1>1. f \in Field /\ Offsets(f, y)
  BY SharingOf, Zenon
<1>2. g \in Field /\ g.data = f.data /\ Offsets(g, y) /\ Within(g, f)
  BY Zenon DEF Cut
<1>3. Safe(bf, dt, b, g, dt)
  <2>1. g.data = bf[b].data /\ Within(g, bf[b]) /\ Offsets(g, dt[g.data].bytes) /\ bf[b].data = bf[b].data
    BY ONLY <1>2, f = bf[b], y = dt[f.data].bytes
  <2> QED
    BY ONLY <1>2, <2>1, Sharing(bf, dt), b \in Buffers, IsLive(bf, b), WithinSafe, Zenon
<1>4. ReadOf(g, y) = SubSeq(ReadOf(f, y), n + 1, n + k)
  <2>1. Offsets(f, y) /\ Cut(f, y, g, n, k)
    BY ONLY <1>1, Cut(f, dt[f.data].bytes, g, n, k), y = dt[f.data].bytes
  <2> QED
    <3>1. ReadsPart(f, y, g, n, k)
      BY ONLY <2>1, n \in Nat, k \in Nat, n + k <= GetSize(f), CutReads, Zenon
    <3> QED
      BY ONLY <3>1, Zenon DEF ReadsPart
<1>5. ReadBytes(g, dt) = ReadOf(g, dt[g.data].bytes) /\ ReadBytes(f, dt) = ReadOf(f, dt[f.data].bytes)
  BY ReadsBytes
<1>6. ReadBytes(g, dt) = SubSeq(ReadBytes(f, dt), n + 1, n + k)
  BY ONLY <1>2, <1>4, <1>5, y = dt[f.data].bytes
<1>7. s.f = g /\ s.data = dt
  BY ONLY s = [f |-> g, data |-> dt]
<1> QED
  BY ONLY <1>2, <1>3, <1>6, <1>7 DEF Does

\* A part of what a buffer holds.
LEMMA PartTyped ==
  ASSUME NEW c \in Seq(Int), NEW n \in Nat, NEW k \in Nat, n + k <= Len(c)
  PROVE  SubSeq(c, n + 1, n + k) \in Seq(Int)
<1> PICK m \in Nat : m = Len(c)
  OBVIOUS
<1>1. \A i \in 1 .. m : c[i] \in Int
  OBVIOUS
<1>2. \A i \in n + 1 .. n + k : c[i] \in Int
  BY ONLY <1>1, n + k <= Len(c), m = Len(c), n \in Nat, k \in Nat, m \in Nat
<1>3. n + 1 \in Int /\ n + k \in Int
  OBVIOUS
<1> QED
  BY ONLY <1>2, <1>3, SubSeqProperties

LEMMA RemoveAtStartKeeps ==
  ASSUME BuffersInv, NEW b \in Buffers, NEW n \in 1 .. MaxLength, RemoveAtStart(b, n)
  PROVE  BuffersInv'
<1> PICK f : f = buffer[b]
  OBVIOUS
<1> PICK g : g = RemovedAtStart(f, n)
  OBVIOUS
<1> PICK c : c = content[b]
  OBVIOUS
<1> PICK w : w = [f |-> g, data |-> m_data]
  OBVIOUS
<1>1. b \in Live /\ n <= GetSize(f) /\ Becomes(b, w, SubSeq(c, n + 1, Len(c)))
  BY ONLY RemoveAtStart(b, n), f = buffer[b], g = RemovedAtStart(f, n), c = content[b], w = [f |-> g, data |-> m_data],
          Zenon DEF RemoveAtStart
<1>2. n \in Nat
  BY LengthIsNat
<1>3. /\ IsLive(buffer, b) /\ f \in Field /\ Offsets(f, m_data[f.data].bytes) /\ c \in Seq(Int) /\ ReadBytes(f, m_data) = c
      /\ Sharing(buffer, m_data) /\ GetSize(f) \in Nat /\ Len(c) = GetSize(f)
  BY <1>1, LiveIs DEF BuffersInv
<1>4. GetSize(f) - n \in Nat /\ n + (GetSize(f) - n) = GetSize(f) /\ n \in 0 .. GetSize(f)
  BY ONLY <1>1, <1>2, <1>3
<1> PICK k \in Nat : k = GetSize(f) - n
  BY ONLY <1>4
<1>5. Cut(f, m_data[f.data].bytes, g, n, k)
  BY ONLY <1>3, <1>4, g = RemovedAtStart(f, n), k = GetSize(f) - n, CutAtStart
<1>6. n + k <= GetSize(f) /\ n + k = Len(c) /\ n + k <= Len(c)
  BY ONLY <1>3, <1>4, k = GetSize(f) - n
<1>7. Does(buffer, m_data, b, w, SubSeq(c, n + 1, n + k))
  <2>1. Does(buffer, m_data, b, w, SubSeq(ReadBytes(f, m_data), n + 1, n + k))
    BY ONLY <1>2, <1>3, <1>5, <1>6, b \in Buffers, k \in Nat, f = buffer[b], w = [f |-> g, data |-> m_data], CutDoes
  <2> QED
    BY ONLY <1>3, <2>1
<1>8. SubSeq(c, n + 1, n + k) \in Seq(Int)
  BY ONLY <1>2, <1>3, <1>6, k \in Nat, PartTyped
<1> PICK bs \in Seq(Int) : bs = SubSeq(c, n + 1, n + k)
  BY ONLY <1>8
<1>9. Becomes(b, w, bs) /\ Does(buffer, m_data, b, w, bs)
  BY ONLY <1>1, <1>6, <1>7, bs = SubSeq(c, n + 1, n + k)
<1> QED
  BY ONLY <1>9, bs \in Seq(Int), BuffersInv, b \in Buffers, DoesKeeps

LEMMA RemoveAtEndKeeps ==
  ASSUME BuffersInv, NEW b \in Buffers, NEW n \in 1 .. MaxLength, RemoveAtEnd(b, n)
  PROVE  BuffersInv'
<1> PICK f : f = buffer[b]
  OBVIOUS
<1> PICK g : g = RemovedAtEnd(f, n)
  OBVIOUS
<1> PICK c : c = content[b]
  OBVIOUS
<1> PICK w : w = [f |-> g, data |-> m_data]
  OBVIOUS
<1> PICK j \in Nat : j = 0
  OBVIOUS
<1>1. b \in Live /\ n <= GetSize(f) /\ Becomes(b, w, SubSeq(c, 1, Len(c) - n))
  BY ONLY RemoveAtEnd(b, n), f = buffer[b], g = RemovedAtEnd(f, n), c = content[b], w = [f |-> g, data |-> m_data],
          Zenon DEF RemoveAtEnd
<1>2. n \in Nat
  BY LengthIsNat
<1>3. /\ IsLive(buffer, b) /\ f \in Field /\ Offsets(f, m_data[f.data].bytes) /\ c \in Seq(Int) /\ ReadBytes(f, m_data) = c
      /\ Sharing(buffer, m_data) /\ GetSize(f) \in Nat /\ Len(c) = GetSize(f)
  BY <1>1, LiveIs DEF BuffersInv
<1>4. GetSize(f) - n \in Nat /\ n \in 0 .. GetSize(f)
  BY ONLY <1>1, <1>2, <1>3
<1> PICK k \in Nat : k = GetSize(f) - n
  BY ONLY <1>4
<1>5. Cut(f, m_data[f.data].bytes, g, j, k)
  <2>1. Cut(f, m_data[f.data].bytes, g, 0, GetSize(f) - n)
    BY ONLY <1>3, <1>4, g = RemovedAtEnd(f, n), CutAtEnd
  <2> QED
    BY ONLY <2>1, j = 0, k = GetSize(f) - n
<1>6. j + k <= GetSize(f) /\ j + 1 = 1 /\ j + k = Len(c) - n /\ j + k <= Len(c)
  BY ONLY <1>2, <1>3, <1>4, j = 0, k = GetSize(f) - n
<1>7. Does(buffer, m_data, b, w, SubSeq(c, j + 1, j + k))
  <2>1. Does(buffer, m_data, b, w, SubSeq(ReadBytes(f, m_data), j + 1, j + k))
    BY ONLY <1>3, <1>5, <1>6, b \in Buffers, j \in Nat, k \in Nat, f = buffer[b], w = [f |-> g, data |-> m_data], CutDoes
  <2> QED
    BY ONLY <1>3, <2>1
<1>8. SubSeq(c, j + 1, j + k) \in Seq(Int)
  BY ONLY <1>3, <1>6, j \in Nat, k \in Nat, PartTyped
<1> PICK bs \in Seq(Int) : bs = SubSeq(c, j + 1, j + k)
  BY ONLY <1>8
<1>9. Becomes(b, w, bs) /\ Does(buffer, m_data, b, w, bs)
  BY ONLY <1>1, <1>6, <1>7, bs = SubSeq(c, j + 1, j + k)
<1> QED
  BY ONLY <1>9, bs \in Seq(Int), BuffersInv, b \in Buffers, DoesKeeps

\* A cut of a cut.
LEMMA CutTwice ==
  ASSUME NEW f \in Field, NEW y, NEW g, NEW n \in Nat, NEW m \in Nat, Cut(f, y, g, n, m), NEW h, NEW k \in Nat, k <= m,
         Cut(g, y, h, 0, k)
  PROVE  Cut(f, y, h, n, k)
<1>1. /\ g \in Field /\ g.data = f.data /\ Within(g, f)
      /\ \A i \in 1 .. m : ByteOf(g, y, g.start + i - 1) = ByteOf(f, y, f.start + (n + i) - 1)
  BY Zenon DEF Cut
<1>2. /\ h \in Field /\ h.data = g.data /\ Within(h, g) /\ Offsets(h, y) /\ GetSize(h) = k
      /\ \A i \in 1 .. k : ByteOf(h, y, h.start + i - 1) = ByteOf(g, y, g.start + (0 + i) - 1)
  BY DEF Cut
<1>3. Within(h, f)
  <2>1. /\ f.start \in Int /\ g.start \in Int /\ h.start \in Int
        /\ Zeroes(f) \in Int /\ Zeroes(g) \in Int /\ Zeroes(h) \in Int
        /\ BytesEnd(f) \in Int /\ BytesEnd(g) \in Int /\ BytesEnd(h) \in Int
    BY <1>1, <1>2 DEF Field, Zeroes, BytesEnd
  <2> QED
    BY ONLY <1>1, <1>2, <2>1 DEF Within
<1>4. ASSUME NEW i \in 1 .. k PROVE ByteOf(h, y, h.start + i - 1) = ByteOf(f, y, f.start + (n + i) - 1)
  <2>1. 0 + i = i /\ i \in 1 .. m
    BY ONLY i \in 1 .. k, k <= m, k \in Nat, m \in Nat
  <2> QED
    BY ONLY <1>1, <1>2, <2>1, i \in 1 .. k
<1> QED
  BY ONLY <1>1, <1>2, <1>3, <1>4 DEF Cut

LEMMA CreateFragmentKeeps ==
  ASSUME BuffersInv, NEW b \in Buffers, NEW c \in Buffers, NEW first \in 0 .. MaxLength, NEW length \in 0 .. MaxLength,
         CreateFragment(b, c, first, length)
  PROVE  BuffersInv'
<1> PICK f : f = buffer[b]
  OBVIOUS
<1> PICK n : n = GetSize(f)
  OBVIOUS
<1> PICK g : g = RemovedAtStart(f, first)
  OBVIOUS
<1> PICK h : h = RemovedAtEnd(g, n - (first + length))
  OBVIOUS
<1> PICK p : p = content[b]
  OBVIOUS
<1> PICK w : w = [f |-> h, data |-> [m_data EXCEPT ![h.data].m_count = @ + 1]]
  OBVIOUS
<1>1. b \in Live /\ c \notin Live /\ first + length <= n /\ Becomes(c, w, SubSeq(p, first + 1, first + length))
  BY ONLY CreateFragment(b, c, first, length), f = buffer[b], n = GetSize(f), g = RemovedAtStart(f, first),
          h = RemovedAtEnd(g, n - (first + length)), p = content[b],
          w = [f |-> h, data |-> [m_data EXCEPT ![h.data].m_count = @ + 1]], Zenon DEF CreateFragment
<1>2. first \in Nat /\ length \in Nat
  BY LengthIsNat
<1>3. /\ IsLive(buffer, b) /\ f \in Field /\ Offsets(f, m_data[f.data].bytes) /\ p \in Seq(Int) /\ ReadBytes(f, m_data) = p
      /\ Sharing(buffer, m_data) /\ n \in Nat /\ Len(p) = n /\ f.data \in DataIds
  BY <1>1, LiveIs DEF BuffersInv
<1>4. ~IsLive(buffer, c)
  BY ONLY <1>1, c \in Buffers DEF Live, IsLive
<1> PICK y : y = m_data[f.data].bytes
  OBVIOUS
<1> PICK k \in Nat : k = n - first
  BY ONLY <1>1, <1>2, <1>3
<1>5. Cut(f, y, g, first, k)
  <2>1. first \in 0 .. GetSize(f) /\ Offsets(f, y)
    BY ONLY <1>1, <1>2, <1>3, n = GetSize(f), y = m_data[f.data].bytes
  <2>2. Cut(f, y, RemovedAtStart(f, first), first, GetSize(f) - first)
    BY ONLY <1>3, <2>1, CutAtStart
  <2> QED
    BY ONLY <2>2, g = RemovedAtStart(f, first), k = n - first, n = GetSize(f)
<1>6. g \in Field /\ g.data = f.data /\ GetSize(g) = k /\ Offsets(g, y)
  BY ONLY <1>5 DEF Cut
<1> PICK m : m = n - (first + length)
  OBVIOUS
<1>7. m \in 0 .. GetSize(g) /\ k - m = length /\ length <= k
  BY ONLY <1>1, <1>2, <1>3, <1>6, m = n - (first + length), k = n - first
<1>8. Cut(g, y, h, 0, length)
  <2>1. Cut(g, y, RemovedAtEnd(g, m), 0, GetSize(g) - m)
    BY ONLY <1>6, <1>7, CutAtEnd
  <2> QED
    BY ONLY <1>6, <1>7, <2>1, h = RemovedAtEnd(g, n - (first + length)), m = n - (first + length)
<1>9. Cut(f, y, h, first, length)
  BY ONLY <1>2, <1>3, <1>5, <1>7, <1>8, k \in Nat, CutTwice
<1>10. h \in Field /\ h.data = f.data /\ Offsets(h, y) /\ Within(h, f)
  BY ONLY <1>9 DEF Cut
<1> PICK dt2 : dt2 = [m_data EXCEPT ![h.data].m_count = @ + 1]
  OBVIOUS
<1>11. Safe(buffer, m_data, c, h, dt2)
  <2>1. h.data = buffer[b].data /\ Within(h, buffer[b]) /\ Offsets(h, m_data[h.data].bytes)
    BY ONLY <1>10, f = buffer[b], y = m_data[f.data].bytes
  <2>2. Safe(buffer, m_data, c, h, [m_data EXCEPT ![h.data].m_count = @ + 1])
    BY ONLY <1>3, <1>4, <1>10, <2>1, b \in Buffers, c \in Buffers, ShareSafe, Zenon
  <2> QED
    BY ONLY <2>2, dt2 = [m_data EXCEPT ![h.data].m_count = @ + 1], Zenon
<1>12. ReadOf(h, y) = SubSeq(p, first + 1, first + length)
  <2>1. Offsets(f, y) /\ first + length <= GetSize(f)
    BY ONLY <1>1, <1>3, n = GetSize(f), y = m_data[f.data].bytes
  <2>2. ReadOf(h, y) = SubSeq(ReadOf(f, y), first + 1, first + length)
    <3>1. ReadsPart(f, y, h, first, length)
      BY ONLY <1>2, <1>9, <2>1, CutReads, Zenon
    <3> QED
      BY ONLY <3>1, Zenon DEF ReadsPart
  <2>3. ReadBytes(f, m_data) = ReadOf(f, m_data[f.data].bytes)
    BY ReadsBytes
  <2> QED
    BY ONLY <1>3, <2>2, <2>3, y = m_data[f.data].bytes
<1>13. dt2[h.data].bytes = y
  <2>1. m_data \in [DataIds -> Datum]
    BY ONLY <1>3, Zenon DEF Sharing
  <2>2. m_data[f.data] \in Datum
    BY ONLY <1>3, <2>1
  <2> QED
    BY ONLY <1>3, <1>10, <2>1, <2>2, y = m_data[f.data].bytes, dt2 = [m_data EXCEPT ![h.data].m_count = @ + 1] DEF Datum
<1> PICK bs : bs = SubSeq(p, first + 1, first + length)
  OBVIOUS
<1>14. bs \in Seq(Int)
  <2>1. first + length <= Len(p)
    BY ONLY <1>1, <1>3
  <2> QED
    BY ONLY <1>2, <1>3, <2>1, bs = SubSeq(p, first + 1, first + length), PartTyped
<1>15. w.f = h /\ w.data = dt2
  BY ONLY w = [f |-> h, data |-> [m_data EXCEPT ![h.data].m_count = @ + 1]], dt2 = [m_data EXCEPT ![h.data].m_count = @ + 1]
<1>16. ReadBytes(h, dt2) = bs
  <2>1. ReadBytes(h, dt2) = ReadOf(h, dt2[h.data].bytes)
    BY ReadsBytes
  <2> QED
    BY ONLY <1>12, <1>13, <2>1, bs = SubSeq(p, first + 1, first + length)
<1>17. Does(buffer, m_data, c, w, bs)
  BY ONLY <1>10, <1>11, <1>15, <1>16 DEF Does
<1>18. Becomes(c, w, bs)
  BY ONLY <1>1, bs = SubSeq(p, first + 1, first + length), Zenon
<1> QED
  BY ONLY <1>14, <1>17, <1>18, BuffersInv, c \in Buffers, DoesKeeps

\* A buffer that takes what another is: it leaves its own Data, and shares.
LEMMA AssignedDoes ==
  ASSUME NEW bf, NEW dt, Sharing(bf, dt), NEW b \in Buffers, IsLive(bf, b), NEW c \in Buffers, IsLive(bf, c), b # c,
         NEW f, f = bf[b], NEW s,
         s = [f |-> f, data |-> IF bf[c].data = f.data THEN dt ELSE [Unref(dt, bf[c].data) EXCEPT ![f.data].m_count = @ + 1]]
  PROVE  Does(bf, dt, c, s, ReadBytes(f, dt))
<1>1. f \in Field /\ f.data \in DataIds /\ Offsets(f, dt[f.data].bytes) /\ f # Gone
  BY SharingOf, Zenon DEF IsLive
<1>2. Within(f, f)
  <2>1. f.start \in Int /\ Zeroes(f) \in Int /\ BytesEnd(f) \in Int
    BY ONLY <1>1 DEF Field, Zeroes, BytesEnd
  <2> QED
    BY ONLY <2>1 DEF Within
<1>3. CASE bf[c].data = f.data
  <2>1. s.f = f /\ s.data = dt
    BY ONLY <1>3, s = [f |-> f, data |-> IF bf[c].data = f.data THEN dt
                                          ELSE [Unref(dt, bf[c].data) EXCEPT ![f.data].m_count = @ + 1]]
  <2>2. bf[c].data = bf[b].data /\ f.data = bf[b].data /\ Within(f, bf[b])
    BY ONLY <1>2, <1>3, f = bf[b]
  <2>3. Safe(bf, dt, c, f, dt)
    BY ONLY <1>1, <2>2, Sharing(bf, dt), b \in Buffers, IsLive(bf, b), c \in Buffers, IsLive(bf, c), WithinSafe, Zenon
  <2> QED
    BY ONLY <1>1, <2>1, <2>3 DEF Does
<1>4. CASE bf[c].data # f.data
  <2> PICK dt1 : dt1 = Unref(dt, bf[c].data)
    OBVIOUS
  <2> PICK dt2 : dt2 = [dt1 EXCEPT ![f.data].m_count = @ + 1]
    OBVIOUS
  <2> PICK bg : bg = [bf EXCEPT ![c] = Gone]
    OBVIOUS
  <2>1. s.f = f /\ s.data = dt2
    BY ONLY <1>4, dt1 = Unref(dt, bf[c].data), dt2 = [dt1 EXCEPT ![f.data].m_count = @ + 1],
            s = [f |-> f, data |-> IF bf[c].data = f.data THEN dt
                                   ELSE [Unref(dt, bf[c].data) EXCEPT ![f.data].m_count = @ + 1]]
  <2>2. Safe(bf, dt, c, Gone, dt1)
    BY ONLY Sharing(bf, dt), c \in Buffers, IsLive(bf, c), dt1 = Unref(dt, bf[c].data), ReleaseSafe
  <2>3. Sharing(bg, dt1) /\ Unnoticed(bf, dt, c, dt1)
    BY ONLY <2>2, bg = [bf EXCEPT ![c] = Gone] DEF Safe
  <2>4. bf \in [Buffers -> Field \cup {Gone}]
    BY Zenon DEF Sharing
  <2>5. bg[c] = Gone /\ bg[b] = f
    BY ONLY <2>4, b \in Buffers, c \in Buffers, b # c, f = bf[b], bg = [bf EXCEPT ![c] = Gone]
  <2>6. ~IsLive(bg, c) /\ IsLive(bg, b)
    BY ONLY <1>1, <2>5 DEF IsLive
  <2>7. Offsets(bg[b], dt1[bg[b].data].bytes)
    BY ONLY <2>3, <2>6, b \in Buffers, SharingOf, Zenon
  <2>8. f.data = bg[b].data /\ Within(f, bg[b]) /\ Offsets(f, dt1[f.data].bytes)
    BY ONLY <1>2, <2>5, <2>7
  <2>9. Safe(bg, dt1, c, f, [dt1 EXCEPT ![f.data].m_count = @ + 1])
    BY ONLY <1>1, <2>3, <2>6, <2>8, b \in Buffers, c \in Buffers, ShareSafe, Zenon
  <2>10. Safe(bg, dt1, c, f, dt2)
    BY ONLY <2>9, dt2 = [dt1 EXCEPT ![f.data].m_count = @ + 1], Zenon
  <2>11. Safe(bf, dt, c, f, dt2)
    BY ONLY <2>2, <2>4, <2>10, c \in Buffers, bg = [bf EXCEPT ![c] = Gone], TwoSteps
  <2>12. ReadBytes(f, dt1) = ReadBytes(f, dt)
    <3>1. b \in Buffers \ {c} /\ IsLive(bf, b)
      BY ONLY b \in Buffers, b # c, IsLive(bf, b)
    <3> QED
      BY ONLY <2>3, <3>1, f = bf[b] DEF Unnoticed
  <2>13. dt2[f.data].bytes = dt1[f.data].bytes
    <3>1. dt1 \in [DataIds -> Datum]
      BY ONLY <2>3, Zenon DEF Sharing
    <3>2. dt1[f.data] \in Datum
      BY ONLY <1>1, <3>1
    <3> QED
      BY ONLY <1>1, <3>1, <3>2, dt2 = [dt1 EXCEPT ![f.data].m_count = @ + 1] DEF Datum
  <2>14. ReadBytes(f, dt2) = ReadBytes(f, dt1)
    <3>1. ReadBytes(f, dt2) = ReadOf(f, dt2[f.data].bytes) /\ ReadBytes(f, dt1) = ReadOf(f, dt1[f.data].bytes)
      BY ReadsBytes
    <3> QED
      BY ONLY <2>13, <3>1
  <2> QED
    BY ONLY <1>1, <2>1, <2>11, <2>12, <2>14 DEF Does
<1> QED
  BY <1>3, <1>4

LEMMA AssignKeeps ==
  ASSUME BuffersInv, NEW b \in Buffers, NEW c \in Buffers, Assign(b, c)
  PROVE  BuffersInv'
<1> PICK f : f = buffer[b]
  OBVIOUS
<1> PICK w : w = [f |-> f, data |-> IF buffer[c].data = f.data THEN m_data
                                    ELSE [Unref(m_data, buffer[c].data) EXCEPT ![f.data].m_count = @ + 1]]
  OBVIOUS
<1>1. b \in Live /\ c \in Live /\ b # c /\ Becomes(c, w, content[b])
  BY ONLY Assign(b, c), f = buffer[b],
          w = [f |-> f, data |-> IF buffer[c].data = f.data THEN m_data
                                 ELSE [Unref(m_data, buffer[c].data) EXCEPT ![f.data].m_count = @ + 1]],
          Zenon DEF Assign
<1>2. /\ IsLive(buffer, b) /\ IsLive(buffer, c) /\ content[b] \in Seq(Int) /\ ReadBytes(f, m_data) = content[b]
      /\ Sharing(buffer, m_data)
  BY <1>1, LiveIs DEF BuffersInv
<1>3. Does(buffer, m_data, c, w, content[b])
  <2>1. Does(buffer, m_data, c, w, ReadBytes(f, m_data))
    <3> PICK bf, dt : bf = buffer /\ dt = m_data
      BY SMTT(40)
    <3>1. Does(bf, dt, c, w, ReadBytes(f, dt))
      <4>1. w = [f |-> f, data |-> IF bf[c].data = f.data THEN dt
                                   ELSE [Unref(dt, bf[c].data) EXCEPT ![f.data].m_count = @ + 1]]
        BY ONLY w = [f |-> f, data |-> IF buffer[c].data = f.data THEN m_data
                                       ELSE [Unref(m_data, buffer[c].data) EXCEPT ![f.data].m_count = @ + 1]],
                bf = buffer /\ dt = m_data
      <4> QED
        BY ONLY <1>1, <1>2, <4>1, b \in Buffers, c \in Buffers, f = buffer[b], bf = buffer /\ dt = m_data, AssignedDoes
    <3> QED
      BY ONLY <3>1, bf = buffer /\ dt = m_data
  <2> QED
    BY ONLY <1>2, <2>1
<1> QED
  BY ONLY <1>1, <1>2, <1>3, BuffersInv, c \in Buffers, DoesKeeps

LEMMA DestroyKeeps ==
  ASSUME BuffersInv, NEW b \in Buffers, DestroyBuffer(b)
  PROVE  BuffersInv'
<1> PICK w : w = [f |-> Gone, data |-> Unref(m_data, buffer[b].data)]
  OBVIOUS
<1>0. <<>> \in Seq(Int)
  OBVIOUS
<1> PICK bs \in Seq(Int) : bs = <<>>
  BY ONLY <1>0
<1>1. b \in Live /\ Becomes(b, w, bs)
  BY ONLY DestroyBuffer(b), w = [f |-> Gone, data |-> Unref(m_data, buffer[b].data)], bs = <<>>, Zenon DEF DestroyBuffer
<1>2. IsLive(buffer, b) /\ Sharing(buffer, m_data)
  BY <1>1, LiveIs DEF BuffersInv
<1>3. w.f = Gone /\ w.data = Unref(m_data, buffer[b].data)
  BY ONLY w = [f |-> Gone, data |-> Unref(m_data, buffer[b].data)]
<1>4. Safe(buffer, m_data, b, Gone, Unref(m_data, buffer[b].data))
  BY ONLY <1>2, b \in Buffers, ReleaseSafe
<1>5. Safe(buffer, m_data, b, w.f, w.data)
  BY ONLY <1>3, <1>4
<1> QED
  BY ONLY <1>1, <1>3, <1>5, bs \in Seq(Int), BuffersInv, b \in Buffers, BecomesKeeps

----------------------------------------------------------------------------
(* The specification.                                                      *)

LEMMA BuffersInit == BufferInit => BuffersInv
<1> SUFFICES ASSUME BufferInit PROVE BuffersInv
  OBVIOUS
<1>1. buffer = [b \in Buffers |-> Gone] /\ m_data = [d \in DataIds |-> FreeData] /\ content = [b \in Buffers |-> <<>>]
  BY DEF BufferInit
<1>2. FreeData \in Datum /\ FreeData.m_count = 0
  BY DEF FreeData, Datum
<1>3. buffer \in [Buffers -> Field \cup {Gone}] /\ m_data \in [DataIds -> Datum] /\ content \in [Buffers -> Seq(Int)]
  BY ONLY <1>1, <1>2
<1>4. \A b \in Buffers : ~IsLive(buffer, b)
  BY ONLY <1>1 DEF IsLive
<1>5. ASSUME NEW d \in DataIds PROVE m_data[d].m_count = Cardinality(Users(buffer, d)) /\ Covered(buffer, m_data[d], d)
  <2>1. Users(buffer, d) = {}
    BY ONLY <1>4 DEF Users
  <2>2. Cardinality(Users(buffer, d)) = 0
    BY ONLY <2>1, FS_EmptySet
  <2>3. m_data[d].m_count = 0
    BY ONLY <1>1, <1>2, d \in DataIds
  <2>4. Covered(buffer, m_data[d], d)
    BY ONLY <2>1, 0 \in Nat DEF Covered
  <2> QED
    BY <2>2, <2>3, <2>4
<1>6. Sharing(buffer, m_data)
  BY ONLY <1>3, <1>4, <1>5 DEF Sharing
<1>7. ContentKept
  BY ONLY <1>4 DEF ContentKept, Live, IsLive
<1> QED
  BY <1>3, <1>6, <1>7 DEF BuffersInv

LEMMA BuffersStep == BuffersInv /\ [BufferNext]_bufferVars => BuffersInv'
<1> SUFFICES ASSUME BuffersInv, [BufferNext]_bufferVars PROVE BuffersInv'
  OBVIOUS
<1>1. ASSUME NEW b \in Buffers, NEW z \in 0 .. MaxZeroes, NEW start \in 0 .. Slack, NewBuffer(b, z, start) PROVE BuffersInv'
  BY ONLY <1>1, BuffersInv, NewBufferKeeps
<1>2. ASSUME NEW b \in Buffers, DestroyBuffer(b) PROVE BuffersInv'
  BY ONLY <1>2, BuffersInv, DestroyKeeps
<1>3. ASSUME NEW b \in Buffers, NEW n \in 1 .. MaxLength, RemoveAtStart(b, n) PROVE BuffersInv'
  BY ONLY <1>3, BuffersInv, RemoveAtStartKeeps
<1>4. ASSUME NEW b \in Buffers, NEW n \in 1 .. MaxLength, RemoveAtEnd(b, n) PROVE BuffersInv'
  BY ONLY <1>4, BuffersInv, RemoveAtEndKeeps
<1>5. ASSUME NEW b \in Buffers, NEW n \in 1 .. MaxLength, NEW slack \in 0 .. Slack, AddHeader(b, n, slack) PROVE BuffersInv'
  BY ONLY <1>5, BuffersInv, AddHeaderKeeps
<1>6. ASSUME NEW b \in Buffers, NEW n \in 1 .. MaxLength, NEW slack \in 0 .. Slack, AddTrailer(b, n, slack) PROVE BuffersInv'
  BY ONLY <1>6, BuffersInv, AddTrailerKeeps
<1>7. ASSUME NEW b \in Buffers, NEW slack \in 0 .. Slack, TransformIntoRealBuffer(b, slack) PROVE BuffersInv'
  BY ONLY <1>7, BuffersInv, TransformKeeps
<1>8. ASSUME NEW b \in Buffers, NEW c \in Buffers, Assign(b, c) PROVE BuffersInv'
  BY ONLY <1>8, BuffersInv, AssignKeeps
<1>9. ASSUME NEW b \in Buffers, NEW c \in Buffers, NEW slack \in 0 .. Slack, AddBuffer(b, c, slack) PROVE BuffersInv'
  BY ONLY <1>9, BuffersInv, AddBufferKeeps
<1>10. ASSUME NEW b \in Buffers, NEW c \in Buffers, NEW first \in 0 .. MaxLength, NEW length \in 0 .. MaxLength,
              CreateFragment(b, c, first, length)
       PROVE  BuffersInv'
  BY ONLY <1>10, BuffersInv, CreateFragmentKeeps
<1>11. CASE UNCHANGED bufferVars
  BY ONLY ZenonT(40), <1>11, BuffersInv
     DEF bufferVars, BuffersInv, Sharing, IsLive, InPlace, BytesEnd, Zeroes, Users, Covered, Covers, ContentKept, Live,
         ReadBytes, At, GetSize
<1>12. CASE BufferNext
  BY <1>1, <1>2, <1>3, <1>4, <1>5, <1>6, <1>7, <1>8, <1>9, <1>10, <1>12, Zenon DEF BufferNext
<1> QED
  BY <1>11, <1>12

LEMMA BuffersInvSound == BuffersInv => BuffersSound
<1> SUFFICES ASSUME BuffersInv PROVE BuffersSound
  OBVIOUS
<1>1. Sharing(buffer, m_data) /\ ContentKept
  BY DEF BuffersInv
<1>2. CountsSharers
  <2>1. ASSUME NEW d \in DataIds PROVE m_data[d].m_count = Cardinality({b \in Live : buffer[b].data = d})
    <3>1. {b \in Live : buffer[b].data = d} = Users(buffer, d)
      BY DEF Live, Users, IsLive
    <3>2. m_data[d].m_count = Cardinality(Users(buffer, d))
      BY ONLY <1>1, d \in DataIds, Zenon DEF Sharing
    <3> QED
      BY ONLY <3>1, <3>2
  <2> QED
    BY <2>1, Zenon DEF CountsSharers
<1>3. ASSUME NEW b \in Live, NEW f, f = buffer[b], NEW x, x = m_data[f.data]
      PROVE  /\ 0 <= f.start /\ f.start <= f.zeroStart /\ f.zeroStart <= f.zeroEnd /\ f.zeroEnd <= f.end
             /\ f.start >= x.m_dirtyStart /\ f.end <= x.m_dirtyEnd
             /\ f.end - Zeroes(f) <= Size(x) /\ f.zeroStart <= Size(x)
  <2>1. b \in Buffers /\ IsLive(buffer, b)
    BY DEF Live, IsLive
  <2>2. f \in Field /\ f.data \in DataIds /\ x \in Datum /\ InPlace(f, x) /\ b \in Users(buffer, f.data)
    BY ONLY <1>1, <2>1, <1>3, SharingOf
  <2>3. Covered(buffer, x, f.data)
    BY ONLY <1>1, <2>2, <1>3, Zenon DEF Sharing
  <2>4. PICK z \in Nat : Covers(x, z, f)
    BY ONLY <2>2, <2>3, <1>3 DEF Covered
  <2> PICK fs, fz, fe, fn \in Nat : f.start = fs /\ f.zeroStart = fz /\ f.zeroEnd = fe /\ f.end = fn
    BY <2>2 DEF Field
  <2> PICK ds, de, l \in Nat : x.m_dirtyStart = ds /\ x.m_dirtyEnd = de /\ l = Len(x.bytes)
    BY <2>2 DEF Datum
  <2>5. Zeroes(f) = fe - fz /\ BytesEnd(f) = fn - (fe - fz) /\ Size(x) = l
    BY DEF Zeroes, BytesEnd, Size
  <2>6. fs <= fz /\ fz <= fe /\ fe <= fn /\ ds <= fs /\ fn - (fe - fz) <= l
    BY ONLY <2>2, <2>5, f.start = fs /\ f.zeroStart = fz /\ f.zeroEnd = fe /\ f.end = fn,
            x.m_dirtyStart = ds /\ x.m_dirtyEnd = de /\ l = Len(x.bytes) DEF InPlace
  <2>7. fe - fz <= z /\ fn - (fe - fz) + z <= de
    BY ONLY <2>4, <2>5, x.m_dirtyStart = ds /\ x.m_dirtyEnd = de /\ l = Len(x.bytes) DEF Covers
  <2>8. 0 <= fs /\ fs >= ds /\ fn <= de /\ fz <= l
    BY ONLY <2>6, <2>7, fs \in Nat, fz \in Nat, fe \in Nat, fn \in Nat, ds \in Nat, de \in Nat, l \in Nat, z \in Nat
  <2> QED
    BY ONLY <2>5, <2>6, <2>8, f.start = fs /\ f.zeroStart = fz /\ f.zeroEnd = fe /\ f.end = fn,
            x.m_dirtyStart = ds /\ x.m_dirtyEnd = de /\ l = Len(x.bytes)
<1>4. InternalStateOK
  BY <1>3, Zenon DEF InternalStateOK
<1> QED
  BY <1>1, <1>2, <1>4 DEF BuffersSound

\* Copy on write keeps buffers apart: however Data are shared, moved, cut and
\* joined, the offsets of every buffer stay in order and inside its Data, the
\* dirty area covers it, m_count counts the buffers that share the Data, and
\* every buffer reads as the bytes put in it and not cut off it, whatever was
\* written through the others.
THEOREM BuffersSoundHolds == BufferSpec => []BuffersSound
BY BuffersInit, BuffersStep, BuffersInvSound, PTL DEF BufferSpec
=============================================================================
