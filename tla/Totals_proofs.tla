--------------------------- MODULE Totals_proofs ---------------------------
(***************************************************************************)
(* Induction over numbers and over sequences, and with it the sum of a     *)
(* sequence that becomes longer or shorter.  The induction theorems of the *)
(* library take a predicate; SetInduction takes the set of the numbers     *)
(* that have it, and follows from the least element of a set of numbers.   *)
(***************************************************************************)
EXTENDS Totals, SequenceTheorems, WellFoundedInduction, TLAPS

\* A set of numbers that holds 0 and the successors of its numbers holds all.
LEMMA SetInduction ==
  ASSUME NEW S, 0 \in S, \A n \in Nat : n \in S => n + 1 \in S
  PROVE  Nat \subseteq S
<1> DEFINE T == Nat \ S
           R == OpToRel(<, Nat)
<1>1. SUFFICES ASSUME T # {} PROVE FALSE
  OBVIOUS
<1>2. PICK x \in T : \A y \in T : ~ (<<y, x>> \in R)
  <2>1. T \subseteq Nat
    OBVIOUS
  <2>2. IsWellFoundedOn(R, Nat)
    BY NatLessThanWellFounded
  <2> HIDE DEF T, R
  <2> QED
    BY <2>1, <2>2, <1>1, WFMin
<1>3. x \in Nat /\ x \notin S
  OBVIOUS
<1>4. x # 0
  BY <1>3
<1>5. x - 1 \in Nat /\ x - 1 < x /\ (x - 1) + 1 = x
  BY <1>3, <1>4
<1>6. <<x - 1, x>> \in R
  BY <1>3, <1>5 DEF OpToRel
<1>7. x - 1 \in S
  BY <1>2, <1>5, <1>6
<1> QED
  BY <1>3, <1>5, <1>7

\* A set of sequences that holds the empty one and, with a sequence, all those
\* that are longer by one element, holds all.
LEMMA SequenceInduction ==
  ASSUME NEW T, NEW S, << >> \in S,
         \A s \in Seq(T), x \in T : s \in S => Append(s, x) \in S
  PROVE  Seq(T) \subseteq S
<1> DEFINE N == {n \in Nat : \A s \in Seq(T) : Len(s) = n => s \in S}
<1>1. 0 \in N
  <2>1. \A s \in Seq(T) : Len(s) = 0 => s = << >>
    OBVIOUS
  <2> QED
    BY <2>1
<1>2. ASSUME NEW n \in Nat, n \in N
      PROVE  n + 1 \in N
  <2>1. SUFFICES ASSUME NEW s \in Seq(T), Len(s) = n + 1
                 PROVE  s \in S
    OBVIOUS
  <2> DEFINE start == SubSeq(s, 1, n)
  <2>2. start \in Seq(T) /\ Len(start) = n /\ s[n + 1] \in T
    BY <2>1, SubSeqProperties
  <2>3. s = Append(start, s[n + 1])
    BY <2>1, <2>2, AppendProperties, SubSeqProperties, SeqEqual
  <2>4. start \in S
    BY <1>2, <2>2
  <2> HIDE DEF start
  <2> QED
    BY <2>2, <2>3, <2>4
<1> HIDE DEF N
<1>3. Nat \subseteq N
  BY <1>1, <1>2, SetInduction
<1>4. \A s \in Seq(T) : Len(s) \in N
  BY <1>3
<1> QED
  BY <1>4 DEF N

\* f[i] is the sum of the first i numbers of q.
Sums(q, f) == f = [i \in 0 .. Len(q) |-> IF i = 0 THEN 0 ELSE f[i - 1] + q[i]]

LEMMA ExtendSums ==
  ASSUME NEW q \in Seq(Int), NEW p \in Int,
         NEW f \in [0 .. Len(q) -> Int], Sums(q, f),
         NEW g, g = [i \in 0 .. Len(q) + 1 |-> IF i = Len(q) + 1 THEN f[Len(q)] + p ELSE f[i]]
  PROVE  g \in [0 .. Len(Append(q, p)) -> Int] /\ Sums(Append(q, p), g)
<1> DEFINE r == Append(q, p)
<1>1. /\ Len(q) \in Nat /\ Len(r) = Len(q) + 1 /\ r[Len(q) + 1] = p
      /\ \A i \in 1 .. Len(q) : r[i] = q[i] /\ q[i] \in Int
  OBVIOUS
<1>3. \A i \in 0 .. Len(q) : f[i] = IF i = 0 THEN 0 ELSE f[i - 1] + q[i]
  BY Zenon DEF Sums
<1> HIDE DEF r
<1>4. g \in [0 .. Len(r) -> Int]
  BY SMTT(40), <1>1
<1>5. \A i \in 0 .. Len(r) : g[i] = IF i = 0 THEN 0 ELSE g[i - 1] + r[i]
  <2>1. SUFFICES ASSUME NEW i \in 0 .. Len(r)
                 PROVE  g[i] = IF i = 0 THEN 0 ELSE g[i - 1] + r[i]
    OBVIOUS
  <2>2. CASE i = 0
    BY <1>1, <1>3, <2>2
  <2>3. CASE i = Len(q) + 1
    BY <1>1, <2>3
  <2>4. CASE i # 0 /\ i # Len(q) + 1
    <3>1. /\ i \in 0 .. Len(q) /\ i - 1 \in 0 .. Len(q) /\ i \in 1 .. Len(q)
          /\ i \in 0 .. Len(q) + 1 /\ i - 1 \in 0 .. Len(q) + 1 /\ i - 1 # Len(q) + 1
      BY <1>1, <2>1, <2>4
    <3>2. g[i] = f[i] /\ g[i - 1] = f[i - 1] /\ r[i] = q[i]
      BY <1>1, <2>4, <3>1
    <3> QED
      BY <1>3, <2>4, <3>1, <3>2
  <2> QED
    BY <2>2, <2>3, <2>4
<1>6. g = [i \in 0 .. Len(r) |-> IF i = 0 THEN 0 ELSE g[i - 1] + r[i]]
  BY <1>4, <1>5
<1> QED
  BY <1>4, <1>6 DEF Sums, r

LEMMA SumsExist ==
  ASSUME NEW q \in Seq(Int)
  PROVE  \E f \in [0 .. Len(q) -> Int] : Sums(q, f)
<1> DEFINE S == {s \in Seq(Int) : \E f \in [0 .. Len(s) -> Int] : Sums(s, f)}
<1>1. << >> \in S
  <2>1. PICK s : s = << >>
    OBVIOUS
  <2>2. s \in Seq(Int) /\ Len(s) = 0
    BY <2>1
  <2> DEFINE f == [i \in 0 .. Len(s) |-> 0]
  <2>3. f \in [0 .. Len(s) -> Int]
    OBVIOUS
  <2>4. f = [i \in 0 .. Len(s) |-> IF i = 0 THEN 0 ELSE f[i - 1] + s[i]]
    BY <2>2
  <2>5. Sums(s, f)
    BY <2>4, Zenon DEF Sums
  <2> QED
    BY <2>1, <2>2, <2>3, <2>5, Zenon
<1>2. ASSUME NEW s \in Seq(Int), NEW x \in Int, s \in S
      PROVE  Append(s, x) \in S
  <2>1. PICK f \in [0 .. Len(s) -> Int] : Sums(s, f)
    BY <1>2
  <2> DEFINE g == [i \in 0 .. Len(s) + 1 |-> IF i = Len(s) + 1 THEN f[Len(s)] + x ELSE f[i]]
  <2>2. g \in [0 .. Len(Append(s, x)) -> Int] /\ Sums(Append(s, x), g)
    BY <2>1, ExtendSums
  <2>3. Append(s, x) \in Seq(Int)
    OBVIOUS
  <2> QED
    BY <2>2, <2>3, Zenon
<1> HIDE DEF S
<1>3. q \in S
  BY <1>1, <1>2, SequenceInduction
<1> QED
  BY <1>3 DEF S

LEMMA SumsUnique ==
  ASSUME NEW q \in Seq(Int), NEW f, NEW g, Sums(q, f), Sums(q, g)
  PROVE  f = g
<1> DEFINE S == {n \in Nat : n \in 0 .. Len(q) => f[n] = g[n]}
<1>1. \A i \in 0 .. Len(q) : /\ f[i] = IF i = 0 THEN 0 ELSE f[i - 1] + q[i]
                             /\ g[i] = IF i = 0 THEN 0 ELSE g[i - 1] + q[i]
  BY Zenon DEF Sums
<1>2. 0 \in S
  BY <1>1
<1>3. ASSUME NEW n \in Nat, n \in S
      PROVE  n + 1 \in S
  BY <1>1, <1>3
<1> HIDE DEF S
<1>4. Nat \subseteq S
  BY <1>2, <1>3, SetInduction
<1>5. \A i \in 0 .. Len(q) : f[i] = g[i]
  BY <1>4 DEF S
<1>6. f = [i \in 0 .. Len(q) |-> f[i]] /\ g = [i \in 0 .. Len(q) |-> g[i]]
  BY DEF Sums
<1> QED
  BY <1>5, <1>6, Zenon

LEMMA TotalIsSum ==
  ASSUME NEW q \in Seq(Int), NEW f, Sums(q, f)
  PROVE  Total(q) = f[Len(q)]
<1> DEFINE c == CHOOSE g : g = [i \in 0 .. Len(q) |-> IF i = 0 THEN 0 ELSE g[i - 1] + q[i]]
<1>1. c = [i \in 0 .. Len(q) |-> IF i = 0 THEN 0 ELSE c[i - 1] + q[i]]
  BY Zenon DEF Sums
<1>2. Total(q) = c[Len(q)]
  BY Zenon DEF Total
<1> HIDE DEF c
<1>3. Sums(q, c)
  BY <1>1, Zenon DEF Sums
<1> QED
  BY <1>2, <1>3, SumsUnique

\* Of an empty sequence, and of one with an element more.
LEMMA TotalEmpty == Total(<< >>) = 0
<1>1. << >> \in Seq(Int) /\ Len(<< >>) = 0
  OBVIOUS
<1>2. PICK f \in [0 .. Len(<< >>) -> Int] : Sums(<< >>, f)
  BY <1>1, SumsExist
<1>3. f[0] = 0
  BY <1>1, <1>2 DEF Sums
<1> QED
  BY <1>1, <1>2, <1>3, TotalIsSum

LEMMA TotalAppend ==
  ASSUME NEW q \in Seq(Int), NEW p \in Int
  PROVE  Total(q) \in Int /\ Total(Append(q, p)) = Total(q) + p
<1>1. PICK f \in [0 .. Len(q) -> Int] : Sums(q, f)
  BY SumsExist
<1> DEFINE g == [i \in 0 .. Len(q) + 1 |-> IF i = Len(q) + 1 THEN f[Len(q)] + p ELSE f[i]]
<1>2. Sums(Append(q, p), g)
  BY <1>1, ExtendSums
<1>3. Append(q, p) \in Seq(Int) /\ Len(Append(q, p)) = Len(q) + 1 /\ Len(q) \in Nat
  OBVIOUS
<1>4. g[Len(q) + 1] = f[Len(q)] + p
  BY <1>3
<1> HIDE DEF g
<1>5. Total(Append(q, p)) = g[Len(q) + 1]
  BY <1>2, <1>3, TotalIsSum
<1>6. Total(q) = f[Len(q)] /\ f[Len(q)] \in Int
  BY <1>1, <1>3, TotalIsSum
<1> QED
  BY <1>4, <1>5, <1>6

\* Of two sequences, one after the other; of a sequence without its first
\* element; of sizes.
LEMMA TotalConcat ==
  ASSUME NEW s \in Seq(Int), NEW t \in Seq(Int)
  PROVE  /\ s \o t \in Seq(Int) /\ Total(s) \in Int /\ Total(t) \in Int
         /\ Total(s \o t) = Total(s) + Total(t)
<1> DEFINE S == {r \in Seq(Int) : Total(s \o r) = Total(s) + Total(r)}
<1>1. Total(s) \in Int /\ \A r \in Seq(Int) : Total(r) \in Int
  BY TotalAppend
<1>2. << >> \in S
  <2>1. s \o << >> = s
    BY ConcatEmptySeq
  <2> QED
    BY <1>1, <2>1, TotalEmpty
<1>3. ASSUME NEW r \in Seq(Int), NEW x \in Int, r \in S
      PROVE  Append(r, x) \in S
  <2>1. s \o r \in Seq(Int) /\ Append(r, x) \in Seq(Int) /\ Append(s \o r, x) \in Seq(Int)
    BY ConcatProperties, AppendProperties
  <2>2. s \o Append(r, x) = Append(s \o r, x)
    <3>1. <<x>> \in Seq(Int)
      OBVIOUS
    <3>2. Append(r, x) = r \o <<x>> /\ Append(s \o r, x) = (s \o r) \o <<x>>
      BY <2>1, AppendIsConcat
    <3>3. (s \o r) \o <<x>> = s \o (r \o <<x>>)
      BY SMTT(40), <3>1, ConcatAssociative
    <3> QED
      BY <3>2, <3>3, Zenon
  <2>3. /\ Total(Append(s \o r, x)) = Total(s \o r) + x
        /\ Total(Append(r, x)) = Total(r) + x
    BY <2>1, TotalAppend
  <2>4. Total(s \o r) = Total(s) + Total(r)
    BY <1>3
  <2>5. Total(s \o Append(r, x)) = Total(s) + Total(Append(r, x))
    <3>1. Total(s) \in Int /\ Total(r) \in Int
      BY <1>1
    <3> QED
      BY <2>2, <2>3, <2>4, <3>1
  <2> QED
    BY <2>1, <2>5
<1> HIDE DEF S
<1>4. t \in S
  BY <1>2, <1>3, SequenceInduction
<1> QED
  BY <1>1, <1>4, ConcatProperties DEF S

LEMMA TotalOne ==
  ASSUME NEW x \in Int
  PROVE  Total(<<x>>) = x
<1>1. PICK e : e = << >>
  OBVIOUS
<1>2. e \in Seq(Int) /\ <<x>> = Append(e, x)
  BY <1>1
<1>3. Total(e) = 0
  BY <1>1, TotalEmpty, Zenon
<1>4. Total(Append(e, x)) = x
  BY <1>2, <1>3, TotalAppend
<1> QED
  BY <1>2, <1>4, Zenon

LEMMA TotalTail ==
  ASSUME NEW q \in Seq(Int), q # << >>
  PROVE  /\ Tail(q) \in Seq(Int) /\ Head(q) \in Int
         /\ Total(q) \in Int /\ Total(Tail(q)) \in Int
         /\ Total(q) = Head(q) + Total(Tail(q))
<1>1. Head(q) \in Int /\ Tail(q) \in Seq(Int) /\ <<Head(q)>> \in Seq(Int)
  BY HeadTailProperties
<1>2. <<Head(q)>> \o Tail(q) = q
  BY HeadTailProperties, ConcatProperties, SeqEqual
<1> QED
  BY ZenonT(40), <1>1, <1>2, TotalConcat, TotalOne

LEMMA TotalNat ==
  ASSUME NEW q \in Seq(Nat)
  PROVE  Total(q) \in Nat
<1> DEFINE S == {s \in Seq(Nat) : Total(s) \in Nat}
<1>1. << >> \in S
  BY TotalEmpty
<1>2. ASSUME NEW s \in Seq(Nat), NEW x \in Nat, s \in S
      PROVE  Append(s, x) \in S
  <2>1. s \in Seq(Int) /\ x \in Int
    BY SeqDef
  <2> QED
    BY SMTT(40), <1>2, <2>1, TotalAppend
<1> HIDE DEF S
<1>3. q \in S
  BY <1>1, <1>2, SequenceInduction
<1> QED
  BY <1>3 DEF S
=============================================================================
