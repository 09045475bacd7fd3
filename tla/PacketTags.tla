----------------------------- MODULE PacketTags -----------------------------
(***************************************************************************)
(* PacketTagList: the tags of the packets form a tree that points to its   *)
(* root; a copy of a packet shares the tags of the original, and a shared  *)
(* tag is copied before one of its packets removes or replaces it.  A tag  *)
(* holds the name of the list that wrote it.                               *)
(***************************************************************************)
EXTENDS Integers, Sequences, FiniteSets

CONSTANTS
  TagLists, Kinds,
  MaxTagOps      \* bound

ASSUME TagAssumption ==
  IsFiniteSet(TagLists) /\ IsFiniteSet(Kinds) /\ 0 \notin Kinds /\ MaxTagOps \in Nat

VARIABLES
  m_next,     \* m_next[l]: the newest tag of l, or Nil
  tagData,    \* tagData[n]: the TagData objects; one with count 0 is free
  tags,       \* history: the tags l should have, the newest first
  tagOps      \* bound

tagVars == <<m_next, tagData, tags, tagOps>>

Nil == 0
Nodes == 1 .. Cardinality(TagLists) * Cardinality(Kinds)
FreeTag == [tid |-> Nil, data |-> Nil, next |-> Nil, count |-> 0]
Free == {n \in Nodes : tagData[n].count = 0}

TagsInit ==
  /\ m_next = [l \in TagLists |-> Nil] /\ tagData = [n \in Nodes |-> FreeTag]
  /\ tags = [l \in TagLists |-> <<>>] /\ tagOps = 0

\* The TagData of l, from m_next to the root.
Chain(l) ==
  LET from[n \in Nodes \cup {Nil}] == IF n = Nil THEN <<>> ELSE <<n>> \o from[tagData[n].next]
  IN from[m_next[l]]

First(S) == CHOOSE i \in S : \A j \in S : i <= j

\* Where the tree is shared first on a chain.
Merge(chain) ==
  LET shared == {i \in DOMAIN chain : tagData[chain[i]].count > 1}
  IN IF shared = {} THEN Len(chain) + 1 ELSE First(shared)

NextOf(chain, i) == IF i < Len(chain) THEN chain[i + 1] ELSE Nil
Recount(data, n, delta) == IF n = Nil THEN data ELSE [data EXCEPT ![n].count = @ + delta]

\* Points what precedes tag i of l at node n.
Relink(l, chain, data, i, n) ==
  IF i = 1 THEN m_next' = [m_next EXCEPT ![l] = n] /\ tagData' = data
  ELSE tagData' = [data EXCEPT ![chain[i - 1]].next = n] /\ UNCHANGED m_next

\* The shared part before the target, nodes k to t - 1 of the chain, copied;
\* the last copy points at node n.
Unmerged(chain, data, k, t, copies, n) ==
  LET at == [i \in k .. t - 1 |-> CHOOSE c \in copies : Cardinality({d \in copies : d < c}) = i - k]
      index == {i \in k .. t - 1 : TRUE}
  IN [m \in Nodes |->
        IF \E i \in index : at[i] = m
        THEN LET i == CHOOSE j \in index : at[j] = m
             IN [data[chain[i]] EXCEPT !.count = 1, !.next = IF i = t - 1 THEN n ELSE at[i + 1]]
        ELSE data[m]]

\* COWTraverse finds tag t of l and gives it to RemoveWriter or ReplaceWriter,
\* which puts node n, or nothing (Nil), in its place; the data say what n is.
Splice(l, chain, t, data, n) ==
  LET k == Merge(chain)
      rest == NextOf(chain, t)
      new == IF n = Nil THEN rest ELSE n
  IN IF t < k
     THEN Relink(l, chain, [data EXCEPT ![chain[t]] = FreeTag], t, new)
     ELSE LET counted == Recount(Recount(data, chain[k], -1), rest, 1)
              copies == CHOOSE C \in SUBSET (Free \ {n}) :
                          Cardinality(C) = t - k /\ \A c \in C, f \in Free \ (C \cup {n}) : c < f
          IN IF k = t THEN Relink(l, chain, counted, k, new)
             ELSE Relink(l, chain, Unmerged(chain, counted, k, t, copies, new), k, First(copies))

With(list, kind, value) ==
  [i \in DOMAIN list |-> IF list[i].tid = kind THEN [tid |-> kind, data |-> value] ELSE list[i]]
WithoutTag(list, kind) == SelectSeq(list, LAMBDA x : x.tid # kind)
Has(l, kind) == \E i \in DOMAIN Chain(l) : tagData[Chain(l)[i]].tid = kind
Target(chain, kind) == First({i \in DOMAIN chain : tagData[chain[i]].tid = kind})

----------------------------------------------------------------------------
AddTag(l, kind, value) ==
  /\ ~Has(l, kind)
  /\ LET n == First(Free)
     IN /\ tagData' = [tagData EXCEPT ![n] = [tid |-> kind, data |-> value, next |-> m_next[l], count |-> 1]]
        /\ m_next' = [m_next EXCEPT ![l] = n]
  /\ tags' = [tags EXCEPT ![l] = <<[tid |-> kind, data |-> value]>> \o @]

RemoveTag(l, kind) ==
  /\ Has(l, kind)
  /\ Splice(l, Chain(l), Target(Chain(l), kind), tagData, Nil)
  /\ tags' = [tags EXCEPT ![l] = WithoutTag(@, kind)]

\* A tag nobody shares is rewritten where it is.
ReplaceTag_InPlace(l, kind, value) ==
  LET chain == Chain(l)
  IN /\ Has(l, kind)
     /\ tagData' = [tagData EXCEPT ![chain[Target(chain, kind)]].data = value]
     /\ tags' = [tags EXCEPT ![l] = With(@, kind, value)]
     /\ UNCHANGED m_next
ReplaceTag(l, kind, value) ==
  LET chain == Chain(l)
      t == Target(chain, kind)
      rest == NextOf(chain, t)
      n == First(Free)
  IN /\ Has(l, kind)
     /\ IF t < Merge(chain)
        THEN tagData' = [tagData EXCEPT ![chain[t]].data = value] /\ UNCHANGED m_next
        ELSE Splice(l, chain, t,
                    [tagData EXCEPT ![n] = [tid |-> kind, data |-> value, next |-> rest, count |-> 1]], n)
     /\ tags' = [tags EXCEPT ![l] = With(@, kind, value)]

\* RemoveAll frees the tags up to the first that is shared.
Released_Shared(chain) ==
  [n \in Nodes |-> IF \E i \in DOMAIN chain : chain[i] = n THEN FreeTag ELSE tagData[n]]
Released(chain) ==
  LET k == Merge(chain)
  IN [n \in Nodes |->
        IF \E i \in 1 .. k - 1 : chain[i] = n THEN FreeTag
        ELSE IF k <= Len(chain) /\ chain[k] = n THEN [tagData[n] EXCEPT !.count = @ - 1]
        ELSE tagData[n]]

RemoveAll(l) ==
  /\ tagData' = Released(Chain(l)) /\ m_next' = [m_next EXCEPT ![l] = Nil]
  /\ tags' = [tags EXCEPT ![l] = <<>>]

\* operator=
CopyTags(l, o) ==
  /\ m_next[l] # m_next[o]
  /\ tagData' = Recount(Released(Chain(l)), m_next[o], 1)
  /\ m_next' = [m_next EXCEPT ![l] = m_next[o]]
  /\ tags' = [tags EXCEPT ![l] = tags[o]]

TagsNext == tagOps < MaxTagOps /\ tagOps' = tagOps + 1 /\ \E l \in TagLists :
  \/ \E kind \in Kinds : AddTag(l, kind, l) \/ ReplaceTag(l, kind, l) \/ RemoveTag(l, kind)
  \/ RemoveAll(l) \/ \E o \in TagLists : CopyTags(l, o)

TagsSpec == TagsInit /\ [][TagsNext]_tagVars

----------------------------------------------------------------------------
(* Properties.                                                             *)

\* Every list has the tags that were added to it and to the packets it was
\* copied from, in order: no other packet sees what one of them removes or
\* replaces.
TagsIndependent == \A l \in TagLists :
  [i \in DOMAIN Chain(l) |-> [tid |-> tagData[Chain(l)[i]].tid, data |-> tagData[Chain(l)[i]].data]] = tags[l]

\* A count is the number of pointers to its tag, so that the last of them
\* frees the tag and none before it.
CountsPointers == \A n \in Nodes :
  tagData[n].count = Cardinality({l \in TagLists : m_next[l] = n})
                     + Cardinality({m \in Nodes : tagData[m].count > 0 /\ tagData[m].next = n})

\* Lists that share nodes behave as lists of their own.
TagsSound == TagsIndependent /\ CountsPointers
=============================================================================
