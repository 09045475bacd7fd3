---------------------------- MODULE PacketBuffer ----------------------------
(***************************************************************************)
(* Buffer, the bytes of a packet: buffers share the bytes they were copied *)
(* with (Data) until one of them must write where another may look, and    *)
(* the zeroes of a payload take no bytes.  Offsets are of the virtual      *)
(* buffer, zeroes included; byte v after the zeroes is at v minus their    *)
(* number in Data.                                                         *)
(*                                                                         *)
(* Abstractions.  What is added is written at once, as headers, trailers   *)
(* and payloads are; the byte a buffer writes is its own name.  The free   *)
(* list and g_recommendedStart, which only make a Data larger than asked   *)
(* for and start in its middle, are a choice of up to Slack bytes.         *)
(***************************************************************************)
EXTENDS Integers, Sequences, FiniteSets

CONSTANTS
  Buffers,
  MaxZeroes, MaxLength, Slack, MaxOps      \* bounds: a payload, a buffer; operations

BufferAssumption ==
  /\ IsFiniteSet(Buffers) /\ Buffers \subseteq Nat \ {0} /\ MaxZeroes \in Nat
  /\ MaxLength \in Nat /\ Slack \in Nat /\ MaxOps \in Nat

ASSUME BufferAssumption

VARIABLES
  buffer,      \* buffer[b]: the fields of b
  m_data,      \* m_data[d]: the Data objects; one with m_count 0 is free
  content,     \* history: what b should hold
  ops          \* bound

bufferVars == <<buffer, m_data, content, ops>>

DataIds == 0 .. Cardinality(Buffers) + 1
Junk == -1       \* a byte nobody wrote
Gone == [data |-> -1, start |-> 0, zeroStart |-> 0, zeroEnd |-> 0, end |-> 0]
FreeData == [m_count |-> 0, m_dirtyStart |-> 0, m_dirtyEnd |-> 0, bytes |-> <<>>]
Live == {b \in Buffers : buffer[b] # Gone}

BufferInit ==
  /\ buffer = [b \in Buffers |-> Gone]
  /\ m_data = [d \in DataIds |-> FreeData]
  /\ content = [b \in Buffers |-> <<>>] /\ ops = 0

----------------------------------------------------------------------------
(* Operations on a state s: the fields f of a buffer and the Data objects. *)

Zeroes(f) == f.zeroEnd - f.zeroStart
GetSize(f) == f.end - f.start
InternalSize(f) == GetSize(f) - Zeroes(f)
Size(data) == Len(data.bytes)
Unused(data) == CHOOSE d \in DataIds : data[d].m_count = 0
Shift(f, delta) == [f EXCEPT !.start = @ + delta, !.zeroStart = @ + delta,
                             !.zeroEnd = @ + delta, !.end = @ + delta]

Unref_NotLast(data, d) ==
  IF data[d].m_count = 1 THEN data ELSE [data EXCEPT ![d].m_count = @ - 1]
Unref(data, d) ==
  IF data[d].m_count = 1 THEN [data EXCEPT ![d] = FreeData] ELSE [data EXCEPT ![d].m_count = @ - 1]

\* The bytes of f moved to a new Data, before bytes from its start, which has
\* room for n more and slack.
Moved(s, before, n, slack) ==
  LET old == s.data[s.f.data]
      d == Unused(s.data)
      size == InternalSize(s.f)
      f == [Shift(s.f, before - s.f.start) EXCEPT !.data = d]
      bytes == [i \in 1 .. size + n + slack |->
                  IF i > before /\ i <= before + size THEN old.bytes[s.f.start + i - before] ELSE Junk]
  IN [f |-> f, data |-> [Unref(s.data, s.f.data) EXCEPT ![d] = [FreeData EXCEPT !.m_count = 1, !.bytes = bytes]]]

StartIsDirty_Never(s) == FALSE
StartIsDirty(s) ==
  s.data[s.f.data].m_count > 1 /\ s.f.start > s.data[s.f.data].m_dirtyStart
EndIsDirty(s) ==
  s.data[s.f.data].m_count > 1 /\ s.f.end < s.data[s.f.data].m_dirtyEnd

AddAtStart(s, n, slack) ==
  IF s.f.start >= n /\ ~StartIsDirty(s)
  THEN [f |-> [s.f EXCEPT !.start = @ - n],
        data |-> [s.data EXCEPT ![s.f.data].m_dirtyStart = s.f.start - n]]
  ELSE LET m == Moved(s, n, n, slack)
       IN [f |-> [m.f EXCEPT !.start = 0],
           data |-> [m.data EXCEPT ![m.f.data].m_dirtyStart = 0, ![m.f.data].m_dirtyEnd = m.f.end]]

AddAtEnd(s, n, slack) ==
  IF s.f.end - Zeroes(s.f) + n <= Size(s.data[s.f.data]) /\ ~EndIsDirty(s)
  THEN [f |-> [s.f EXCEPT !.end = @ + n],
        data |-> [s.data EXCEPT ![s.f.data].m_dirtyEnd = s.f.end + n]]
  ELSE LET m == Moved(s, 0, n, slack)
       IN [f |-> [m.f EXCEPT !.end = @ + n],
           data |-> [m.data EXCEPT ![m.f.data].m_dirtyStart = 0, ![m.f.data].m_dirtyEnd = m.f.end + n]]

\* Byte v of the virtual buffer, and writing bs from v on.
At(f, data, v) ==
  IF v < f.zeroStart THEN data[f.data].bytes[v + 1]
  ELSE IF v < f.zeroEnd THEN 0 ELSE data[f.data].bytes[v - Zeroes(f) + 1]
ReadBytes(f, data) == [i \in 1 .. GetSize(f) |-> At(f, data, f.start + i - 1)]
Write(s, v, bs) ==
  LET at == IF v < s.f.zeroStart THEN v ELSE v - Zeroes(s.f)
  IN [s EXCEPT !.data[s.f.data].bytes =
        [i \in DOMAIN @ |-> IF i > at /\ i <= at + Len(bs) THEN bs[i - at] ELSE @[i]]]

RemovedAtStart_ZeroesKept(f, n) == [f EXCEPT !.start = @ + n]
RemovedAtStart(f, n) ==
  LET newStart == f.start + n
  IN CASE newStart <= f.zeroStart -> [f EXCEPT !.start = newStart]
       [] newStart > f.zeroStart /\ newStart <= f.zeroEnd ->
            LET delta == newStart - f.zeroStart
            IN [f EXCEPT !.start = f.zeroStart, !.zeroEnd = @ - delta, !.end = @ - delta]
       [] newStart > f.zeroEnd /\ newStart <= f.end ->
            [f EXCEPT !.start = newStart - Zeroes(f), !.end = @ - Zeroes(f),
                      !.zeroStart = newStart - Zeroes(f), !.zeroEnd = newStart - Zeroes(f)]
       [] OTHER ->
            LET last == f.end - Zeroes(f)
            IN [f EXCEPT !.end = last, !.start = last, !.zeroEnd = last, !.zeroStart = last]

RemovedAtEnd(f, n) ==
  LET newEnd == IF n > GetSize(f) THEN f.start ELSE f.end - n
  IN [f EXCEPT !.end = newEnd,
               !.zeroEnd = IF newEnd > f.zeroEnd THEN @ ELSE newEnd,
               !.zeroStart = IF newEnd > f.zeroStart THEN @ ELSE newEnd]

\* The zeroes made real in a Data of their own.
FullCopy(s, slack) ==
  IF Zeroes(s.f) = 0 THEN s
  ELSE LET d == Unused(s.data)
           length == GetSize(s.f)
           bytes == [i \in 1 .. length + slack |->
                       IF i <= length THEN ReadBytes(s.f, s.data)[i] ELSE Junk]
           zeroEnd == s.f.zeroEnd - s.f.start
       IN [f |-> [data |-> d, start |-> 0, zeroStart |-> zeroEnd, zeroEnd |-> zeroEnd, end |-> length],
           data |-> [Unref(s.data, s.f.data) EXCEPT ![d] =
                       [m_count |-> 1, m_dirtyStart |-> 0, m_dirtyEnd |-> length, bytes |-> bytes]]]

\* AddAtEnd of a buffer o: its zeroes join those of f if they meet.
ZeroesMeet(s, o) ==
  /\ s.data[s.f.data].m_count = 1 /\ (s.f.end = s.f.zeroEnd \/ Zeroes(s.f) = 0)
  /\ s.f.end = s.data[s.f.data].m_dirtyEnd /\ o.start = o.zeroStart /\ Zeroes(o) > 0

Joined(s, o, slack) ==
  LET bytes == ReadBytes(o, s.data)
  IN IF ZeroesMeet(s, o)
     THEN LET last == s.f.end + Zeroes(o)
              f == [s.f EXCEPT !.zeroStart = IF Zeroes(s.f) = 0 THEN s.f.end ELSE @,
                               !.zeroEnd = last, !.end = last]
              n == o.end - o.zeroEnd
              t == AddAtEnd([f |-> f, data |-> [s.data EXCEPT ![f.data].m_dirtyEnd = last]], n, slack)
          IN Write(t, t.f.end - n, SubSeq(bytes, Len(bytes) - n + 1, Len(bytes)))
     ELSE LET t == AddAtEnd(FullCopy(s, slack), GetSize(o), slack)
          IN Write(t, t.f.end - GetSize(o), bytes)

----------------------------------------------------------------------------
(* Actions.                                                                *)

State(b) == [f |-> buffer[b], data |-> m_data]
Becomes(b, s, bytes) ==
  /\ ops < MaxOps /\ ops' = ops + 1
  /\ buffer' = [buffer EXCEPT ![b] = s.f] /\ m_data' = s.data /\ content' = [content EXCEPT ![b] = bytes]
Mark(b, n) == [i \in 1 .. n |-> b]

\* Initialize.
NewBuffer(b, zeroSize, start) ==
  /\ b \notin Live
  /\ LET d == Unused(m_data)
         end == start + zeroSize
     IN Becomes(b, [f |-> [data |-> d, start |-> start, zeroStart |-> start, zeroEnd |-> end, end |-> end],
                    data |-> [m_data EXCEPT ![d] = [m_count |-> 1, m_dirtyStart |-> start, m_dirtyEnd |-> end,
                                                    bytes |-> [i \in 1 .. 1 + Slack |-> Junk]]]],
                [i \in 1 .. zeroSize |-> 0])

\* The copy constructor, with RemoveAtStart and RemoveAtEnd: CreateFragment.
CreateFragment(b, c, first, length) ==
  /\ b \in Live /\ c \notin Live /\ first + length <= GetSize(buffer[b])
  /\ LET f == RemovedAtEnd(RemovedAtStart(buffer[b], first), GetSize(buffer[b]) - (first + length))
     IN Becomes(c, [f |-> f, data |-> [m_data EXCEPT ![f.data].m_count = @ + 1]],
                SubSeq(content[b], first + 1, first + length))

\* operator=
Assign(b, c) ==
  /\ b \in Live /\ c \in Live /\ b # c
  /\ LET d == buffer[b].data
     IN Becomes(c, [f |-> buffer[b],
                    data |-> IF buffer[c].data = d THEN m_data
                             ELSE [Unref(m_data, buffer[c].data) EXCEPT ![d].m_count = @ + 1]],
                content[b])

DestroyBuffer(b) ==
  /\ b \in Live /\ Becomes(b, [f |-> Gone, data |-> Unref(m_data, buffer[b].data)], <<>>)

AddHeader(b, n, slack) ==
  /\ b \in Live /\ GetSize(buffer[b]) + n <= MaxLength
  /\ LET s == AddAtStart(State(b), n, slack)
     IN Becomes(b, Write(s, s.f.start, Mark(b, n)), Mark(b, n) \o content[b])

AddTrailer(b, n, slack) ==
  /\ b \in Live /\ GetSize(buffer[b]) + n <= MaxLength
  /\ LET s == AddAtEnd(State(b), n, slack)
     IN Becomes(b, Write(s, s.f.end - n, Mark(b, n)), content[b] \o Mark(b, n))

AddBuffer(b, o, slack) ==
  /\ b \in Live /\ o \in Live /\ GetSize(buffer[b]) + GetSize(buffer[o]) <= MaxLength
  /\ b # o
  /\ Becomes(b, Joined(State(b), buffer[o], slack), content[b] \o content[o])

RemoveAtStart(b, n) ==
  /\ b \in Live /\ n <= GetSize(buffer[b])
  /\ Becomes(b, [f |-> RemovedAtStart(buffer[b], n), data |-> m_data],
             SubSeq(content[b], n + 1, Len(content[b])))

RemoveAtEnd(b, n) ==
  /\ b \in Live /\ n <= GetSize(buffer[b])
  /\ Becomes(b, [f |-> RemovedAtEnd(buffer[b], n), data |-> m_data],
             SubSeq(content[b], 1, Len(content[b]) - n))

TransformIntoRealBuffer(b, slack) ==
  b \in Live /\ Zeroes(buffer[b]) > 0 /\ Becomes(b, FullCopy(State(b), slack), content[b])

BufferNext == \E b \in Buffers :
  \/ \E z \in 0 .. MaxZeroes, start \in 0 .. Slack : NewBuffer(b, z, start)
  \/ DestroyBuffer(b)
  \/ \E n \in 1 .. MaxLength : RemoveAtStart(b, n) \/ RemoveAtEnd(b, n)
  \/ \E n \in 1 .. MaxLength, slack \in 0 .. Slack : AddHeader(b, n, slack) \/ AddTrailer(b, n, slack)
  \/ \E slack \in 0 .. Slack : TransformIntoRealBuffer(b, slack)
  \/ \E c \in Buffers :
       \/ Assign(b, c) \/ \E slack \in 0 .. Slack : AddBuffer(b, c, slack)
       \/ \E first, length \in 0 .. MaxLength : CreateFragment(b, c, first, length)

BufferSpec == BufferInit /\ [][BufferNext]_bufferVars

----------------------------------------------------------------------------
(* Properties.                                                             *)

\* CheckInternalState, which the code has disabled: the offsets are in order
\* and inside the Data, and the dirty area covers every buffer that shares it.
InternalStateOK == \A b \in Live :
  LET f == buffer[b]
      data == m_data[f.data]
  IN /\ 0 <= f.start /\ f.start <= f.zeroStart /\ f.zeroStart <= f.zeroEnd /\ f.zeroEnd <= f.end
     /\ f.start >= data.m_dirtyStart /\ f.end <= data.m_dirtyEnd
     /\ f.end - Zeroes(f) <= Size(data) /\ f.zeroStart <= Size(data)

\* m_count counts the buffers that share a Data, so it is freed with the last.
CountsSharers == \A d \in DataIds :
  m_data[d].m_count = Cardinality({b \in Live : buffer[b].data = d})

\* Copies are independent: every buffer holds what was put in it and cut off
\* it, whatever was done to the buffers that share its bytes.
ContentKept == \A b \in Live : ReadBytes(buffer[b], m_data) = content[b]

\* Whatever buffers share, each of them holds its own bytes and the Data objects
\* know how many they are.
BuffersSound == InternalStateOK /\ CountsSharers /\ ContentKept
=============================================================================
