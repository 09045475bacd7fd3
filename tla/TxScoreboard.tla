---------------------------- MODULE TxScoreboard ----------------------------
(***************************************************************************)
(* The loss recovery of a TCP sender: the scoreboard of TcpTxBuffer (what  *)
(* was sent, and of it what is SACKed, lost or retransmitted) and the      *)
(* congestion states through which TcpSocketBase drives it, with SACK or   *)
(* with duplicate ACKs alone.  Sequence numbers count bytes from 1.        *)
(*                                                                         *)
(* Abstractions.  The congestion algorithm is a window chosen anew in each *)
(* event; a timeout makes it one segment.  The window of the receiver is   *)
(* no limit, TcpNoDelay and LimitedTransmit are TRUE (their defaults), ECN *)
(* and pacing are off, no socket closes.  The application list holds bytes *)
(* not yet sent, however they were written.  A segment may stay in the     *)
(* network as long as it likes, so one that is lost is one that stays; an  *)
(* ACK is lost or comes back at once, since its delay can be taken for one *)
(* of the segment.  m_highTxMark is then the end of the sent list and      *)
(* m_highRxAckMark its beginning.                                          *)
(***************************************************************************)
EXTENDS Integers, FiniteSets, Sequences, SequencesExt, FiniteSetsExt

CONSTANTS
  SegmentSize,     \* m_tcb->m_segmentSize, bytes
  RetxThresh,      \* m_retxThresh and m_dupAckThresh
  CongWindows,     \* the congestion windows, bytes
  MaxBytes,        \* bound: bytes the application writes
  MaxTimeouts      \* bound: retransmission timeouts

TxAssumption ==
  /\ SegmentSize \in Nat \ {0} /\ RetxThresh \in Nat \ {0} /\ MaxBytes \in Nat /\ MaxTimeouts \in Nat
  /\ CongWindows \subseteq {w \in Nat : w >= SegmentSize}

ASSUME TxAssumption

VARIABLES
  snd,             \* the sender
  rx,              \* the receiver: next byte, bytes held after a gap, SACK blocks
  inNet,           \* segments on their way
  timeouts         \* history

txVars == <<snd, rx, inNet, timeouts>>

NoSeq == 0

(* An item of m_sentList; hs: the iterator m_highestSack.first is on it.    *)
(* failed collects the names of the assertions that did not hold.           *)
NewSender(sack) ==
  [sack |-> sack, head |-> 1, sent |-> <<>>, app |-> 0, sentSize |-> 0,
   sackedOut |-> 0, lostOut |-> 0, retransOut |-> 0, hsSeq |-> NoSeq,
   state |-> "OPEN", dupAcks |-> 0, recover |-> 0, recoverActive |-> FALSE,
   out |-> {}, failed |-> {}]

TxInit ==
  /\ snd \in {NewSender(sack) : sack \in BOOLEAN}
  /\ rx = [next |-> 1, held |-> {}, sacks |-> <<>>]
  /\ inNet = {} /\ timeouts = 0

----------------------------------------------------------------------------
(* The transmission buffer.                                                *)

Length(items) == FoldSeq(LAMBDA it, n : n + it.len, 0, items)
Sacked(items) == Length(SelectSeq(items, LAMBDA it : it.sacked))
Lost(items) == Length(SelectSeq(items, LAMBDA it : it.lost))
Retrans(items) == Length(SelectSeq(items, LAMBDA it : it.retrans))

StartSeq(s, i) == s.head + Length(SubSeq(s.sent, 1, i - 1))
SentEnd(s) == s.head + s.sentSize                     \* m_highTxMark
TxSize(s) == s.sentSize + s.app
SizeFromSequence(s, seq) == SentEnd(s) + s.app - seq
BytesInFlight(s) == s.sentSize - (s.sackedOut + s.lostOut) + s.retransOut
Require(s, cond, name) == IF cond THEN s ELSE [s EXCEPT !.failed = @ \cup {name}]

NoHighest(s) == [s EXCEPT !.sent = [i \in DOMAIN @ |-> [@[i] EXCEPT !.hs = FALSE]], !.hsSeq = NoSeq]
HighestAt(s, i) ==
  [s EXCEPT !.sent = [j \in DOMAIN @ |-> [@[j] EXCEPT !.hs = (i = j)]], !.hsSeq = StartSeq(s, i)]
HasHighest(s) == \E i \in DOMAIN s.sent : s.sent[i].hs

MarkLost(s, i) ==
  IF s.sent[i].lost THEN s
  ELSE [s EXCEPT !.sent[i].lost = TRUE, !.lostOut = @ + s.sent[i].len]
UnmarkSacked(s, i) ==
  IF ~s.sent[i].sacked THEN s
  ELSE [s EXCEPT !.sent[i].sacked = FALSE, !.sackedOut = @ - s.sent[i].len]
UnmarkRetrans(s, i) ==
  IF ~s.sent[i].retrans THEN s
  ELSE [s EXCEPT !.sent[i].retrans = FALSE, !.retransOut = @ - s.sent[i].len]

GetNewSegment(s, n) ==
  [s EXCEPT !.app = @ - n, !.sentSize = @ + n,
            !.sent = Append(@, [len |-> n, sacked |-> FALSE, lost |-> FALSE, retrans |-> FALSE,
                                hs |-> FALSE])]

JoinedItems(s, i) ==
  [s EXCEPT !.sent = SubSeq(@, 1, i - 1) \o <<[@[i] EXCEPT !.len = @ + s.sent[i + 1].len]>>
                     \o SubSeq(@, i + 2, Len(@))]
Mergeable(s, i) ==
  /\ s.sent[i].sacked = s.sent[i + 1].sacked
  /\ s.sent[i].lost = s.sent[i + 1].lost
  /\ ~s.sent[i + 1].hs

\* A retransmitted flag that only one of the two items has is taken back.
MergeItems(s, i) ==
  LET r == Require(s, Mergeable(s, i), "merge")
  IN JoinedItems(IF s.sent[i].retrans = s.sent[i + 1].retrans THEN r
            ELSE UnmarkRetrans(UnmarkRetrans(r, i), i + 1), i)

SplitItems(s, i, n) ==
  [s EXCEPT !.sent = SubSeq(@, 1, i - 1)
                     \o <<[@[i] EXCEPT !.len = n, !.hs = FALSE], [@[i] EXCEPT !.len = @ - n]>>
                     \o SubSeq(@, i + 1, Len(@))]

\* Item i is retransmitted, n bytes at most, with the next one when both fit.
TransmittedSize(s, n, i) ==
  IF i < Len(s.sent) /\ ~s.sent[i + 1].sacked /\ s.sent[i + 1].lost = s.sent[i].lost
  THEN Min({n, s.sent[i].len + s.sent[i + 1].len}) ELSE Min({n, s.sent[i].len})
GetPacketFromList(s, i, n) ==
  IF n > s.sent[i].len THEN
    IF n < s.sent[i].len + s.sent[i + 1].len THEN SplitItems(MergeItems(s, i), i, n)
    ELSE MergeItems(s, i)
  ELSE IF n < s.sent[i].len THEN SplitItems(s, i, n) ELSE s
MarkRetrans(s, i) ==
  IF s.sent[i].retrans THEN s
  ELSE [s EXCEPT !.sent[i].retrans = TRUE, !.retransOut = @ + s.sent[i].len]
GetTransmittedSegment(s, n, i) == MarkRetrans(GetPacketFromList(s, i, TransmittedSize(s, n, i)), i)

\* CopyFromSequence: new data, or the item that starts at seq.
Sent(s, seq, i) ==
  Require([s EXCEPT !.out = @ \cup {[seq |-> seq, len |-> s.sent[i].len]}], ~s.sent[i].sacked, "copy")
SentItem(s, seq) == CHOOSE i \in DOMAIN s.sent : StartSeq(s, i) = seq
SendDataPacket(s, seq, max) ==
  IF seq < SentEnd(s)
  THEN Sent(GetTransmittedSegment(s, Min({max, SentEnd(s) - seq}), SentItem(s, seq)),
            seq, SentItem(s, seq))
  ELSE Sent(GetNewSegment(s, Min({max, s.app})), seq, Len(s.sent) + 1)

\* RFC 6675, rules 1, 2 and, in recovery, 3.
NextSeg(s, isRecovery) ==
  LET waiting == {i \in DOMAIN s.sent : ~s.sent[i].retrans /\ ~s.sent[i].sacked}
      lost == {i \in waiting : s.sent[i].lost}
  IN IF lost # {} THEN StartSeq(s, Min(lost))
     ELSE IF s.app > 0 THEN SentEnd(s)
     ELSE IF isRecovery /\ waiting # {} THEN StartSeq(s, Min(waiting))
     ELSE NoSeq

\* The first item from seq on that is marked decides.
IsLost(s, seq) ==
  LET marked == {i \in DOMAIN s.sent : StartSeq(s, i) >= seq /\ (s.sent[i].lost \/ s.sent[i].sacked)}
  IN seq < s.hsSeq /\ marked # {} /\ s.sent[Min(marked)].lost

\* The first item after the head that is not sacked is taken for received.
AddRenoSack(s) ==
  LET free == {i \in 2 .. Len(s.sent) : ~s.sent[i].sacked}
      i == Min(free)
      r == Require(s, Len(s.sent) > (IF s.sack THEN 1 ELSE 0), "reno")
  IN IF free = {} THEN r
     ELSE HighestAt([r EXCEPT !.sent[i].sacked = TRUE, !.sackedOut = @ + s.sent[i].len], i)

MarkHeadAsLost(s) ==
  IF s.sent = <<>> THEN s ELSE MarkLost(UnmarkRetrans(UnmarkSacked(s, 1), 1), 1)

\* From the highest SACK down: an item below RetxThresh sacked ones is lost.
UpdateLostCount(s) ==
  LET high == CHOOSE i \in DOMAIN s.sent : s.sent[i].hs
      above(i) == Cardinality({j \in i .. high : j > 1 /\ s.sent[j].sacked})
      lost == {i \in 1 .. high : above(i) >= RetxThresh /\ (i > 1 => ~s.sent[i].sacked)}
  IN FoldSet(LAMBDA i, t : MarkLost(t, i), s, lost)

\* Mutant: an item that was taken for lost stays so.
SackItem_StillLost(s, block, i) ==
  LET it == s.sent[i]
      from == StartSeq(s, i)
      t == [s EXCEPT !.sent[i].sacked = TRUE, !.sackedOut = @ + it.len]
  IN IF from < block[1] \/ from + it.len > block[2] \/ it.sacked THEN s
     ELSE IF ~HasHighest(s) \/ s.hsSeq <= from + it.len THEN HighestAt(t, i) ELSE t

\* One block of the SACK option against one item.
SackItem(s, block, i) ==
  LET it == s.sent[i]
      from == StartSeq(s, i)
      t == [s EXCEPT !.sent[i].sacked = TRUE, !.sent[i].lost = FALSE,
                     !.sackedOut = @ + it.len, !.lostOut = IF it.lost THEN @ - it.len ELSE @]
  IN IF from < block[1] \/ from + it.len > block[2] \/ it.sacked THEN s
     ELSE IF ~HasHighest(s) \/ s.hsSeq <= from + it.len THEN HighestAt(t, i) ELSE t

\* A block beyond the sent list ends the processing of the option.
UpdateScoreboard(s, blocks) ==
  LET beyond == {b \in DOMAIN blocks : SentEnd(s) < blocks[b][1]}
      used == IF beyond = {} THEN blocks ELSE SubSeq(blocks, 1, Min(beyond) - 1)
      block(t, b) == FoldLeft(LAMBDA u, i : SackItem(u, b, i), t, [i \in DOMAIN s.sent |-> i])
      t == FoldLeft(block, s, used)
  IN IF t = s \/ beyond # {} THEN t ELSE UpdateLostCount(t)

\* Items up to seq leave with their counts; of the one it falls into, a part.
Behind(s, seq) == {i \in DOMAIN s.sent : StartSeq(s, i) + s.sent[i].len <= seq}
After(s, seq, n) ==
  LET rest == SubSeq(s.sent, n + 1, Len(s.sent))
  IN IF rest = <<>> THEN rest ELSE [rest EXCEPT ![1].len = @ - (seq - StartSeq(s, n + 1))]
Keep(s, seq, left) ==
  [s EXCEPT !.head = seq, !.sent = left,
            !.sentSize = @ - (Length(s.sent) - Length(left)),
            !.sackedOut = @ - (Sacked(s.sent) - Sacked(left)),
            !.lostOut = @ - (Lost(s.sent) - Lost(left)),
            !.retransOut = @ - (Retrans(s.sent) - Retrans(left))]

\* The head cannot be sacked: the guess is moved to another item.
MoveSackFromHead(s) ==
  IF s.sent # <<>> /\ s.sent[1].sacked
  THEN MarkHeadAsLost(AddRenoSack(UnmarkSacked(Require(s, ~s.sent[1].lost, "head"), 1)))
  ELSE s
ForgetHighest(s) == IF s.hsSeq <= s.head THEN NoHighest(s) ELSE s

DiscardUpTo(s, seq) ==
  IF seq <= s.head THEN s
  ELSE ForgetHighest(MoveSackFromHead(Keep(s, seq, After(s, seq, Cardinality(Behind(s, seq))))))

----------------------------------------------------------------------------
(* The socket.                                                             *)

RECURSIVE SendPendingData(_, _)
SendNext(s, cwnd, seq, win) ==
  IF win = 0 \/ seq = NoSeq \/ (win < SegmentSize /\ SizeFromSequence(s, seq) > win) THEN s
  ELSE SendPendingData(SendDataPacket(s, seq, Min({win, SegmentSize})), cwnd)
SendPendingData(s, cwnd) ==
  SendNext(s, cwnd, NextSeg(s, s.sack /\ s.state = "RECOVERY"), Max({0, cwnd - BytesInFlight(s)}))

\* The first item marked as lost and not yet sent again, new data, or the head.
Retransmit(s, seq) == SendDataPacket(Require(s, s.sack \/ seq = s.head, "retransmit"), seq, SegmentSize)
DoRetransmit(s) == Retransmit(s, IF NextSeg(s, FALSE) = NoSeq THEN s.head ELSE NextSeg(s, FALSE))

EnterRecovery(s) ==
  LET marked == IF ~s.sack THEN MarkHeadAsLost(AddRenoSack(s))
                ELSE IF IsLost(s, s.head) THEN s ELSE MarkHeadAsLost(s)
  IN DoRetransmit([marked EXCEPT !.recover = SentEnd(s), !.recoverActive = TRUE, !.state = "RECOVERY"])

Disorder(s) ==
  IF s.state = "OPEN" THEN Require([s EXCEPT !.state = "DISORDER"], s.dupAcks = 1, "open")
  ELSE Require(s, s.dupAcks <= RetxThresh \/ s.recoverActive, "disorder")
InDisorder(s) ==
  IF \/ s.dupAcks = RetxThresh /\ (s.head >= s.recover \/ ~s.recoverActive)
     \/ IsLost(s, s.head + SegmentSize)
  THEN EnterRecovery(s)
  ELSE IF s.sack THEN s ELSE AddRenoSack(s)

DupAck(s) ==
  CASE s.state = "LOSS" -> s
    [] s.state = "RECOVERY" -> IF s.sack THEN s ELSE AddRenoSack(s)
    [] OTHER -> InDisorder(Disorder([s EXCEPT !.dupAcks = @ + 1]))

IsRetransmittedDataAcked(s, ack) ==
  \E i \in DOMAIN s.sent :
    StartSeq(s, i) + s.sent[i].len = ack /\ ~s.sent[i].sacked /\ s.sent[i].retrans

\* An ACK in recovery that does not reach the recovery point.
PartialAck(s, ack) ==
  IF IsRetransmittedDataAcked(s, ack + SegmentSize) THEN s ELSE DoRetransmit(s)
NewDataAcked(s, ack, isDupack) ==
  CASE ack < s.recover /\ s.state = "RECOVERY" ->
         PartialAck(IF s.sack THEN s ELSE MarkHeadAsLost(s), ack)
    [] ack < s.recover /\ s.state = "LOSS" -> Require(s, s.sack \/ s.sackedOut = 0, "loss")
    [] OTHER -> [s EXCEPT !.state = IF @ = "DISORDER" /\ isDupack THEN @ ELSE "OPEN",
                          !.dupAcks = IF s.state = "RECOVERY" THEN 0 ELSE @,
                          !.recoverActive = @ /\ ack < s.recover]
CumulativeAck(s, ack, isDupack) ==
  NewDataAcked(IF isDupack THEN s ELSE [s EXCEPT !.dupAcks = 0], ack, isDupack)

\* s is the sender before the ACK, u after it was read.
ProcessAck(s, u, ack, isDupack) ==
  IF ack = s.head THEN (IF isDupack THEN DupAck(u) ELSE u)
  ELSE CumulativeAck(IF isDupack THEN DupAck(u) ELSE u, ack, isDupack)

IsDupAck(s, u, ack) ==
  IF s.sack THEN u.sackedOut > s.sackedOut ELSE ack = s.head /\ ack < SentEnd(s)
AfterUpdate(s, u, ack, cwnd) ==
  IF ack < s.head THEN u
  ELSE SendPendingData(ProcessAck(s, DiscardUpTo(u, ack), ack, IsDupAck(s, u, ack)), cwnd)

ReceivedAck(s, ack, blocks, cwnd) ==
  AfterUpdate(s, IF s.sack THEN UpdateScoreboard(s, blocks) ELSE s, ack, cwnd)

SetSentListLost(s) ==
  LET lose(it) == [it EXCEPT !.lost = s.sack => ~it.sacked, !.sacked = s.sack /\ @, !.retrans = FALSE]
      t == [s EXCEPT !.sent = [i \in DOMAIN @ |-> lose(@[i])]]
  IN IF s.sack THEN t ELSE NoHighest(t)
Recounted(s) ==
  [s EXCEPT !.sackedOut = IF s.sack THEN @ ELSE 0, !.lostOut = Lost(s.sent), !.retransOut = 0]
EnterLoss(s) == [s EXCEPT !.recover = SentEnd(s), !.recoverActive = TRUE, !.state = "LOSS"]
SendOneSegment(s) == SendPendingData(Require(s, BytesInFlight(s) = 0, "rto"), SegmentSize)
AtMostOneSegment(s) == Require(s, BytesInFlight(s) <= SegmentSize, "rto")

\* Mutant: the duplicate ACKs of the time before are still counted.
ReTxTimeout_StillCounts(s) ==
  AtMostOneSegment(SendOneSegment(EnterLoss(Recounted(SetSentListLost(s)))))

\* Everything in flight is taken for lost; without SACK, all guesses are dropped.
ReTxTimeout(s) ==
  AtMostOneSegment(SendOneSegment(EnterLoss(Recounted(SetSentListLost([s EXCEPT !.dupAcks = 0])))))

----------------------------------------------------------------------------
(* The receiver.                                                           *)

\* A new block goes first and takes the blocks it touches; four are kept.
UpdateSackList(sacks, block) ==
  LET touches(b, c) == b[2] = c[1] \/ c[2] = b[1]
      join(b, c) == IF touches(b, c) THEN <<Min({b[1], c[1]}), Max({b[2], c[2]})>> ELSE b
      whole == FoldLeft(join, block, sacks)
      apart == SelectSeq(sacks, LAMBDA c : ~(whole[1] <= c[1] /\ c[2] <= whole[2]))
      list == <<whole>> \o apart
  IN SubSeq(list, 1, Min({4, Len(list)}))

\* The bytes of a segment that the buffer lacks; what they complete is read.
RxAdd(r, seg) ==
  LET new == {b \in seg.seq .. (seg.seq + seg.len - 1) : b >= r.next /\ b \notin r.held}
      all == r.held \cup new
      next == Min({b \in r.next .. (r.next + MaxBytes) : b \notin all})
      sacks == IF new # {} /\ Min(new) > r.next
                 THEN UpdateSackList(r.sacks, <<Min(new), Max(new) + 1>>) ELSE r.sacks
  IN [next |-> next, held |-> {b \in all : b >= next},
      sacks |-> SelectSeq(sacks, LAMBDA c : c[2] > next)]

----------------------------------------------------------------------------
(* The events.                                                             *)

\* What the sender sent goes into the network.
Sends(s, kept) == snd' = [s EXCEPT !.out = {}] /\ inNet' = kept \cup s.out

WriteAndSend(n, cwnd) ==
  /\ SentEnd(snd) + snd.app + n <= MaxBytes + 1
  /\ Sends(SendPendingData([snd EXCEPT !.app = @ + n], cwnd), inNet)
  /\ UNCHANGED <<rx, timeouts>>

\* A segment arrives and its ACK is lost.
ArriveUnacked(seg) ==
  /\ seg \in inNet
  /\ rx' = RxAdd(rx, seg) /\ inNet' = inNet \ {seg}
  /\ UNCHANGED <<snd, timeouts>>

\* A segment arrives and its ACK comes back.
ArriveAcked(seg, cwnd) ==
  /\ seg \in inNet
  /\ rx' = RxAdd(rx, seg)
  /\ Sends(ReceivedAck(snd, rx'.next, rx'.sacks, cwnd), inNet \ {seg})
  /\ UNCHANGED timeouts

Timeout ==
  /\ timeouts < MaxTimeouts /\ TxSize(snd) > 0
  /\ Sends(ReTxTimeout(snd), inNet)
  /\ timeouts' = timeouts + 1 /\ UNCHANGED rx

TxNext ==
  \/ \E n \in 1 .. SegmentSize, cwnd \in CongWindows : WriteAndSend(n, cwnd)
  \/ \E seg \in inNet : ArriveUnacked(seg)
  \/ \E seg \in inNet, cwnd \in CongWindows : ArriveAcked(seg, cwnd)
  \/ Timeout

TxSpec == TxInit /\ [][TxNext]_txVars

----------------------------------------------------------------------------
(* Properties.                                                             *)

TxTypeOK ==
  /\ snd.state \in {"OPEN", "DISORDER", "RECOVERY", "LOSS"}
  /\ {snd.head, snd.sentSize, snd.sackedOut, snd.lostOut, snd.retransOut, snd.dupAcks} \subseteq Nat
  /\ \A i \in DOMAIN snd.sent : snd.sent[i].len \in Nat \ {0}
  /\ rx.next \in Nat /\ rx.held \subseteq Nat /\ timeouts \in 0 .. MaxTimeouts

\* The counters that BytesInFlight is computed from are the sums over the
\* flags of the items, through every split, merge and partial discard: the
\* ConsistencyCheck of tcp-tx-buffer.cc, which is switched off in the code.
CountsMatchFlags ==
  /\ snd.sentSize = Length(snd.sent)
  /\ snd.sackedOut = Sacked(snd.sent)
  /\ snd.lostOut = Lost(snd.sent)
  /\ snd.retransOut = Retrans(snd.sent)

\* No item is sacked and lost, so that the bytes in flight cannot be
\* negative, and the head is never sacked.
FlagsSound ==
  /\ \A i \in DOMAIN snd.sent : ~(snd.sent[i].sacked /\ snd.sent[i].lost)
  /\ snd.sent # <<>> => ~snd.sent[1].sacked

\* What SACK says of an item is so: the receiver has its bytes.  What was
\* acknowledged was received, and nothing not yet acknowledged left the buffer.
ScoreboardTrue ==
  /\ snd.sack => \A i \in DOMAIN snd.sent : snd.sent[i].sacked =>
       StartSeq(snd, i) .. (StartSeq(snd, i) + snd.sent[i].len - 1) \subseteq 1 .. (rx.next - 1) \cup rx.held
  /\ snd.head <= rx.next /\ rx.next <= SentEnd(snd)

\* The assertions of the buffer and of the socket hold.
NoAssertionFails == snd.failed = {}

\* A recovery point is active exactly in recovery and after a timeout, which
\* last no longer than until it is acknowledged; a sender in disorder has seen
\* a duplicate ACK, one that is open has not.
RecoveryBounded ==
  /\ snd.recoverActive <=> snd.state \in {"RECOVERY", "LOSS"}
  /\ snd.recoverActive => snd.head < snd.recover /\ snd.recover <= SentEnd(snd)
  /\ snd.state = "DISORDER" => snd.dupAcks > 0
  /\ snd.state = "OPEN" => snd.dupAcks = 0

\* The scoreboard of a TCP sender is what its recovery relies on it to be.
ScoreboardSound ==
  /\ CountsMatchFlags
  /\ FlagsSound
  /\ ScoreboardTrue
  /\ NoAssertionFails
  /\ RecoveryBounded
=============================================================================
