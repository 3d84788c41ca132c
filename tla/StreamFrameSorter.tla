------------------------- MODULE StreamFrameSorter -------------------------
(***************************************************************************)
(* The reassembly queue of one stream (stream_frame_sorter.go): frames may *)
(* arrive in any order, more than once, and cut differently each time they *)
(* are retransmitted.                                                      *)
(*                                                                         *)
(* Byte i of the stream is the number i, so the data of a frame is given   *)
(* by the number of its first byte (first) and its length; first and       *)
(* Offset are kept apart, as Push changes them in separate assignments.    *)
(* The bytes are 0 .. Length-1; MaxByteCount is the end of the last gap.   *)
(***************************************************************************)
EXTENDS Integers, Sequences

CONSTANTS Length,                    \* bytes of the stream
          MaxStreamFrameSorterGaps,
          Segments                   \* the parts <<first byte, end>> that frames carry

MaxByteCount == Length + 1

ASSUME SorterConstants == Length \in Nat /\ MaxStreamFrameSorterGaps \in Nat
                          /\ \A p \in Segments : p[1] \in 0 .. p[2] - 1 /\ p[2] \in 1 .. Length

VARIABLES queuedFrames,   \* Offset -> frame
          readPosition,
          gaps,           \* sequence of intervals [Start, End)
          arrived,        \* bytes of the frames that were accepted
          result          \* of the last Push

sorterVars == <<queuedFrames, readPosition, gaps, arrived, result>>

\* Frames of a sender, which splits a retransmission to fit its packet. The FIN is
\* on the parts with the last byte, or alone.
FinFrame == [Offset |-> Length, first |-> Length, len |-> 0, FinBit |-> TRUE]
SentFrames ==
    {FinFrame} \cup {[Offset |-> p[1], first |-> p[1], len |-> p[2] - p[1],
                      FinBit |-> p[2] = Length] : p \in Segments}

SorterInit ==
    /\ queuedFrames = <<>> /\ readPosition = 0
    /\ gaps = <<[Start |-> 0, End |-> MaxByteCount]>>
    /\ arrived = {} /\ result = "ok"
-----------------------------------------------------------------------------
Queue(q, f) == [o \in DOMAIN q \cup {f.Offset} |-> IF o = f.Offset THEN f ELSE q[o]]
Dequeue(q, S) == [o \in DOMAIN q \ S |-> q[o]]

\* Mutation: the data is not cut with the offset.
CutFront_Data(f, n) == [f EXCEPT !.Offset = @ + n, !.len = @ - n]

CutFront(f, n) == [f EXCEPT !.Offset = @ + n, !.first = @ + n, !.len = @ - n]

CutEnd(f, n) == [f EXCEPT !.len = @ - n]

\* The frame at the same offset is a prefix of this one.
AfterOldFrame(f) ==
    IF f.Offset \in DOMAIN queuedFrames
    THEN CutFront(f, queuedFrames[f.Offset].len) ELSE f

\* The first gap that the frame does not lie behind.
GapIndex(f) == CHOOSE i \in DOMAIN gaps :
    /\ f.Offset + f.len <= gaps[i].Start \/ f.Offset <= gaps[i].End
    /\ \A j \in 1 .. i - 1 : ~(f.Offset + f.len <= gaps[j].Start \/ f.Offset <= gaps[j].End)

\* Mutation: the frame is taken to end in the gap it starts in.
EndGapIndex_First(i, end) == i

\* The highest gap, from gap i on, whose Start lies before the end of the frame.
EndGapIndex(i, end) == CHOOSE k \in i .. Len(gaps) :
    /\ end < gaps[k].End \/ end <= gaps[k + 1].Start
    /\ \A j \in i .. k - 1 : end >= gaps[j].End /\ end > gaps[j + 1].Start

\* The frame g is the part of the pushed frame from its first new byte on; gaps
\* i to k are the ones that it begins and ends in.
Insert(g, i, k) ==
    LET start == g.Offset
        end == g.Offset + g.len
        cut == IF end > gaps[k].End THEN end - gaps[k].End ELSE 0
        h == CutEnd(g, cut)
        before == IF start = gaps[i].Start THEN <<>>
                  ELSE <<[Start |-> gaps[i].Start, End |-> start]>>
        after == IF end - cut < gaps[k].End
                 THEN <<[Start |-> end - cut, End |-> gaps[k].End]>> ELSE <<>>
        rest == Dequeue(queuedFrames, {gaps[j].End : j \in i .. k - 1})
    IN /\ gaps' = SubSeq(gaps, 1, i - 1) \o before \o after \o SubSeq(gaps, k + 1, Len(gaps))
       /\ IF Len(gaps') > MaxStreamFrameSorterGaps
          THEN queuedFrames' = rest /\ result' = "errTooManyGapsInReceivedStreamData"
          ELSE queuedFrames' = Queue(rest, h) /\ result' = "ok"

Push(frame) ==
    LET f == AfterOldFrame(frame)
        i == GapIndex(f)
        g == IF f.Offset < gaps[i].Start THEN CutFront(f, gaps[i].Start - f.Offset) ELSE f
    IN /\ arrived' = arrived \cup frame.Offset .. frame.Offset + frame.len - 1
       /\ UNCHANGED readPosition
       /\ IF frame.len = 0
          THEN /\ queuedFrames' = Queue(queuedFrames, frame)
               /\ result' = "ok" /\ UNCHANGED gaps
          ELSE IF f.len <= 0 \/ f.Offset + f.len <= gaps[i].Start
          THEN result' = "errDuplicateStreamData" /\ UNCHANGED <<queuedFrames, gaps>>
          ELSE Insert(g, i, EndGapIndex(i, g.Offset + g.len))

HasHead == readPosition \in DOMAIN queuedFrames
HeadFrame == queuedFrames[readPosition]

Pop ==
    /\ HasHead
    /\ readPosition' = readPosition + HeadFrame.len
    /\ queuedFrames' = Dequeue(queuedFrames, {HeadFrame.Offset})
    /\ UNCHANGED <<gaps, arrived, result>>
-----------------------------------------------------------------------------
\* Every byte that arrived is read, once and in its place: a frame queued under an
\* offset holds the data of that offset, and from the read position and from the
\* end of every gap the frames that Pop will find follow each other without a hole
\* up to the next gap, whatever stale frames the queue still holds besides.
NothingLost ==
    /\ \A o \in DOMAIN queuedFrames : queuedFrames[o].Offset = o /\ queuedFrames[o].first = o
    /\ result # "errTooManyGapsInReceivedStreamData" =>
          \E found \in SUBSET DOMAIN queuedFrames :
             /\ \A b \in arrived \cap readPosition .. Length :
                   b = readPosition \/ b - 1 \notin arrived => b \in found
             /\ \A o \in found : LET end == o + queuedFrames[o].len
                                IN  /\ end > o /\ o .. end - 1 \subseteq arrived
                                    /\ end \in found \/ end \notin arrived
=============================================================================
