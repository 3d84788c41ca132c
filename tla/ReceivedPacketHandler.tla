------------------------ MODULE ReceivedPacketHandler ------------------------
(***************************************************************************)
(* ackhandler/received_packet_handler.go: what the receiving side of one   *)
(* path remembers of the packets it has received, and when it acknowledges *)
(* them.  The history is the set of packet numbers that the interval list  *)
(* of ReceivedPacketHistory represents.  A timer is modelled by whether it *)
(* is set, and expires at any time.                                        *)
(***************************************************************************)
EXTENDS Integers, FiniteSets, FiniteSetsExt

CONSTANTS MaxTrackedReceivedAckRanges,      \* protocol.MaxTrackedReceivedAckRanges
          MaxPacketsReceivedBeforeAckSend,  \* protocol.MaxPacketsReceivedBeforeAckSend
          RetransmittablePacketsBeforeAck,  \* protocol.RetransmittablePacketsBeforeAck
          BelowVersion39                    \* h.version < protocol.Version39

ASSUME ReceivedConstants ==
    /\ MaxTrackedReceivedAckRanges \in Nat \ {0}
    /\ MaxPacketsReceivedBeforeAckSend \in Nat
    /\ RetransmittablePacketsBeforeAck \in Nat
    /\ BelowVersion39 \in BOOLEAN

VARIABLES largestObserved, lowerLimit,
          receivedHistory,           \* packetHistory of the receivedPacketHandler
          packetsReceivedSinceLastAck, retransmittablePacketsReceivedSinceLastAck,
          ackQueued, ackAlarm,
          lastAck,                   \* LargestAcked of the last ACK sent, 0 for nil
          receiveError

ackDecisionVars == <<packetsReceivedSinceLastAck,
                     retransmittablePacketsReceivedSinceLastAck, ackQueued, ackAlarm>>

receivedVars == <<largestObserved, lowerLimit, receivedHistory, ackDecisionVars,
                  lastAck, receiveError>>

ReceivedInit ==
    /\ largestObserved = 0 /\ lowerLimit = 0 /\ receivedHistory = {}
    /\ packetsReceivedSinceLastAck = 0
    /\ retransmittablePacketsReceivedSinceLastAck = 0
    /\ ackQueued = FALSE /\ ackAlarm = FALSE
    /\ lastAck = 0 /\ receiveError = FALSE

\* The type of the receiving handler.
ReceivedTypeOK ==
    /\ largestObserved \in Nat
    /\ lowerLimit \in Nat
    /\ receivedHistory \subseteq Nat
    /\ packetsReceivedSinceLastAck \in Nat
    /\ retransmittablePacketsReceivedSinceLastAck \in Nat
    /\ ackQueued \in BOOLEAN
    /\ ackAlarm \in BOOLEAN
    /\ lastAck \in Nat
    /\ receiveError \in BOOLEAN
-----------------------------------------------------------------------------
RangeStarts(S) == {p \in S : p - 1 \notin S}

\* First of GetHighestAckRange, 0 when there is none.
HighestRangeFirst(S) == IF S = {} THEN 0 ELSE Max(RangeStarts(S))

\* The conditions of maybeQueueAck that queue an ACK at once.
AckNow(p, shouldInstigateAck, history) ==
    \/ ackQueued
    \/ lastAck = 0
    \/ BelowVersion39 /\ packetsReceivedSinceLastAck + 1 >= MaxPacketsReceivedBeforeAckSend
    \/ lastAck # 0 /\ p < lastAck
    \/ lastAck # 0 /\ HighestRangeFirst(history) > lastAck
    \/ /\ shouldInstigateAck
       /\ retransmittablePacketsReceivedSinceLastAck + 1 >= RetransmittablePacketsBeforeAck

maybeQueueAck(p, shouldInstigateAck, history) ==
    /\ packetsReceivedSinceLastAck' = packetsReceivedSinceLastAck + 1
    /\ retransmittablePacketsReceivedSinceLastAck' =
          retransmittablePacketsReceivedSinceLastAck + IF shouldInstigateAck THEN 1 ELSE 0
    /\ ackQueued' = AckNow(p, shouldInstigateAck, history)
    /\ ackAlarm' = (~ackQueued' /\ (ackAlarm \/ shouldInstigateAck))

\* Mutation: the least unacked packet itself is forgotten.
LowerLimit_Inclusive(leastUnacked) == leastUnacked

\* The session calls SetLowerLimit with this when it gets a STOP_WAITING frame.
LowerLimit(leastUnacked) == leastUnacked - 1

\* ReceivedPacket, and SetLowerLimit when the packet has a STOP_WAITING frame
\* (leastUnacked # 0): path.handlePacketImpl calls the two in this order.
ReceivedPacket(p, shouldInstigateAck, leastUnacked) ==
    LET kept(history) == IF leastUnacked = 0 THEN history
                         ELSE {q \in history : q > LowerLimit(leastUnacked)}
        limit == IF leastUnacked = 0 THEN lowerLimit ELSE LowerLimit(leastUnacked)
    IN /\ p # 0
       /\ largestObserved' = IF p > largestObserved THEN p ELSE largestObserved
       /\ UNCHANGED lastAck
       /\ \/ /\ p <= lowerLimit
             /\ lowerLimit' = limit
             /\ receivedHistory' = kept(receivedHistory)
             /\ UNCHANGED <<ackDecisionVars, receiveError>>
          \/ /\ p > lowerLimit
             /\ Cardinality(RangeStarts(receivedHistory)) >= MaxTrackedReceivedAckRanges
             /\ receiveError' = TRUE
             /\ UNCHANGED <<lowerLimit, receivedHistory, ackDecisionVars>>
          \/ /\ p > lowerLimit
             /\ Cardinality(RangeStarts(receivedHistory)) < MaxTrackedReceivedAckRanges
             /\ maybeQueueAck(p, shouldInstigateAck, receivedHistory \cup {p})
             /\ lowerLimit' = limit
             /\ receivedHistory' = kept(receivedHistory \cup {p})
             /\ UNCHANGED receiveError

\* Mutation: two ranges are taken for one.
AckFrame_TwoRangesAsOne ==
    [LargestAcked |-> largestObserved,
     LowestAcked  |-> Min(receivedHistory),
     AckRanges    |-> IF Cardinality(RangeStarts(receivedHistory)) > 2
                      THEN receivedHistory ELSE {}]

\* GetAckRanges()[len - 1].First and the ranges; AckRanges is left empty when
\* the history is one range.
AckFrame ==
    [LargestAcked |-> largestObserved,
     LowestAcked  |-> Min(receivedHistory),
     AckRanges    |-> IF Cardinality(RangeStarts(receivedHistory)) > 1
                      THEN receivedHistory ELSE {}]

GetAckFrame ==
    /\ ackQueued \/ ackAlarm
    /\ lastAck' = largestObserved
    /\ ackAlarm' = FALSE /\ ackQueued' = FALSE
    /\ packetsReceivedSinceLastAck' = 0
    /\ retransmittablePacketsReceivedSinceLastAck' = 0
    /\ UNCHANGED <<largestObserved, lowerLimit, receivedHistory, receiveError>>
=============================================================================
