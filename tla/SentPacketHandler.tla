-------------------------- MODULE SentPacketHandler --------------------------
(***************************************************************************)
(* ackhandler/sent_packet_handler.go and stop_waiting_manager.go: what the *)
(* sending side of one path keeps about the packets it has sent.           *)
(*                                                                         *)
(* Packets are pushed to the history in increasing order of their numbers, *)
(* so the list is modelled by the set of its packet numbers: its front is  *)
(* the least and its back the greatest member.  The retransmission queue   *)
(* is drained in one loop by the scheduler, so it is a set too.  A time    *)
(* that is compared with the zero time is modelled by whether it is set.   *)
(***************************************************************************)
EXTENDS Integers, FiniteSets, FiniteSetsExt

CONSTANTS MaxPacketNumber,           \* bound on the packet numbers sent
          Length,                    \* the length of the packet with a given number
          CongestionWindow,          \* external: congestion.GetCongestionWindow()
          MaxTrackedSentPackets,     \* protocol.MaxTrackedSentPackets
          MaxTrackedSkippedPackets,  \* protocol.MaxTrackedSkippedPackets
          maxTailLossProbes

PacketNumbers == 1 .. MaxPacketNumber

ASSUME SentConstants ==
    /\ MaxPacketNumber \in Nat
    /\ Length \in [PacketNumbers -> Nat]
    /\ CongestionWindow \in Nat
    /\ MaxTrackedSentPackets \in Nat
    /\ MaxTrackedSkippedPackets \in Nat
    /\ maxTailLossProbes \in Nat

VARIABLES lastSentPacketNumber, skippedPackets, numNonRetransmittablePackets,
          LargestAcked, largestReceivedPacketWithAck,
          packetHistory,             \* packets sent and neither acked nor lost
          retransmissionQueue,       \* packets lost and not yet dequeued
          bytesInFlight, tlpCount,
          lossTime, alarm,           \* is the time set?
          nextLeastUnacked, largestLeastUnackedSent,
          lastStopWaitingFrame,      \* its LeastUnacked, 0 for nil
          sendError                  \* the error that closes the session

stopWaitingVars == <<nextLeastUnacked, largestLeastUnackedSent, lastStopWaitingFrame>>

sentVars == <<lastSentPacketNumber, skippedPackets, numNonRetransmittablePackets,
              LargestAcked, largestReceivedPacketWithAck, packetHistory,
              retransmissionQueue, bytesInFlight, tlpCount, lossTime, alarm,
              stopWaitingVars, sendError>>

SentInit ==
    /\ lastSentPacketNumber = 0 /\ skippedPackets = {}
    /\ numNonRetransmittablePackets = 0
    /\ LargestAcked = 0 /\ largestReceivedPacketWithAck = 0
    /\ packetHistory = {} /\ retransmissionQueue = {}
    /\ bytesInFlight = 0 /\ tlpCount = 0
    /\ lossTime = FALSE /\ alarm = FALSE
    /\ nextLeastUnacked = 0 /\ largestLeastUnackedSent = 0 /\ lastStopWaitingFrame = 0
    /\ sendError = "none"

\* The type of the sending handler.
SentTypeOK ==
    /\ lastSentPacketNumber \in Nat
    /\ skippedPackets \subseteq Nat
    /\ numNonRetransmittablePackets \in Nat
    /\ LargestAcked \in Nat
    /\ largestReceivedPacketWithAck \in Nat
    /\ packetHistory \subseteq PacketNumbers
    /\ retransmissionQueue \subseteq PacketNumbers
    /\ tlpCount \in Nat
    /\ lossTime \in BOOLEAN
    /\ alarm \in BOOLEAN
    /\ nextLeastUnacked \in Nat
    /\ largestLeastUnackedSent \in Nat
    /\ lastStopWaitingFrame \in Nat
    /\ sendError \in {"none", "tooManyTracked", "ackForUnsent", "ackForSkipped"}
-----------------------------------------------------------------------------
Bytes(S) == MapThenSumSet(LAMBDA p : Length[p], S)

largestInOrderAcked == IF packetHistory # {} THEN Min(packetHistory) - 1 ELSE LargestAcked

SendingAllowed ==
    /\ ~(Cardinality(retransmissionQueue) + Cardinality(packetHistory) >= MaxTrackedSentPackets)
    /\ bytesInFlight <= CongestionWindow \/ retransmissionQueue # {}

\* LeastUnacked of the frame that GetStopWaitingFrame(force) returns, 0 for nil.
StopWaiting(force) ==
    IF nextLeastUnacked > largestLeastUnackedSent THEN nextLeastUnacked
    ELSE IF ~force THEN 0
    ELSE IF lastStopWaitingFrame = 0 /\ largestLeastUnackedSent > 0 THEN nextLeastUnacked
    ELSE lastStopWaitingFrame

GetStopWaitingFrame(force) ==
    /\ largestLeastUnackedSent' = IF nextLeastUnacked > largestLeastUnackedSent
                                  THEN nextLeastUnacked ELSE largestLeastUnackedSent
    /\ lastStopWaitingFrame' = IF StopWaiting(force) # 0 THEN StopWaiting(force)
                               ELSE lastStopWaitingFrame
    /\ UNCHANGED nextLeastUnacked

\* Mutation: no retransmission timeout after the tail loss probes.
updateLossDetectionAlarm_NoRTO ==
    alarm' = (packetHistory' # {} /\ tlpCount < maxTailLossProbes)

\* The alarm is set while packets are outstanding, for the loss time, a tail
\* loss probe or a retransmission timeout.
updateLossDetectionAlarm == alarm' = (packetHistory' # {})

\* The numbers between two packets were skipped; only the newest are kept.
Skipped(pn) ==
    LET all == skippedPackets \cup (lastSentPacketNumber + 1 .. pn - 1)
    IN {p \in all : Cardinality({q \in all : q >= p}) <= MaxTrackedSkippedPackets}

\* queued is the retransmission queue at the time of the call.
SentPacket(pn, retransmittable, queued) ==
    IF Cardinality(queued) + Cardinality(packetHistory) + 1 > MaxTrackedSentPackets
    THEN /\ sendError' = "tooManyTracked"
         /\ UNCHANGED <<lastSentPacketNumber, skippedPackets, numNonRetransmittablePackets,
                        packetHistory, bytesInFlight, alarm>>
    ELSE /\ skippedPackets' = Skipped(pn)
         /\ lastSentPacketNumber' = pn
         /\ IF retransmittable
            THEN /\ bytesInFlight' = bytesInFlight + Length[pn]
                 /\ packetHistory' = packetHistory \cup {pn}
                 /\ numNonRetransmittablePackets' = 0
            ELSE /\ numNonRetransmittablePackets' = numNonRetransmittablePackets + 1
                 /\ UNCHANGED <<bytesInFlight, packetHistory>>
         /\ updateLossDetectionAlarm
         /\ UNCHANGED sendError

\* Mutation: one packet too many.
LeastUnackedAfter_Next(n) == IF n >= nextLeastUnacked THEN n + 2 ELSE nextLeastUnacked

\* The next least unacked packet once packet n is acknowledged or queued for
\* retransmission.
LeastUnackedAfter(n) == IF n >= nextLeastUnacked THEN n + 1 ELSE nextLeastUnacked

\* Mutation: the queue is replaced instead of extended.
QueuePacketsForRetransmission_Replace(S) ==
    /\ packetHistory' = packetHistory \ S
    /\ retransmissionQueue' = S
    /\ bytesInFlight' = bytesInFlight - Bytes(S)
    /\ nextLeastUnacked' = IF S # {} THEN LeastUnackedAfter(Max(S)) ELSE nextLeastUnacked
    /\ UNCHANGED <<largestLeastUnackedSent, lastStopWaitingFrame>>

\* The packets in S leave the history for the retransmission queue.
QueuePacketsForRetransmission(S) ==
    /\ packetHistory' = packetHistory \ S
    /\ retransmissionQueue' = retransmissionQueue \cup S
    /\ bytesInFlight' = bytesInFlight - Bytes(S)
    /\ nextLeastUnacked' = IF S # {} THEN LeastUnackedAfter(Max(S)) ELSE nextLeastUnacked
    /\ UNCHANGED <<largestLeastUnackedSent, lastStopWaitingFrame>>

\* detectLostPackets looks at the packets up to the largest acknowledged one.
\* Send times grow with the packet numbers, so the packets sent longer ago than
\* delayUntilLost precede the others; the loss timer is set for the first of
\* the others.
LossCandidates(history, largestAcked) == {p \in history : p <= largestAcked}

LostPrefixes(candidates) ==
    {{p \in candidates : p < n} : n \in candidates} \cup {candidates}

\* Mutation: the ranges of the frame are ignored.
AcksPacket_Cumulative(f, p) == f.LowestAcked <= p /\ p <= f.LargestAcked

AcksPacket(f, p) == IF f.AckRanges # {} THEN p \in f.AckRanges
                    ELSE f.LowestAcked <= p /\ p <= f.LargestAcked

NewlyAcked(f) == {p \in packetHistory : AcksPacket(f, p)}

\* The peer acknowledges a packet that was never sent.
AckForUnsentPacket(f) ==
    /\ f.LargestAcked > lastSentPacketNumber
    /\ sendError' = "ackForUnsent"
    /\ UNCHANGED <<lastSentPacketNumber, skippedPackets, numNonRetransmittablePackets,
                   LargestAcked, largestReceivedPacketWithAck, packetHistory,
                   retransmissionQueue, bytesInFlight, tlpCount, lossTime, alarm,
                   stopWaitingVars>>

\* ErrDuplicateOrOutOfOrderAck, which the session ignores.
DuplicateOrOutOfOrderAck(f, withPacketNumber) ==
    /\ f.LargestAcked <= lastSentPacketNumber
    /\ withPacketNumber <= largestReceivedPacketWithAck
    /\ UNCHANGED sentVars

FreshAck(f, withPacketNumber) ==
    /\ f.LargestAcked <= lastSentPacketNumber
    /\ withPacketNumber > largestReceivedPacketWithAck
    /\ largestReceivedPacketWithAck' = withPacketNumber

\* An ACK that does not reach the oldest outstanding packet.
RepeatedAck(f, withPacketNumber) ==
    /\ FreshAck(f, withPacketNumber)
    /\ f.LargestAcked <= largestInOrderAcked
    /\ UNCHANGED <<lastSentPacketNumber, skippedPackets, numNonRetransmittablePackets,
                   LargestAcked, packetHistory, retransmissionQueue, bytesInFlight,
                   tlpCount, lossTime, alarm, stopWaitingVars, sendError>>

AckForSkippedPacket(f, withPacketNumber) ==
    /\ FreshAck(f, withPacketNumber)
    /\ f.LargestAcked > largestInOrderAcked
    /\ \E p \in skippedPackets : AcksPacket(f, p)
    /\ LargestAcked' = f.LargestAcked
    /\ sendError' = "ackForSkipped"
    /\ UNCHANGED <<lastSentPacketNumber, skippedPackets, numNonRetransmittablePackets,
                   packetHistory, retransmissionQueue, bytesInFlight, tlpCount,
                   lossTime, alarm, stopWaitingVars>>

NewAck(f, withPacketNumber) ==
    /\ FreshAck(f, withPacketNumber)
    /\ f.LargestAcked > largestInOrderAcked
    /\ ~\E p \in skippedPackets : AcksPacket(f, p)
    /\ LargestAcked' = f.LargestAcked
    /\ tlpCount' = IF NewlyAcked(f) # {} THEN 0 ELSE tlpCount
    /\ LET candidates == LossCandidates(packetHistory \ NewlyAcked(f), f.LargestAcked)
       IN \E lost \in LostPrefixes(candidates) :
             /\ packetHistory' = (packetHistory \ NewlyAcked(f)) \ lost
             /\ retransmissionQueue' = retransmissionQueue \cup lost
             /\ bytesInFlight' = bytesInFlight - Bytes(NewlyAcked(f)) - Bytes(lost)
             /\ lossTime' = (lost # candidates)
    /\ updateLossDetectionAlarm
    /\ skippedPackets' = {p \in skippedPackets : p > largestInOrderAcked'}
    \* the lost packets are not above LargestAcked, so they do not count here
    /\ nextLeastUnacked' = LeastUnackedAfter(f.LargestAcked)
    /\ UNCHANGED <<lastSentPacketNumber, numNonRetransmittablePackets,
                   largestLeastUnackedSent, lastStopWaitingFrame, sendError>>

ReceivedAck(f, withPacketNumber) ==
    \/ AckForUnsentPacket(f)
    \/ DuplicateOrOutOfOrderAck(f, withPacketNumber)
    \/ RepeatedAck(f, withPacketNumber)
    \/ AckForSkippedPacket(f, withPacketNumber)
    \/ NewAck(f, withPacketNumber)

\* A CLOSE_PATH frame that acknowledges an unsent packet, or that comes with a
\* packet number that has brought an acknowledgement; the session ignores the
\* errors.
ClosePathRefused(f, withPacketNumber) ==
    /\ \/ f.LargestAcked > lastSentPacketNumber
       \/ withPacketNumber <= largestReceivedPacketWithAck
    /\ UNCHANGED sentVars

ClosePathForSkippedPacket(f, withPacketNumber) ==
    /\ FreshAck(f, withPacketNumber)
    /\ \E p \in skippedPackets : AcksPacket(f, p)
    /\ UNCHANGED <<lastSentPacketNumber, skippedPackets, numNonRetransmittablePackets,
                   LargestAcked, packetHistory, retransmissionQueue, bytesInFlight,
                   tlpCount, lossTime, alarm, stopWaitingVars, sendError>>

\* The acknowledged packets leave the history; SetInflightAsLost then queues what
\* remains of it up to LargestAcked, which a CLOSE_PATH frame does not advance.
\* Neither the loss time nor the alarm is updated.
ClosePathTaken(f, withPacketNumber) ==
    LET inflight == packetHistory \ NewlyAcked(f)
        lost == LossCandidates(inflight, LargestAcked)
    IN /\ FreshAck(f, withPacketNumber)
       /\ ~\E p \in skippedPackets : AcksPacket(f, p)
       /\ UNCHANGED <<lastSentPacketNumber, numNonRetransmittablePackets, LargestAcked, lossTime,
                      alarm, largestLeastUnackedSent, lastStopWaitingFrame, sendError>>
       /\ tlpCount' = IF NewlyAcked(f) # {} THEN 0 ELSE tlpCount
       /\ packetHistory' = inflight \ lost
       /\ retransmissionQueue' = retransmissionQueue \cup lost
       /\ bytesInFlight' = bytesInFlight - Bytes(NewlyAcked(f)) - Bytes(lost)
       /\ nextLeastUnacked' = IF lost # {} THEN LeastUnackedAfter(Max(lost)) ELSE nextLeastUnacked
       /\ skippedPackets' = {p \in skippedPackets : p > largestInOrderAcked'}

ReceivedClosePath(f, withPacketNumber) ==
    \/ ClosePathRefused(f, withPacketNumber)
    \/ ClosePathForSkippedPacket(f, withPacketNumber)
    \/ ClosePathTaken(f, withPacketNumber)

alarmUnchanged == <<lastSentPacketNumber, skippedPackets, numNonRetransmittablePackets,
                    LargestAcked, largestReceivedPacketWithAck, sendError>>

\* Early retransmit: the alarm expires after lossTime, so the packet for which
\* lossTime was set is lost now, unless a CLOSE_PATH frame has been faster.
OnLossAlarm ==
    /\ packetHistory # {} /\ lossTime
    /\ LET candidates == LossCandidates(packetHistory, LargestAcked)
       IN \E lost \in LostPrefixes(candidates) :
             /\ candidates # {} => lost # {}
             /\ QueuePacketsForRetransmission(lost)
             /\ lossTime' = (lost # candidates)
    /\ UNCHANGED tlpCount

OnTailLossProbe ==
    /\ packetHistory # {} /\ ~lossTime /\ tlpCount < maxTailLossProbes
    /\ QueuePacketsForRetransmission({Max(packetHistory)})
    /\ tlpCount' = tlpCount + 1
    /\ UNCHANGED lossTime

OldestTwo(S) == {p \in S : Cardinality({q \in S : q < p}) < 2}

\* onRTOCallback reports whether the path may have failed.
OnRTO(potentiallyFailed) ==
    /\ packetHistory # {} /\ ~lossTime /\ tlpCount >= maxTailLossProbes
    /\ QueuePacketsForRetransmission(IF potentiallyFailed THEN packetHistory
                                     ELSE OldestTwo(packetHistory))
    /\ UNCHANGED <<tlpCount, lossTime>>

\* Nothing is outstanding: the alarm is cancelled.
OnIdleAlarm ==
    /\ packetHistory = {}
    /\ UNCHANGED <<packetHistory, retransmissionQueue, bytesInFlight, stopWaitingVars,
                   tlpCount, lossTime>>

OnAlarm(potentiallyFailed) ==
    /\ alarm
    /\ OnIdleAlarm \/ OnLossAlarm \/ OnTailLossProbe \/ OnRTO(potentiallyFailed)
    /\ updateLossDetectionAlarm
    /\ UNCHANGED alarmUnchanged

\* The scheduler calls DequeuePacketForRetransmission until it returns nil.
DequeuePacketsForRetransmission == retransmissionQueue' = {}
=============================================================================
