---------------------------- MODULE AckPathProofs ----------------------------
(***************************************************************************)
(* Proofs about AckPath for every number of packets, every window, every   *)
(* limit and any behaviour of the network.                                 *)
(***************************************************************************)
EXTENDS AckPath, FiniteSets, FiniteSetsExt, FiniteSetTheorems, WellFoundedInduction, TLAPS

-----------------------------------------------------------------------------
(* Finite sets of packet numbers: the front and the back of a list that is kept in ascending order
   are the least and the greatest member of the set it represents. *)

\* A set of numbers that is not empty has a least member.
LEMMA LeastExists ==
    ASSUME NEW S, S \subseteq Nat, S # {}
    PROVE  \E x \in S : \A y \in S : x <= y
<1>1. PICK x \in S : \A y \in S : ~(<<y, x>> \in OpToRel(<, Nat))
  BY WFMin, NatLessThanWellFounded, Zenon
<1>2. \A y \in S : ~(y < x)
  BY <1>1, Zenon DEF OpToRel
<1> QED BY <1>2

\* Min, which models the front of a list, is that member.
LEMMA MinIsLeast ==
    ASSUME NEW S, S \subseteq Nat, S # {}
    PROVE  Min(S) \in S /\ \A y \in S : Min(S) <= y
BY LeastExists, Zenon DEF Min

\* Max is the greatest member of a bounded set of naturals.
LEMMA MaxOfNaturals ==
    ASSUME NEW S, NEW n \in Nat, S \subseteq 0 .. n, S # {}
    PROVE  Max(S) \in S /\ \A y \in S : Max(S) >= y
<1> DEFINE T == {n - x : x \in S}
<1>1. T \subseteq Nat /\ T # {}
  <2>1. \A x \in S : n - x \in Nat
    OBVIOUS
  <2>2. PICK x \in S : TRUE
    BY Zenon
  <2>3. n - x \in T
    BY <2>2
  <2> QED BY <2>1, <2>3
<1>2. PICK t \in T : \A y \in T : t <= y
  BY <1>1, LeastExists, Zenon
<1>3. PICK x \in S : t = n - x
  BY <1>2
<1>4. \A y \in S : x >= y
  <2> TAKE y \in S
  <2>1. n - x <= n - y
    BY <1>2, <1>3
  <2> QED BY <2>1
<1> QED BY <1>4, Zenon DEF Max

\* Max models the back of a list of packet numbers, which start at 1.
LEMMA MaxIsGreatest ==
    ASSUME NEW S, NEW n \in Nat, S \subseteq 1 .. n, S # {}
    PROVE  Max(S) \in S /\ \A y \in S : Max(S) >= y
<1>1. S \subseteq 0 .. n
  OBVIOUS
<1> QED BY <1>1, MaxOfNaturals, Zenon

\* A set with a hole has two members whose predecessor is not in it.
LEMMA TwoRangeStarts ==
    ASSUME NEW S, NEW n \in Nat, S \subseteq 1 .. n,
           NEW low \in S, NEW high \in S, NEW p \in Nat,
           low <= p, p <= high, p \notin S
    PROVE  Cardinality({q \in S : q - 1 \notin S}) > 1
<1> DEFINE Starts == {q \in S : q - 1 \notin S}
           Above == {q \in S : q > p}
<1>1. S \subseteq Nat
  OBVIOUS
<1>2. Min(S) \in S /\ Min(S) <= low /\ \A y \in S : Min(S) <= y
  BY <1>1, MinIsLeast, Zenon
<1>3. Min(S) \in Starts
  <2>1. Min(S) \in Nat
    BY <1>1, <1>2, Zenon
  <2>2. Min(S) - 1 \notin S
    BY <1>2, <2>1
  <2> QED BY <1>2, <2>2
<1>4. Above \subseteq Nat /\ Above # {}
  <2>1. high > p
    BY <1>1
  <2> QED BY <2>1, <1>1, Zenon
<1> DEFINE m == Min(Above)
<1>5. m \in Above /\ \A y \in Above : m <= y
  BY <1>4, MinIsLeast
<1>6. m \in Starts
  <2>1. m \in Nat /\ m > p /\ m \in S
    BY <1>5, <1>1, Zenon
  <2>2. m - 1 \notin Above
    BY <1>5, <2>1
  <2>3. m - 1 # p => m - 1 > p
    BY <2>1
  <2>4. m - 1 \notin S
    BY <2>2, <2>3
  <2> QED BY <2>1, <2>4
<1>7. Min(S) # m
  <2>1. m > p /\ m \in Nat /\ Min(S) \in Nat
    BY <1>5, <1>1, <1>2, Zenon
  <2> HIDE DEF m
  <2> QED BY <2>1, <1>2, <1>1
<1> HIDE DEF m
<1>8. Cardinality({Min(S), m}) = 2 /\ IsFiniteSet({Min(S), m})
  <2>1. IsFiniteSet({m}) /\ Cardinality({m}) = 1
    BY FS_Singleton, Zenon
  <2>2. {Min(S), m} = {m} \cup {Min(S)}
    OBVIOUS
  <2> QED BY <2>1, <2>2, <1>7, FS_AddElement, SMTT(30)
<1>9. IsFiniteSet(1 .. n)
  BY FS_Interval
<1>10. IsFiniteSet(Starts)
  <2>1. Starts \in SUBSET (1 .. n)
    BY Zenon
  <2> QED BY <1>9, <2>1, FS_Subset
<1>11. Cardinality({Min(S), m}) <= Cardinality(Starts)
  <2>1. {Min(S), m} \in SUBSET Starts
    BY <1>3, <1>6
  <2> HIDE DEF Starts
  <2> QED BY <1>10, <2>1, FS_Subset
<1>12. Cardinality(Starts) \in Nat
  BY <1>10, FS_CardinalityType
<1> QED BY <1>8, <1>11, <1>12

-----------------------------------------------------------------------------
(* The inductive invariant *)

\* The sender's books are about packets it has sent, and what STOP_WAITING
\* announces next is at most the number of the next packet.
SenderInv ==
    /\ lastSentPacketNumber \in 0 .. MaxPacketNumber
    /\ packetHistory \subseteq 1 .. lastSentPacketNumber
    /\ retransmissionQueue \subseteq 1 .. lastSentPacketNumber
    /\ skippedPackets \subseteq 1 .. lastSentPacketNumber
    /\ \A p \in Nat : p > lastSentPacketNumber => nextLeastUnacked <= p
    /\ lastStopWaitingFrame <= nextLeastUnacked

NetworkInv ==
    /\ \A m \in packets : m.pn <= lastSentPacketNumber /\ m.pn \notin skippedPackets
    /\ StopWaitingBelowPacket
    /\ \A p \in delivered : \E m \in packets : m.pn = p

\* As long as the receiver has not failed the largest packet it has observed is
\* in its history, above the limit that STOP_WAITING frames have set.
ReceiverInv ==
    /\ receivedHistory \subseteq delivered
    /\ largestObserved # 0 => largestObserved \in delivered
    /\ \A p \in receivedHistory : p <= largestObserved
    /\ ackQueued \/ ackAlarm => largestObserved # 0
    /\ ~receiveError => IF largestObserved = 0 THEN lowerLimit = 0
                        ELSE /\ largestObserved \in receivedHistory
                             /\ lowerLimit < largestObserved

\* ACK frames on their way are about packets that have arrived, and a later one
\* reports a larger packet.
AcksInv ==
    /\ \A a \in ackPackets :
          /\ a.pn <= lastAckPacket
          /\ a.frame.LargestAcked <= largestObserved
          /\ \A p \in PacketNumbers : AcksPacket(a.frame, p) => p \in delivered
          /\ a.pn > largestReceivedPacketWithAck => a.frame.LargestAcked >= LargestAcked
    /\ \A a, b \in ackPackets : a.pn <= b.pn => a.frame.LargestAcked <= b.frame.LargestAcked
    /\ LargestAcked <= largestObserved
    /\ largestReceivedPacketWithAck <= lastAckPacket

\* CLOSE_PATH frames are about packets that have arrived.
CloseInv ==
    \A c \in closePackets :
          /\ c.pn <= lastAckPacket
          /\ c.frame.LargestAcked <= largestObserved
          /\ \A p \in PacketNumbers : AcksPacket(c.frame, p) => p \in delivered

IInv == TypeOK /\ SenderInv /\ NetworkInv /\ ReceiverInv /\ AcksInv /\ CloseInv /\ NoFalseAck /\ NoAckRejected
-----------------------------------------------------------------------------
\* Nothing is sent or received at first.
LEMMA InitIInv == Init => IInv
<1> SUFFICES ASSUME Init PROVE IInv
  OBVIOUS
<1> USE DEF Init, SentInit, ReceivedInit
<1>1. TypeOK
  BY Zenon DEF TypeOK, SentTypeOK, ReceivedTypeOK
<1>2. SenderInv /\ NetworkInv
  BY SentConstants DEF SenderInv, NetworkInv, StopWaitingBelowPacket
<1>3. ReceiverInv /\ AcksInv /\ CloseInv
  BY DEF ReceiverInv, AcksInv, CloseInv
<1>4. NoFalseAck /\ NoAckRejected
  BY DEF NoFalseAck, NoAckRejected
<1> QED BY <1>1, <1>2, <1>3, <1>4 DEF IInv

\* A STOP_WAITING frame announces at most the next least unacked packet.
LEMMA StopWaitingBound ==
    ASSUME SentTypeOK, SenderInv, NEW force \in BOOLEAN
    PROVE  StopWaiting(force) \in Nat /\ StopWaiting(force) <= nextLeastUnacked
BY DEF SentTypeOK, SenderInv, StopWaiting

\* The frame that GetAckFrame builds is about the packets of the history: when
\* the ranges are left out the history has no hole.
LEMMA AckFrameExact ==
    ASSUME TypeOK, ReceiverInv, ~receiveError, ackQueued \/ ackAlarm \/ receivedHistory # {}
    PROVE  /\ receivedHistory # {}
           /\ AckFrame \in [LargestAcked : Nat, LowestAcked : Nat, AckRanges : SUBSET Nat]
           /\ {p \in PacketNumbers : AcksPacket(AckFrame, p)} = receivedHistory
<1>1. /\ largestObserved \in receivedHistory
      /\ receivedHistory \subseteq Nat
      /\ receivedHistory \subseteq 1 .. MaxPacketNumber
      /\ \A p \in receivedHistory : p <= largestObserved
  <2>1. /\ receivedHistory \subseteq Nat
        /\ receivedHistory \subseteq 1 .. MaxPacketNumber
        /\ \A p \in receivedHistory : p <= largestObserved
    BY DEF TypeOK, ReceivedTypeOK, ReceiverInv, PacketNumbers
  <2>2. largestObserved # 0
    <3>1. CASE ackQueued \/ ackAlarm
      BY <3>1, Zenon DEF ReceiverInv
    <3>2. CASE receivedHistory # {}
      <4>1. PICK p \in receivedHistory : p \in 1 .. MaxPacketNumber /\ p <= largestObserved
        BY <2>1, <3>2, Zenon
      <4> QED BY <4>1, SentConstants
    <3> QED BY <3>1, <3>2
  <2> QED BY <2>1, <2>2 DEF ReceiverInv
<1> DEFINE S == receivedHistory
           low == Min(receivedHistory)
<1>2. low \in S /\ low \in Nat /\ \A p \in S : low <= p
  BY <1>1, MinIsLeast, Zenon
<1>3. AckFrame.AckRanges # {} => AckFrame.AckRanges = S
  BY DEF AckFrame
<1>4. AckFrame.AckRanges = {} => \A p \in PacketNumbers :
                                    low <= p /\ p <= largestObserved => p \in S
  <2> SUFFICES ASSUME AckFrame.AckRanges = {}, NEW p \in PacketNumbers,
                      low <= p, p <= largestObserved, p \notin S
               PROVE  FALSE
    OBVIOUS
  <2>1. Cardinality({q \in S : q - 1 \notin S}) > 1
    <3>1. p \in Nat /\ p <= largestObserved /\ largestObserved \in S /\ S \subseteq 1 .. MaxPacketNumber
      BY <1>1 DEF PacketNumbers
    <3> HIDE DEF S, low
    <3> QED BY <1>2, <3>1, TwoRangeStarts, SentConstants, Zenon
  <2> QED BY <2>1, <1>1 DEF AckFrame, RangeStarts
<1>5. AckFrame.LowestAcked = low /\ AckFrame.LargestAcked = largestObserved
  BY DEF AckFrame
<1>6. AckFrame \in [LargestAcked : Nat, LowestAcked : Nat, AckRanges : SUBSET Nat]
  BY <1>1, <1>2 DEF AckFrame
<1>7. \A p \in PacketNumbers : AcksPacket(AckFrame, p) <=> p \in S
  <2> TAKE p \in PacketNumbers
  <2>1. CASE AckFrame.AckRanges # {}
    BY <2>1, <1>3 DEF AcksPacket
  <2>2. CASE AckFrame.AckRanges = {}
    BY <2>2, <1>1, <1>2, <1>4, <1>5, Zenon DEF AcksPacket
  <2> QED BY <2>1, <2>2
<1> QED BY <1>1, <1>6, <1>7, Zenon DEF PacketNumbers

\* Sending a packet, with or without data; what the two senders do to the queue
\* and to the frames is left open.
LEMMA TransmitStep ==
    ASSUME IInv, NEW pn \in NextNumbers, NEW lu \in Nat, lu <= pn,
           NEW d \in Data \cup {NoData}, NEW queued, NEW force \in BOOLEAN,
           Transmit(pn, lu, d, queued),
           GetStopWaitingFrame(force) \/ UNCHANGED stopWaitingVars,
           retransmissionQueue' \subseteq retransmissionQueue,
           pending' \subseteq pending,
           retransmissions' \subseteq Data \cup {NoData},
           pureAcks' \in Nat
    PROVE  IInv'
<1> USE DEF IInv, Transmit
<1>1. /\ pn \in PacketNumbers /\ pn > lastSentPacketNumber
      /\ pn \in Nat /\ pn <= MaxPacketNumber /\ lastSentPacketNumber \in Nat
  BY DEF NextNumbers, PacketNumbers, TypeOK, SentTypeOK
<1>2. /\ nextLeastUnacked' = nextLeastUnacked
      /\ largestLeastUnackedSent' \in Nat
      /\ lastStopWaitingFrame' \in Nat /\ lastStopWaitingFrame' <= nextLeastUnacked
  <2>1. SentTypeOK /\ SenderInv
    BY DEF TypeOK
  <2>2. StopWaiting(force) \in Nat /\ StopWaiting(force) <= nextLeastUnacked
    BY <2>1, StopWaitingBound
  <2> QED BY <2>1, <2>2 DEF GetStopWaitingFrame, stopWaitingVars, SentTypeOK, SenderInv
<1>3. \/ /\ lastSentPacketNumber' = lastSentPacketNumber
         /\ skippedPackets' = skippedPackets
         /\ packetHistory' = packetHistory
         /\ numNonRetransmittablePackets' = numNonRetransmittablePackets
         /\ alarm' = alarm
         /\ packets' = packets
         /\ sendError' = "tooManyTracked"
      \/ /\ lastSentPacketNumber' = pn
         /\ skippedPackets' \subseteq skippedPackets \cup (lastSentPacketNumber + 1 .. pn - 1)
         /\ packetHistory' \subseteq packetHistory \cup {pn}
         /\ numNonRetransmittablePackets' \in Nat
         /\ alarm' \in BOOLEAN
         /\ packets' \subseteq packets \cup {[pn |-> pn, leastUnacked |-> lu, data |-> d]}
         /\ packets \subseteq packets'
         /\ sendError' = sendError
  <2> DEFINE full == Cardinality(queued) + Cardinality(packetHistory) + 1 > MaxTrackedSentPackets
  <2>1. SentPacket(pn, d # NoData, queued)
    OBVIOUS
  <2>2. CASE full
    <3>1. sendError' = "tooManyTracked"
      BY <2>1, <2>2, Zenon DEF SentPacket
    <3>2. packets' = packets
      BY <3>1
    <3> QED BY <2>1, <2>2, <3>1, <3>2 DEF SentPacket
  <2>3. CASE ~full
    <3>1. /\ lastSentPacketNumber' = pn
          /\ skippedPackets' = Skipped(pn)
          /\ packetHistory' \in {packetHistory, packetHistory \cup {pn}}
          /\ numNonRetransmittablePackets' \in {0, numNonRetransmittablePackets + 1}
          /\ alarm' = (packetHistory' # {})
          /\ sendError' = sendError
      BY <2>1, <2>3, Zenon DEF SentPacket, updateLossDetectionAlarm
    <3>2. skippedPackets' \subseteq skippedPackets \cup (lastSentPacketNumber + 1 .. pn - 1)
      BY <3>1 DEF Skipped
    <3>3. packetHistory' \subseteq packetHistory \cup {pn}
      BY <3>1
    <3>4. numNonRetransmittablePackets' \in Nat
      BY <3>1 DEF TypeOK, SentTypeOK
    <3>5. alarm' \in BOOLEAN
      BY <3>1
    <3>6. /\ packets' \subseteq packets \cup {[pn |-> pn, leastUnacked |-> lu, data |-> d]}
          /\ packets \subseteq packets'
      OBVIOUS
    <3> QED BY <3>1, <3>2, <3>3, <3>4, <3>5, <3>6
  <2> QED BY <2>2, <2>3
<1>4. UNCHANGED <<LargestAcked, largestReceivedPacketWithAck, tlpCount, lossTime,
                  receivedVars, ackPackets, lastAckPacket, delivered, ackDelivered,
                  lossVars, acked, closeVars, earlyAlarms, duplicates>> /\ activity' \in BOOLEAN
  BY Zenon
<1> USE <1>4 DEF receivedVars, ackDecisionVars, lossVars, closeVars
<1> HIDE DEF Transmit
<1>5. TypeOK'
  <2>1. SentTypeOK'
    <3>1. lastSentPacketNumber' \in Nat /\ numNonRetransmittablePackets' \in Nat
      BY <1>1, <1>3 DEF TypeOK, SentTypeOK
    <3>2. skippedPackets' \subseteq Nat
      <4> SUFFICES ASSUME NEW p \in skippedPackets' PROVE p \in Nat
        OBVIOUS
      <4>1. p \in skippedPackets \/ p \in lastSentPacketNumber + 1 .. pn - 1
        BY <1>3
      <4>2. p \in skippedPackets => p \in Nat
        BY DEF TypeOK, SentTypeOK
      <4> QED BY <1>1, <4>1, <4>2
    <3>3. packetHistory' \subseteq PacketNumbers /\ retransmissionQueue' \subseteq PacketNumbers
      BY <1>1, <1>3, Zenon DEF TypeOK, SentTypeOK
    <3>4. alarm' \in BOOLEAN /\ lossTime' \in BOOLEAN
      BY <1>3 DEF TypeOK, SentTypeOK
    <3>5. /\ LargestAcked' \in Nat /\ largestReceivedPacketWithAck' \in Nat /\ tlpCount' \in Nat
          /\ nextLeastUnacked' \in Nat
      BY <1>2 DEF TypeOK, SentTypeOK
    <3>6. sendError' \in {"none", "tooManyTracked", "ackForUnsent", "ackForSkipped"}
      BY <1>3 DEF TypeOK, SentTypeOK
    <3> QED BY <1>2, <3>1, <3>2, <3>3, <3>4, <3>5, <3>6 DEF SentTypeOK
  <2>2. packets' \subseteq [pn : PacketNumbers, leastUnacked : Nat, data : Data \cup {NoData}]
    BY <1>1, <1>3 DEF TypeOK
  <2> QED BY <2>1, <2>2 DEF TypeOK, ReceivedTypeOK
<1>6. SenderInv'
  <2>1. /\ SenderInv /\ packetHistory \subseteq 1 .. lastSentPacketNumber
        /\ lastSentPacketNumber' \in Nat /\ lastSentPacketNumber <= lastSentPacketNumber'
        /\ nextLeastUnacked \in Nat
    BY <1>1, <1>3 DEF SenderInv, TypeOK, SentTypeOK
  <2>2. \A p \in skippedPackets' : p \in Nat /\ 1 <= p /\ p <= lastSentPacketNumber'
    <3> TAKE p \in skippedPackets'
    <3>1. CASE p \in skippedPackets
      BY <3>1, <2>1, <1>1 DEF SenderInv
    <3>2. CASE p \notin skippedPackets
      BY <3>2, <1>1, <1>3
    <3> QED BY <3>1, <3>2
  <2>3. \A p \in packetHistory' : p \in Nat /\ 1 <= p /\ p <= lastSentPacketNumber'
    <3> TAKE p \in packetHistory'
    <3>1. CASE p \in packetHistory
      BY <3>1, <2>1, <1>1
    <3>2. CASE p \notin packetHistory
      BY <3>2, <1>1, <1>3
    <3> QED BY <3>1, <3>2
  <2>4. retransmissionQueue' \subseteq 1 .. lastSentPacketNumber'
    BY <1>1, <1>3, <2>1, SMTT(30), Zenon DEF SenderInv
  <2>5. /\ \A p \in Nat : p > lastSentPacketNumber' => nextLeastUnacked' <= p
        /\ lastStopWaitingFrame' <= nextLeastUnacked'
    BY <1>1, <1>2, <2>1 DEF SenderInv
  <2>6. lastSentPacketNumber' \in 0 .. MaxPacketNumber
    BY <1>1, <1>3 DEF SenderInv
  <2> QED BY <2>1, <2>2, <2>3, <2>4, <2>5, <2>6, SMTT(30), Zenon DEF SenderInv
<1>7. NetworkInv'
  <2>1. \A m \in packets : m.pn \in Nat /\ m.pn <= lastSentPacketNumber /\ m.pn \notin skippedPackets
    BY DEF NetworkInv, TypeOK, PacketNumbers
  <2>2. \A m \in packets' : m.pn <= lastSentPacketNumber' /\ m.pn \notin skippedPackets'
    <3> TAKE m \in packets'
    <3>1. CASE m \in packets
      BY <3>1, <2>1, <1>1, <1>3
    <3>2. CASE m \notin packets
      <4>1. m.pn = pn /\ lastSentPacketNumber' = pn
        BY <3>2, <1>3
      <4>2. pn \notin skippedPackets'
        BY <1>1, <1>3 DEF SenderInv
      <4> QED BY <4>1, <4>2, <1>1
    <3> QED BY <3>1, <3>2
  <2>3. StopWaitingBelowPacket'
    BY <1>3 DEF NetworkInv, StopWaitingBelowPacket
  <2> QED BY <2>2, <2>3, <1>3 DEF NetworkInv
<1>8. ReceiverInv' /\ AcksInv' /\ CloseInv' /\ NoFalseAck' /\ NoAckRejected'
  <2>1. ReceiverInv'
    BY SMTT(30), Zenon DEF ReceiverInv
  <2>2. AcksInv' /\ CloseInv'
    BY DEF AcksInv, CloseInv, AcksPacket
  <2>3. NoFalseAck' /\ NoAckRejected'
    BY <1>3 DEF NoFalseAck, NoAckRejected
  <2> QED BY <2>1, <2>2, <2>3
<1> QED BY <1>5, <1>6, <1>7, <1>8

\* SendPacket with data: the packet enters the history with its data.
LEMMA SendDataStep ==
    ASSUME IInv, NEW pn \in NextNumbers, NEW b \in BOOLEAN, SendData(pn, b)
    PROVE  IInv'
<1> DEFINE again == retransmissions \cup DataIn(retransmissionQueue)
           lu == IF b \/ again # {} THEN StopWaiting(again # {}) ELSE 0
<1>1. again \subseteq Data \cup {NoData}
  BY DEF IInv, TypeOK, DataIn
<1>2. lu \in Nat /\ lu <= pn
  <2>1. /\ StopWaiting(again # {}) \in Nat
        /\ StopWaiting(again # {}) <= nextLeastUnacked
    BY StopWaitingBound, Zenon DEF IInv, TypeOK
  <2>2. nextLeastUnacked <= pn /\ pn \in Nat /\ nextLeastUnacked \in Nat
    BY DEF IInv, TypeOK, SentTypeOK, SenderInv, NextNumbers, PacketNumbers
  <2> QED BY <2>1, <2>2
<1>3. GetStopWaitingFrame(again # {}) \/ UNCHANGED stopWaitingVars
  BY DEF SendData
<1>4. retransmissionQueue' \subseteq retransmissionQueue
  BY DEF SendData, DequeuePacketsForRetransmission
<1>5. pureAcks' \in Nat
  BY DEF SendData, IInv, TypeOK
<1>6. PICK d \in Data \cup {NoData} :
         /\ Transmit(pn, lu, d, {})
         /\ pending' \subseteq pending
         /\ retransmissions' \subseteq Data \cup {NoData}
  BY <1>1 DEF SendData, IInv, TypeOK
<1> HIDE DEF again, lu
<1> QED BY <1>2, <1>3, <1>4, <1>5, <1>6, TransmitStep, Zenon

\* SendPacket with an ACK only: the packet is not kept in the history.
LEMMA SendPureAckStep ==
    ASSUME IInv, NEW pn \in NextNumbers, SendPureAck(pn)
    PROVE  IInv'
<1> DEFINE lu == StopWaiting(FALSE)
<1>1. lu \in Nat /\ lu <= nextLeastUnacked
  BY StopWaitingBound, Zenon DEF IInv, TypeOK
<1>2. Transmit(pn, lu, NoData, retransmissionQueue) /\ GetStopWaitingFrame(FALSE)
  BY Zenon DEF SendPureAck
<1> HIDE DEF lu
<1>3. lu <= pn
  <2>1. nextLeastUnacked <= pn /\ pn \in Nat /\ nextLeastUnacked \in Nat
    BY DEF IInv, TypeOK, SentTypeOK, SenderInv, NextNumbers, PacketNumbers
  <2> QED BY <1>1, <2>1
<1>4. retransmissionQueue' = retransmissionQueue /\ pending' = pending
      /\ retransmissions' = retransmissions /\ pureAcks' = pureAcks + 1
  BY DEF SendPureAck
<1>5. retransmissions' \subseteq Data \cup {NoData} /\ pureAcks' \in Nat
  BY <1>4 DEF IInv, TypeOK
<1> QED BY <1>1, <1>2, <1>3, <1>4, <1>5, TransmitStep, Zenon

\* ReceivedPacket adds a number and may queue an ACK.
LEMMA ReceivePacketStep ==
    ASSUME IInv, NEW m \in packets, ReceivePacket(m)
    PROVE  IInv'
<1> DEFINE p == m.pn
           lu == m.leastUnacked
           low == IF lu = 0 THEN lowerLimit ELSE lu - 1
           Kept(h) == IF lu = 0 THEN h ELSE {q \in h : q > low}
<1>1. /\ p \in PacketNumbers /\ p \in Nat /\ p >= 1 /\ lu \in Nat /\ lu <= p
      /\ largestObserved \in Nat /\ lowerLimit \in Nat /\ ~receiveError
  BY DEF IInv, TypeOK, ReceivedTypeOK, PacketNumbers, NetworkInv, StopWaitingBelowPacket,
         ReceivePacket, Running
<1>2. low \in Nat /\ (lu # 0 => low < p)
  BY <1>1, SMTT(30), Zenon
<1>3. /\ largestObserved' = IF p > largestObserved THEN p ELSE largestObserved
      /\ lastAck' = lastAck
      /\ delivered' = delivered \cup {p}
      /\ duplicates' \in {duplicates, duplicates + 1}
      /\ UNCHANGED <<sentVars, pending, retransmissions, packets, ackPackets, lastAckPacket,
                     ackDelivered, lossVars, acked, closeVars, activity, pureAcks, earlyAlarms>>
  BY SMTT(30), Zenon DEF ReceivePacket, ReceivedPacket
<1>4. \/ /\ p <= lowerLimit
         /\ lowerLimit' = low
         /\ receivedHistory' = Kept(receivedHistory)
         /\ UNCHANGED <<ackDecisionVars, receiveError>>
      \/ /\ receiveError' = TRUE
         /\ UNCHANGED <<lowerLimit, receivedHistory, ackDecisionVars>>
      \/ /\ p > lowerLimit
         /\ maybeQueueAck(p, m.data # NoData, receivedHistory \cup {p})
         /\ lowerLimit' = low
         /\ receivedHistory' = Kept(receivedHistory \cup {p})
         /\ UNCHANGED receiveError
  BY DEF ReceivePacket, ReceivedPacket, LowerLimit
<1>5. /\ packetsReceivedSinceLastAck' \in Nat
      /\ retransmittablePacketsReceivedSinceLastAck' \in Nat
      /\ ackQueued' \in BOOLEAN /\ ackAlarm' \in BOOLEAN
  <2>1. \/ UNCHANGED ackDecisionVars
        \/ maybeQueueAck(p, m.data # NoData, receivedHistory \cup {p})
    BY <1>4
  <2>2. CASE UNCHANGED ackDecisionVars
    BY <2>2 DEF IInv, TypeOK, ReceivedTypeOK, ackDecisionVars
  <2>3. CASE maybeQueueAck(p, m.data # NoData, receivedHistory \cup {p})
    <3>1. /\ packetsReceivedSinceLastAck' = packetsReceivedSinceLastAck + 1
          /\ retransmittablePacketsReceivedSinceLastAck' =
                retransmittablePacketsReceivedSinceLastAck + IF m.data # NoData THEN 1 ELSE 0
      BY <2>3 DEF maybeQueueAck
    <3>2. /\ packetsReceivedSinceLastAck' \in Nat
          /\ retransmittablePacketsReceivedSinceLastAck' \in Nat
      BY <3>1 DEF IInv, TypeOK, ReceivedTypeOK
    <3>3. ackQueued' \in BOOLEAN /\ ackAlarm' \in BOOLEAN
      BY <2>3 DEF maybeQueueAck, AckNow
    <3> QED BY <3>2, <3>3
  <2> QED BY <2>1, <2>2, <2>3
<1>6. receivedHistory' \subseteq receivedHistory \cup {p}
  BY <1>4
<1>7. TypeOK'
  <2>1. SentTypeOK'
    BY <1>3 DEF IInv, TypeOK, SentTypeOK, sentVars, stopWaitingVars
  <2>2. lowerLimit' \in Nat /\ receiveError' \in BOOLEAN /\ lastAck' \in Nat
    BY <1>2, <1>3, <1>4, Zenon DEF IInv, TypeOK, ReceivedTypeOK
  <2>3. receivedHistory' \subseteq Nat
    BY <1>1, <1>6 DEF IInv, TypeOK, ReceivedTypeOK
  <2>4. largestObserved' \in Nat
    BY <1>1, <1>3
  <2>5. ReceivedTypeOK'
    BY <1>5, <2>2, <2>3, <2>4 DEF ReceivedTypeOK
  <2>6. delivered' \subseteq PacketNumbers /\ duplicates' \in Nat
    BY <1>1, <1>3 DEF IInv, TypeOK
  <2> QED BY <1>3, <2>1, <2>5, <2>6, SMTT(30), Zenon DEF IInv, TypeOK, lossVars, closeVars
<1>8. SenderInv' /\ NetworkInv' /\ NoFalseAck' /\ NoAckRejected'
  <2>1. SenderInv' /\ NoFalseAck' /\ NoAckRejected'
    BY <1>3, SMTT(30), Zenon DEF IInv, SenderInv, NoFalseAck, NoAckRejected, sentVars, stopWaitingVars
  <2>2. NetworkInv'
    BY <1>3, SMTT(30), Zenon DEF IInv, NetworkInv, StopWaitingBelowPacket, sentVars
  <2> QED BY <2>1, <2>2
<1>9. /\ largestObserved' \in Nat /\ largestObserved' >= largestObserved
      /\ largestObserved' >= p /\ largestObserved' # 0
      /\ largestObserved' = p \/ largestObserved' = largestObserved
  BY <1>1, <1>3
<1>10. ReceiverInv'
  <2>1. receivedHistory' \subseteq delivered'
    BY <1>3, <1>6, SMTT(30), Zenon DEF IInv, ReceiverInv
  <2>2. largestObserved' \in delivered'
    BY <1>3, <1>9 DEF IInv, ReceiverInv
  <2>3. \A q \in receivedHistory' : q <= largestObserved'
    <3>1. \A q \in receivedHistory : q \in Nat /\ q <= largestObserved
      BY SMTT(30), Zenon DEF IInv, ReceiverInv, TypeOK, ReceivedTypeOK
    <3> QED BY <3>1, <1>1, <1>6, <1>9
  <2>4. ~receiveError' => largestObserved' \in receivedHistory' /\ lowerLimit' < largestObserved'
    <3>1. IF largestObserved = 0 THEN lowerLimit = 0
          ELSE largestObserved \in receivedHistory /\ lowerLimit < largestObserved
      BY <1>1 DEF IInv, ReceiverInv
    <3>2. ASSUME p <= lowerLimit, lowerLimit' = low, receivedHistory' = Kept(receivedHistory)
          PROVE  largestObserved' \in receivedHistory' /\ lowerLimit' < largestObserved'
      <4>1. /\ largestObserved \in receivedHistory /\ lowerLimit < largestObserved
            /\ largestObserved' = largestObserved
        BY <1>1, <1>3, <3>1, <3>2
      <4>2. low < largestObserved
        BY <1>1, <1>2, <3>2, <4>1
      <4> QED BY <3>2, <4>1, <4>2
    <3>3. ASSUME p > lowerLimit, lowerLimit' = low, receivedHistory' = Kept(receivedHistory \cup {p})
          PROVE  largestObserved' \in receivedHistory' /\ lowerLimit' < largestObserved'
      <4>1. largestObserved' \in receivedHistory \cup {p}
        BY <1>1, <1>9, <3>1, SMTT(30), Zenon
      <4>2. low < largestObserved'
        BY <1>1, <1>2, <1>9, <3>1, <3>3, SMTT(30), Zenon
      <4> QED BY <3>3, <4>1, <4>2
    <3> QED BY <1>4, <3>2, <3>3
  <2> QED BY <1>9, <2>1, <2>2, <2>3, <2>4 DEF ReceiverInv
<1>11. AcksInv'
  <2>1. /\ ackPackets' = ackPackets /\ lastAckPacket' = lastAckPacket
        /\ LargestAcked' = LargestAcked /\ LargestAcked \in Nat
        /\ largestReceivedPacketWithAck' = largestReceivedPacketWithAck
        /\ \A a \in ackPackets : a.frame.LargestAcked \in Nat
    BY <1>3 DEF sentVars, IInv, TypeOK, SentTypeOK
  <2>2. \A a \in ackPackets : a.frame.LargestAcked <= largestObserved'
    <3> TAKE a \in ackPackets
    <3>1. a.frame.LargestAcked \in Nat /\ a.frame.LargestAcked <= largestObserved
      BY <2>1, Zenon DEF IInv, AcksInv
    <3> DEFINE n == a.frame.LargestAcked
    <3>2. n \in Nat /\ n <= largestObserved
      BY <3>1
    <3> HIDE DEF n
    <3>3. n <= largestObserved'
      BY <1>1, <1>9, <3>2
    <3> QED BY <3>3 DEF n
  <2>3. LargestAcked <= largestObserved'
    <3>1. LargestAcked <= largestObserved
      BY Zenon DEF IInv, AcksInv
    <3> DEFINE n == LargestAcked
    <3>2. n \in Nat /\ n <= largestObserved
      BY <2>1, <3>1, Zenon
    <3> HIDE DEF n
    <3>3. n <= largestObserved'
      BY <1>1, <1>9, <3>2
    <3> QED BY <3>3 DEF n
  <2>4. \A a \in ackPackets : \A q \in PacketNumbers : AcksPacket(a.frame, q) => q \in delivered'
    BY <1>3, Zenon DEF IInv, AcksInv
  <2> QED BY <2>1, <2>2, <2>3, <2>4, SMTT(30), Zenon DEF IInv, AcksInv, AcksPacket
<1>12. CloseInv'
  <2>1. closePackets' = closePackets /\ lastAckPacket' = lastAckPacket
    BY <1>3 DEF closeVars
  <2>2. \A c \in closePackets : c.frame.LargestAcked <= largestObserved'
    <3> SUFFICES ASSUME NEW c \in closePackets PROVE c.frame.LargestAcked <= largestObserved'
      OBVIOUS
    <3> DEFINE n == c.frame.LargestAcked
    <3>1. n \in Nat /\ n <= largestObserved
      BY DEF IInv, TypeOK, CloseInv
    <3> HIDE DEF n
    <3>2. n <= largestObserved'
      BY <1>1, <1>9, <3>1
    <3> QED BY <3>2 DEF n
  <2>3. \A c \in closePackets : \A q \in PacketNumbers : AcksPacket(c.frame, q) => q \in delivered'
    BY <1>3, Zenon DEF IInv, CloseInv
  <2> QED BY <2>1, <2>2, <2>3, Zenon DEF IInv, CloseInv, AcksPacket
<1> QED BY <1>7, <1>8, <1>10, <1>11, <1>12 DEF IInv

\* GetAckFrame reports the received numbers.
LEMMA SendAckStep ==
    ASSUME IInv, SendAck
    PROVE  IInv'
<1> DEFINE new == [pn |-> lastAckPacket + 1, frame |-> AckFrame]
<1>1. /\ TypeOK /\ ReceiverInv /\ ~receiveError /\ (ackQueued \/ ackAlarm)
  BY DEF IInv, SendAck, GetAckFrame, Running
<1>2. /\ AckFrame \in [LargestAcked : Nat, LowestAcked : Nat, AckRanges : SUBSET Nat]
      /\ {p \in PacketNumbers : AcksPacket(AckFrame, p)} = receivedHistory
  BY <1>1, AckFrameExact
<1>3. AckFrame.LargestAcked = largestObserved
  BY DEF AckFrame
<1>4. /\ ackPackets' = ackPackets \cup {new}
      /\ lastAckPacket' = lastAckPacket + 1
      /\ lastAckPacket \in Nat /\ largestObserved \in Nat
      /\ lastAck' = largestObserved
      /\ ackAlarm' = FALSE /\ ackQueued' = FALSE
      /\ packetsReceivedSinceLastAck' = 0
      /\ retransmittablePacketsReceivedSinceLastAck' = 0
      /\ UNCHANGED <<largestObserved, lowerLimit, receivedHistory, receiveError>>
      /\ UNCHANGED <<sentVars, pending, retransmissions, packets, delivered, ackDelivered,
                     lossVars, acked, closeVars, activity, boundVars>>
  BY Zenon DEF SendAck, GetAckFrame, IInv, TypeOK, ReceivedTypeOK
<1> HIDE DEF new
<1>5. new.pn = lastAckPacket + 1 /\ new.frame = AckFrame
      /\ new \in [pn : Nat, frame : [LargestAcked : Nat, LowestAcked : Nat, AckRanges : SUBSET Nat]]
  BY <1>2, <1>4, SMTT(30), Zenon DEF new
<1>6. TypeOK'
  <2>1. SentTypeOK'
    BY <1>4 DEF IInv, TypeOK, SentTypeOK, sentVars, stopWaitingVars
  <2>2. ReceivedTypeOK'
    BY <1>4, Zenon DEF IInv, TypeOK, ReceivedTypeOK
  <2>3. ackPackets' \subseteq [pn : Nat, frame : [LargestAcked : Nat, LowestAcked : Nat,
                                                  AckRanges : SUBSET Nat]]
    BY <1>4, <1>5 DEF IInv, TypeOK
  <2>4. lastAckPacket' \in Nat
    BY <1>4
  <2> QED BY <1>4, <2>1, <2>2, <2>3, <2>4, SMTT(30), Zenon DEF IInv, TypeOK, lossVars, closeVars, boundVars
<1>7. SenderInv' /\ NetworkInv' /\ ReceiverInv' /\ CloseInv' /\ NoFalseAck' /\ NoAckRejected'
  <2>1. SenderInv' /\ NoFalseAck' /\ NoAckRejected'
    BY <1>4, SMTT(30), Zenon DEF IInv, SenderInv, NoFalseAck, NoAckRejected, sentVars, stopWaitingVars
  <2>2. NetworkInv'
    BY <1>4 DEF IInv, NetworkInv, StopWaitingBelowPacket, sentVars
  <2>3. ReceiverInv'
    BY <1>4 DEF IInv, ReceiverInv
  <2>4. CloseInv'
    <3>1. \A c \in closePackets : c.pn \in Nat /\ c.pn <= lastAckPacket + 1
      BY <1>4 DEF IInv, TypeOK, CloseInv
    <3>2. /\ closePackets' = closePackets /\ delivered' = delivered
          /\ lastAckPacket' = lastAckPacket + 1 /\ largestObserved' = largestObserved
      BY <1>4 DEF closeVars
    <3> QED BY <3>1, <3>2, Zenon DEF IInv, CloseInv, AcksPacket
  <2> QED BY <2>1, <2>2, <2>3, <2>4
<1>8. AcksInv'
  <2>1. /\ LargestAcked' = LargestAcked /\ largestReceivedPacketWithAck' = largestReceivedPacketWithAck
        /\ LargestAcked \in Nat /\ LargestAcked <= largestObserved
        /\ largestReceivedPacketWithAck \in Nat /\ largestReceivedPacketWithAck <= lastAckPacket
    BY <1>4 DEF sentVars, IInv, AcksInv, TypeOK, SentTypeOK
  <2>2. \A a \in ackPackets : /\ a.pn \in Nat /\ a.pn <= lastAckPacket
                              /\ a.frame.LargestAcked \in Nat
                              /\ a.frame.LargestAcked <= largestObserved
    BY DEF IInv, AcksInv, TypeOK
  <2>3. \A a \in ackPackets' : a.pn <= lastAckPacket' /\ a.frame.LargestAcked <= largestObserved'
    BY <1>3, <1>4, <1>5, <2>2
  <2>4. \A a \in ackPackets' : \A p \in PacketNumbers : AcksPacket(a.frame, p) => p \in delivered'
    <3>1. receivedHistory \subseteq delivered /\ delivered' = delivered
      BY <1>4 DEF IInv, ReceiverInv
    <3>2. \A p \in PacketNumbers : AcksPacket(new.frame, p) => p \in delivered'
      BY <1>2, <1>5, <3>1
    <3> QED BY <1>4, <3>1, <3>2, Zenon DEF IInv, AcksInv
  <2>5. \A a \in ackPackets' : a.pn > largestReceivedPacketWithAck' => a.frame.LargestAcked >= LargestAcked'
    BY <1>3, <1>4, <1>5, <2>1, SMTT(30), Zenon DEF IInv, AcksInv
  <2>6. \A a, b \in ackPackets' : a.pn <= b.pn => a.frame.LargestAcked <= b.frame.LargestAcked
    BY <1>3, <1>4, <1>5, <2>2 DEF IInv, AcksInv
  <2>7. LargestAcked' <= largestObserved' /\ largestReceivedPacketWithAck' <= lastAckPacket'
    BY <1>4, <2>1
  <2> QED BY <2>3, <2>4, <2>5, <2>6, <2>7, Zenon DEF AcksInv, AcksPacket
<1> QED BY <1>6, <1>7, <1>8, SMTT(30), Zenon DEF IInv

\* What an ACK or CLOSE_PATH frame f with largest packet n, that goes with packet
\* number k, does to the sender's books: packets that leave the history are queued or acknowledged.
AckTaken(f, n, k) ==
    /\ packetHistory' \subseteq packetHistory
    /\ retransmissionQueue' \subseteq retransmissionQueue \cup packetHistory
    /\ retransmissionQueue \subseteq retransmissionQueue'
    /\ packetHistory \ (packetHistory' \cup retransmissionQueue') \subseteq NewlyAcked(f)
    /\ skippedPackets' \subseteq skippedPackets
    /\ nextLeastUnacked' \in Nat
    /\ nextLeastUnacked' = nextLeastUnacked \/ nextLeastUnacked' <= lastSentPacketNumber + 1
    /\ nextLeastUnacked' >= nextLeastUnacked
    /\ lossTime' \in BOOLEAN /\ alarm' \in BOOLEAN /\ tlpCount' \in Nat
    /\ \/ LargestAcked' = LargestAcked
       \/ LargestAcked' = n /\ k > largestReceivedPacketWithAck
    /\ \/ /\ largestReceivedPacketWithAck' = largestReceivedPacketWithAck
          /\ LargestAcked' = LargestAcked
       \/ largestReceivedPacketWithAck' = k /\ k > largestReceivedPacketWithAck
    /\ UNCHANGED <<lastSentPacketNumber, numNonRetransmittablePackets,
                   largestLeastUnackedSent, lastStopWaitingFrame, sendError>>

\* ReceivedAck on a frame about packets that were sent and not skipped.
LEMMA ReceivedAckOutcome ==
    ASSUME SentTypeOK, NEW f, NEW n \in Nat, NEW k \in Nat, f.LargestAcked = n,
           n <= lastSentPacketNumber, \A p \in skippedPackets : ~AcksPacket(f, p),
           ReceivedAck(f, k)
    PROVE  AckTaken(f, n, k)
<1>1. lastSentPacketNumber \in Nat /\ nextLeastUnacked \in Nat
  BY DEF SentTypeOK
<1>2. CASE AckForUnsentPacket(f)
  <2>1. n > lastSentPacketNumber
    BY <1>2 DEF AckForUnsentPacket
  <2> QED BY <1>1, <2>1
<1>3. CASE DuplicateOrOutOfOrderAck(f, k) \/ RepeatedAck(f, k)
  <2>1. /\ UNCHANGED <<lastSentPacketNumber, skippedPackets, numNonRetransmittablePackets,
                       LargestAcked, packetHistory, retransmissionQueue, tlpCount, lossTime,
                       alarm, nextLeastUnacked, largestLeastUnackedSent,
                       lastStopWaitingFrame, sendError>>
        /\ \/ largestReceivedPacketWithAck' = largestReceivedPacketWithAck
           \/ largestReceivedPacketWithAck' = k /\ k > largestReceivedPacketWithAck
    BY <1>3 DEF DuplicateOrOutOfOrderAck, RepeatedAck, FreshAck, sentVars, stopWaitingVars
  <2> QED BY <1>1, <2>1 DEF AckTaken, SentTypeOK
<1>4. CASE AckForSkippedPacket(f, k)
  BY <1>4 DEF AckForSkippedPacket
<1>5. CASE NewAck(f, k)
  <2>1. PICK gone :
           /\ packetHistory' = (packetHistory \ NewlyAcked(f)) \ gone
           /\ retransmissionQueue' = retransmissionQueue \cup gone
           /\ gone \subseteq packetHistory
           /\ lossTime' \in BOOLEAN
    BY <1>5 DEF NewAck, LostPrefixes, LossCandidates
  <2>2. /\ packetHistory' \subseteq packetHistory
        /\ retransmissionQueue' \subseteq retransmissionQueue \cup packetHistory
        /\ retransmissionQueue \subseteq retransmissionQueue'
        /\ packetHistory \ (packetHistory' \cup retransmissionQueue') \subseteq NewlyAcked(f)
    BY <2>1
  <2>3. alarm' \in BOOLEAN
    BY <1>5, SMTT(30), Zenon DEF NewAck, updateLossDetectionAlarm
  <2>4. tlpCount' \in Nat
    BY <1>5 DEF NewAck, SentTypeOK
  <2>5. skippedPackets' \subseteq skippedPackets
    BY <1>5 DEF NewAck
  <2>6. nextLeastUnacked' = IF n >= nextLeastUnacked THEN n + 1 ELSE nextLeastUnacked
    BY <1>5 DEF NewAck, LeastUnackedAfter
  <2>7. /\ nextLeastUnacked' \in Nat /\ nextLeastUnacked' >= nextLeastUnacked
        /\ nextLeastUnacked' = nextLeastUnacked \/ nextLeastUnacked' <= lastSentPacketNumber + 1
    BY <1>1, <2>6
  <2>8. /\ LargestAcked' = n
        /\ k > largestReceivedPacketWithAck
        /\ largestReceivedPacketWithAck' = k
        /\ UNCHANGED <<lastSentPacketNumber, numNonRetransmittablePackets,
                       largestLeastUnackedSent, lastStopWaitingFrame, sendError>>
    BY <1>5 DEF NewAck, FreshAck
  <2> QED BY <2>1, <2>2, <2>3, <2>4, <2>5, <2>7, <2>8, SMTT(30), Zenon DEF AckTaken
<1> QED BY <1>2, <1>3, <1>4, <1>5 DEF ReceivedAck

\* The frames that the peer sends are such frames, so neither error occurs.
LEMMA AckOutcome ==
    ASSUME IInv, NEW a \in ackPackets, ReceiveAckPacket(a)
    PROVE  /\ AckTaken(a.frame, a.frame.LargestAcked, a.pn)
           /\ NewlyAcked(a.frame) \subseteq delivered
           /\ a.frame.LargestAcked \in Nat /\ a.pn \in Nat
           /\ a.frame.LargestAcked <= lastSentPacketNumber
<1> DEFINE f == a.frame
           n == a.frame.LargestAcked
           k == a.pn
<1>1. n \in Nat /\ k \in Nat /\ n <= largestObserved
  BY DEF IInv, TypeOK, AcksInv
<1>2. \A p \in PacketNumbers : AcksPacket(f, p) => p \in delivered
  BY Zenon DEF IInv, AcksInv
<1>3. ReceivedAck(f, k) /\ f.LargestAcked = n
  BY DEF ReceiveAckPacket
<1> HIDE DEF f, n, k
<1>4. largestObserved \in Nat /\ lastSentPacketNumber \in 0 .. MaxPacketNumber
      /\ skippedPackets \subseteq 1 .. lastSentPacketNumber
  BY DEF IInv, TypeOK, ReceivedTypeOK, SenderInv
<1>5. n <= lastSentPacketNumber
  <2>1. CASE largestObserved = 0
    BY <1>1, <1>4, <2>1
  <2>2. CASE largestObserved # 0
    <3>1. largestObserved <= lastSentPacketNumber
      BY <2>2 DEF IInv, ReceiverInv, NetworkInv
    <3> QED BY <1>1, <1>4, <3>1
  <2> QED BY <2>1, <2>2
<1>6. \A p \in skippedPackets : ~AcksPacket(f, p)
  <2> SUFFICES ASSUME NEW p \in skippedPackets, AcksPacket(f, p) PROVE FALSE
    OBVIOUS
  <2>1. p \in PacketNumbers
    BY <1>4, SentConstants DEF PacketNumbers
  <2>2. p \in delivered
    BY <1>2, <2>1
  <2> QED BY <2>2 DEF IInv, NetworkInv
<1>7. NewlyAcked(f) \subseteq delivered
  BY <1>2 DEF NewlyAcked, IInv, TypeOK, SentTypeOK
<1>8. AckTaken(f, n, k)
  <2>1. SentTypeOK
    BY DEF IInv, TypeOK
  <2> QED BY <1>1, <1>3, <1>5, <1>6, <2>1, ReceivedAckOutcome
<1> QED BY <1>1, <1>5, <1>7, <1>8, Zenon DEF f, n, k

\* An ACK packet kb behind the last one taken reports no less than it.
LEMMA LaterAckReportsMore ==
    ASSUME NEW f, NEW n \in Nat, NEW k \in Nat, AckTaken(f, n, k),
           LargestAcked \in Nat, largestReceivedPacketWithAck \in Nat,
           NEW kb \in Nat, NEW nb \in Nat, kb > largestReceivedPacketWithAck',
           kb > largestReceivedPacketWithAck => nb >= LargestAcked,
           LargestAcked' = LargestAcked \/ (k <= kb => n <= nb)
    PROVE  nb >= LargestAcked'
<1>1. /\ LargestAcked' = LargestAcked \/ (LargestAcked' = n /\ k > largestReceivedPacketWithAck)
      /\ \/ /\ largestReceivedPacketWithAck' = largestReceivedPacketWithAck
            /\ LargestAcked' = LargestAcked
         \/ largestReceivedPacketWithAck' = k /\ k > largestReceivedPacketWithAck
  BY Zenon DEF AckTaken
<1> QED BY <1>1

\* A frame with these effects keeps the invariant.
LEMMA AckTakenStep ==
    ASSUME IInv, NEW f, NEW n \in Nat, NEW k \in Nat, AckTaken(f, n, k),
           n <= lastSentPacketNumber, n <= largestObserved, k <= lastAckPacket,
           NewlyAcked(f) \subseteq delivered,
           LargestAcked' = LargestAcked \/ \A b \in ackPackets : k <= b.pn => n <= b.frame.LargestAcked,
           acked' = acked \cup (packetHistory \ (packetHistory' \cup retransmissionQueue')),
           ackDelivered' \subseteq Nat, activity' \in BOOLEAN,
           pathState' \in {"open", "closing", "closed"},
           UNCHANGED <<receivedVars, pending, retransmissions, packets, ackPackets,
                       lastAckPacket, delivered, lossVars, closePackets, boundVars>>
    PROVE  IInv'
<1>5. /\ lastSentPacketNumber \in Nat /\ LargestAcked \in Nat
      /\ largestReceivedPacketWithAck \in Nat /\ nextLeastUnacked \in Nat
      /\ lastStopWaitingFrame \in Nat
  BY DEF IInv, TypeOK, SentTypeOK
<1>6. TypeOK'
  <2>1. SentTypeOK'
    <3>1. nextLeastUnacked' \in Nat /\ LargestAcked' \in Nat /\ largestReceivedPacketWithAck' \in Nat
      BY <1>5 DEF AckTaken
    <3> QED BY <3>1 DEF AckTaken, IInv, TypeOK, SentTypeOK
  <2>2. ReceivedTypeOK'
    BY DEF IInv, TypeOK, ReceivedTypeOK, receivedVars, ackDecisionVars
  <2>3. acked' \subseteq PacketNumbers
    BY DEF IInv, TypeOK, SentTypeOK
  <2> QED BY <2>1, <2>2, <2>3, SMTT(30), Zenon DEF IInv, TypeOK, lossVars, boundVars
<1>7. SenderInv'
  <2>1. \A p \in Nat : p > lastSentPacketNumber => nextLeastUnacked' <= p
    BY <1>5 DEF IInv, SenderInv, AckTaken
  <2>2. lastStopWaitingFrame <= nextLeastUnacked'
    BY <1>5 DEF IInv, SenderInv, AckTaken
  <2> QED BY <2>1, <2>2 DEF IInv, SenderInv, AckTaken
<1>8. NetworkInv' /\ ReceiverInv' /\ CloseInv' /\ NoAckRejected'
  <2>1. NetworkInv'
    BY Zenon DEF IInv, NetworkInv, StopWaitingBelowPacket, AckTaken
  <2>2. ReceiverInv' /\ NoAckRejected'
    BY Zenon DEF IInv, ReceiverInv, NoAckRejected, receivedVars, ackDecisionVars, AckTaken
  <2>3. CloseInv'
    BY Zenon DEF IInv, CloseInv, AcksPacket, receivedVars
  <2> QED BY <2>1, <2>2, <2>3
<1>9. NoFalseAck'
  BY DEF IInv, NoFalseAck, AckTaken
<1>10. AcksInv'
  <2>1. /\ ackPackets' = ackPackets /\ lastAckPacket' = lastAckPacket
        /\ delivered' = delivered /\ largestObserved' = largestObserved
    BY DEF receivedVars
  <2>2. LargestAcked' <= largestObserved /\ largestReceivedPacketWithAck' <= lastAckPacket
    BY Zenon DEF IInv, AcksInv, AckTaken
  <2>3. ASSUME NEW b \in ackPackets, b.pn > largestReceivedPacketWithAck'
        PROVE  b.frame.LargestAcked >= LargestAcked'
    <3> DEFINE nb == b.frame.LargestAcked
               kb == b.pn
    <3>1. kb \in Nat /\ nb \in Nat
      BY DEF IInv, TypeOK
    <3>2. kb > largestReceivedPacketWithAck => nb >= LargestAcked
      BY Zenon DEF IInv, AcksInv
    <3>3. /\ kb > largestReceivedPacketWithAck'
          /\ LargestAcked' = LargestAcked \/ (k <= kb => n <= nb)
      BY <2>3, Zenon
    <3> HIDE DEF nb, kb
    <3>4. nb >= LargestAcked'
      BY <1>5, <3>1, <3>2, <3>3, LaterAckReportsMore, Zenon
    <3> QED BY <3>4, Zenon DEF nb
  <2> QED BY <2>1, <2>2, <2>3, Zenon DEF IInv, AcksInv, AcksPacket
<1> QED BY <1>6, <1>7, <1>8, <1>9, <1>10 DEF IInv

\* ReceivedAck takes the acknowledged packets out of the history.
LEMMA ReceiveAckPacketStep ==
    ASSUME IInv, NEW a \in ackPackets, ReceiveAckPacket(a)
    PROVE  IInv'
<1> DEFINE f == a.frame
           n == a.frame.LargestAcked
           k == a.pn
<1>1. AckTaken(f, n, k) /\ n \in Nat /\ k \in Nat /\ n <= lastSentPacketNumber
      /\ NewlyAcked(f) \subseteq delivered
  BY AckOutcome, Zenon
<1>2. n <= largestObserved /\ k <= lastAckPacket
  BY Zenon DEF IInv, AcksInv
<1>3. \A b \in ackPackets : k <= b.pn => n <= b.frame.LargestAcked
  BY Zenon DEF IInv, AcksInv
<1>4. /\ acked' = acked \cup (packetHistory \ (packetHistory' \cup retransmissionQueue'))
      /\ ackDelivered' = ackDelivered \cup {k}
      /\ activity' = TRUE
      /\ UNCHANGED <<receivedVars, pending, retransmissions, packets, ackPackets,
                     lastAckPacket, delivered, lossVars, closeVars, boundVars>>
  BY DEF ReceiveAckPacket
<1> HIDE DEF f, n, k
<1>5. ackDelivered' \subseteq Nat /\ activity' \in BOOLEAN
      /\ pathState' \in {"open", "closing", "closed"} /\ closePackets' = closePackets
  BY <1>1, <1>4 DEF IInv, TypeOK, closeVars
<1> QED BY <1>1, <1>2, <1>3, <1>4, <1>5, AckTakenStep, Zenon

\* A frame that is not taken changes nothing.
LEMMA UnchangedTaken ==
    ASSUME SentTypeOK, NEW f, NEW n, NEW k, UNCHANGED sentVars
    PROVE  AckTaken(f, n, k) /\ LargestAcked' = LargestAcked
<1>1. nextLeastUnacked \in Nat /\ nextLeastUnacked' = nextLeastUnacked
  BY DEF SentTypeOK, sentVars, stopWaitingVars
<1>2. nextLeastUnacked' \in Nat /\ nextLeastUnacked' >= nextLeastUnacked
  BY <1>1
<1> QED BY <1>1, <1>2, Zenon DEF AckTaken, SentTypeOK, sentVars, stopWaitingVars

\* ReceivedClosePath takes packets off the books like an ACK and leaves
\* LargestAcked alone.
LEMMA ReceivedClosePathOutcome ==
    ASSUME SentTypeOK, SenderInv, NEW f, NEW n \in Nat, NEW k \in Nat,
           ReceivedClosePath(f, k)
    PROVE  AckTaken(f, n, k) /\ LargestAcked' = LargestAcked
<1>1. CASE ClosePathRefused(f, k)
  BY <1>1, UnchangedTaken DEF ClosePathRefused
<1>2. CASE ClosePathForSkippedPacket(f, k)
  <2>1. nextLeastUnacked \in Nat /\ nextLeastUnacked' = nextLeastUnacked
    BY <1>2 DEF ClosePathForSkippedPacket, SentTypeOK, stopWaitingVars
  <2>2. nextLeastUnacked' \in Nat /\ nextLeastUnacked' >= nextLeastUnacked
    BY <2>1
  <2> QED BY <1>2, <2>1, <2>2, Zenon DEF ClosePathForSkippedPacket, FreshAck, AckTaken, SentTypeOK, stopWaitingVars
<1>3. CASE ClosePathTaken(f, k)
  <2> DEFINE inflight == packetHistory \ NewlyAcked(f)
             gone == LossCandidates(inflight, LargestAcked)
  <2>1. /\ packetHistory' = inflight \ gone
        /\ retransmissionQueue' = retransmissionQueue \cup gone
        /\ nextLeastUnacked' = IF gone # {} THEN LeastUnackedAfter(Max(gone)) ELSE nextLeastUnacked
        /\ skippedPackets' \subseteq skippedPackets
        /\ tlpCount' \in {0, tlpCount}
        /\ k > largestReceivedPacketWithAck /\ largestReceivedPacketWithAck' = k
        /\ UNCHANGED <<lastSentPacketNumber, numNonRetransmittablePackets, LargestAcked, lossTime,
                       alarm, largestLeastUnackedSent, lastStopWaitingFrame, sendError>>
    BY <1>3 DEF ClosePathTaken, FreshAck
  <2>2. gone \subseteq packetHistory
    BY DEF LossCandidates
  <2> HIDE DEF gone
  <2>3. /\ packetHistory' \subseteq packetHistory
        /\ retransmissionQueue' \subseteq retransmissionQueue \cup packetHistory
        /\ retransmissionQueue \subseteq retransmissionQueue'
        /\ packetHistory \ (packetHistory' \cup retransmissionQueue') \subseteq NewlyAcked(f)
    BY <2>1, <2>2
  <2>4. /\ nextLeastUnacked' \in Nat /\ nextLeastUnacked' >= nextLeastUnacked
        /\ nextLeastUnacked' = nextLeastUnacked \/ nextLeastUnacked' <= lastSentPacketNumber + 1
    <3>0. nextLeastUnacked \in Nat /\ lastSentPacketNumber \in Nat
      BY DEF SentTypeOK
    <3>1. CASE gone = {}
      BY <2>1, <3>0, <3>1
    <3>2. CASE gone # {}
      <4>1. gone \subseteq 1 .. lastSentPacketNumber
        BY <2>2 DEF SenderInv
      <4>2. Max(gone) \in 1 .. lastSentPacketNumber
        BY <3>0, <3>2, <4>1, MaxIsGreatest, Zenon
      <4> DEFINE m == Max(gone)
      <4>3. nextLeastUnacked' = IF m >= nextLeastUnacked THEN m + 1 ELSE nextLeastUnacked
        BY <2>1, <3>2 DEF LeastUnackedAfter
      <4> HIDE DEF m
      <4> QED BY <3>0, <4>2, <4>3 DEF m
    <3> QED BY <3>1, <3>2
  <2>5. lossTime' \in BOOLEAN /\ alarm' \in BOOLEAN /\ tlpCount' \in Nat
    BY <2>1 DEF SentTypeOK
  <2> QED BY <2>1, <2>3, <2>4, <2>5, Zenon DEF AckTaken
<1> QED BY <1>1, <1>2, <1>3 DEF ReceivedClosePath

\* What a CLOSE_PATH frame of the peer does.
LEMMA CloseOutcome ==
    ASSUME IInv, NEW c \in closePackets, ReceiveClosePath(c)
    PROVE  /\ AckTaken(c.frame, c.frame.LargestAcked, c.pn) /\ LargestAcked' = LargestAcked
           /\ NewlyAcked(c.frame) \subseteq delivered
           /\ c.frame.LargestAcked \in Nat /\ c.pn \in Nat
<1>1. c.frame.LargestAcked \in Nat /\ c.pn \in Nat /\ SentTypeOK /\ SenderInv
  BY DEF IInv, TypeOK
<1>2. NewlyAcked(c.frame) \subseteq delivered
  BY Zenon DEF IInv, CloseInv, NewlyAcked, TypeOK, SentTypeOK
<1>3. ReceivedClosePath(c.frame, c.pn) \/ UNCHANGED sentVars
  BY Zenon DEF ReceiveClosePath
<1> QED BY <1>1, <1>2, <1>3, ReceivedClosePathOutcome, UnchangedTaken, Zenon

\* The path is told to stop.
LEMMA ReceiveClosePathStep ==
    ASSUME IInv, NEW c \in closePackets, ReceiveClosePath(c)
    PROVE  IInv'
<1> DEFINE f == c.frame
           n == c.frame.LargestAcked
           k == c.pn
<1>1. AckTaken(f, n, k) /\ n \in Nat /\ k \in Nat /\ NewlyAcked(f) \subseteq delivered
      /\ LargestAcked' = LargestAcked
  BY CloseOutcome, Zenon
<1>2. n <= largestObserved /\ k <= lastAckPacket
  BY Zenon DEF IInv, CloseInv
<1>3. /\ acked' = acked \cup (packetHistory \ (packetHistory' \cup retransmissionQueue'))
      /\ pathState' = IF pathState = "open" THEN "closing" ELSE pathState
      /\ activity' = TRUE \/ activity' = activity
      /\ UNCHANGED <<receivedVars, pending, retransmissions, packets, ackPackets, lastAckPacket,
                     delivered, ackDelivered, lossVars, closePackets, boundVars>>
  BY Zenon DEF ReceiveClosePath
<1> HIDE DEF f, n, k
<1>4. n <= lastSentPacketNumber
  <2>1. largestObserved \in Nat /\ lastSentPacketNumber \in Nat
    BY DEF IInv, TypeOK, ReceivedTypeOK, SentTypeOK
  <2>2. largestObserved # 0 => largestObserved <= lastSentPacketNumber
    BY DEF IInv, ReceiverInv, NetworkInv
  <2> QED BY <1>1, <1>2, <2>1, <2>2
<1>5. ackDelivered' \subseteq Nat /\ activity' \in BOOLEAN
      /\ pathState' \in {"open", "closing", "closed"}
  BY <1>3 DEF IInv, TypeOK
<1> QED BY <1>1, <1>2, <1>3, <1>4, <1>5, AckTakenStep, Zenon

\* The frame that closes the path is an ACK frame under another name.
LEMMA SendClosePathStep ==
    ASSUME IInv, SendClosePath
    PROVE  IInv'
<1> DEFINE new == [pn |-> lastAckPacket + 1, frame |-> AckFrame]
<1>1. TypeOK /\ ReceiverInv /\ ~receiveError /\ receivedHistory # {}
  BY DEF IInv, SendClosePath, Running
<1>2. /\ AckFrame \in [LargestAcked : Nat, LowestAcked : Nat, AckRanges : SUBSET Nat]
      /\ {p \in PacketNumbers : AcksPacket(AckFrame, p)} = receivedHistory
  BY <1>1, AckFrameExact
<1>3. /\ closePackets' = closePackets \cup {new}
      /\ lastAckPacket' = lastAckPacket + 1 /\ lastAckPacket \in Nat
      /\ UNCHANGED <<sentVars, receivedVars, pending, retransmissions, packets, ackPackets,
                     delivered, ackDelivered, lossVars, acked, pathState, activity, boundVars>>
  BY Zenon DEF SendClosePath, IInv, TypeOK
<1> HIDE DEF new
<1>4. /\ new.pn = lastAckPacket + 1 /\ new.frame = AckFrame
      /\ AckFrame.LargestAcked = largestObserved
      /\ new \in [pn : Nat, frame : [LargestAcked : Nat, LowestAcked : Nat, AckRanges : SUBSET Nat]]
  <2>1. AckFrame.LargestAcked = largestObserved
    BY DEF AckFrame
  <2>2. /\ new.pn = lastAckPacket + 1 /\ new.frame = AckFrame
        /\ new \in [pn : Nat, frame : [LargestAcked : Nat, LowestAcked : Nat, AckRanges : SUBSET Nat]]
    BY <1>2, <1>3, SMTT(30), Zenon DEF new
  <2> QED BY <2>1, <2>2
<1>5. TypeOK'
  <2>1. closePackets' \subseteq [pn : Nat, frame : [LargestAcked : Nat, LowestAcked : Nat,
                                                    AckRanges : SUBSET Nat]]
    BY <1>3, <1>4 DEF IInv, TypeOK
  <2>2. lastAckPacket' \in Nat
    BY <1>3
  <2> QED BY <1>3, <2>1, <2>2, Zenon DEF IInv, TypeOK, SentTypeOK, ReceivedTypeOK, sentVars,
             stopWaitingVars, receivedVars, ackDecisionVars, lossVars, boundVars
<1>6. SenderInv' /\ NetworkInv' /\ NoFalseAck' /\ NoAckRejected' /\ ReceiverInv'
  BY <1>3, Zenon DEF IInv, SenderInv, NetworkInv, StopWaitingBelowPacket, NoFalseAck, NoAckRejected,
         ReceiverInv, sentVars, stopWaitingVars, receivedVars, ackDecisionVars
<1>7. AcksInv'
  <2>1. \A a \in ackPackets : a.pn \in Nat /\ a.pn <= lastAckPacket + 1
    BY <1>3 DEF IInv, TypeOK, AcksInv
  <2>2. largestReceivedPacketWithAck <= lastAckPacket + 1
    <3>1. largestReceivedPacketWithAck \in Nat
      BY Zenon DEF IInv, TypeOK, SentTypeOK
    <3>2. largestReceivedPacketWithAck <= lastAckPacket /\ lastAckPacket \in Nat
      BY <1>3, Zenon DEF IInv, AcksInv
    <3> QED BY <3>1, <3>2
  <2> QED BY <1>3, <2>1, <2>2, Zenon DEF IInv, AcksInv, AcksPacket, sentVars, receivedVars
<1>8. CloseInv'
  <2>1. \A c \in closePackets : c.pn \in Nat /\ c.pn <= lastAckPacket + 1
    BY <1>3 DEF IInv, TypeOK, CloseInv
  <2>2. delivered' = delivered /\ largestObserved' = largestObserved /\ largestObserved \in Nat
    BY <1>3 DEF receivedVars, IInv, TypeOK, ReceivedTypeOK
  <2>3. receivedHistory \subseteq delivered
    BY DEF IInv, ReceiverInv
  <2>4. \A p \in PacketNumbers : AcksPacket(new.frame, p) => p \in delivered
    BY <1>2, <1>4, <2>3, Zenon
  <2>5. new.pn <= lastAckPacket' /\ new.frame.LargestAcked <= largestObserved
    BY <1>3, <1>4, <2>2
  <2>6. \A c \in closePackets : /\ c.pn <= lastAckPacket'
                                /\ c.frame.LargestAcked <= largestObserved
                                /\ \A p \in PacketNumbers : AcksPacket(c.frame, p) => p \in delivered
    BY <1>3, <2>1, Zenon DEF IInv, CloseInv
  <2> QED BY <1>3, <2>2, <2>4, <2>5, <2>6, Zenon DEF CloseInv, AcksPacket
<1> QED BY <1>5, <1>6, <1>7, <1>8 DEF IInv

\* The packets of S go from the history to the retransmission queue.
Requeued(S) ==
    /\ packetHistory' = packetHistory \ S
    /\ retransmissionQueue' = retransmissionQueue \cup S
    /\ nextLeastUnacked' = IF S # {} THEN LeastUnackedAfter(Max(S)) ELSE nextLeastUnacked
    /\ UNCHANGED <<largestLeastUnackedSent, lastStopWaitingFrame>>

\* What the path timer moves to the retransmission queue is outstanding.
LEMMA AlarmOutcome ==
    ASSUME IInv, Alarm
    PROVE  \E S : /\ S \subseteq packetHistory
                  /\ Requeued(S)
                  /\ lossTime' \in BOOLEAN /\ tlpCount' \in Nat
<1>1. packetHistory \subseteq 1 .. MaxPacketNumber
  BY Zenon DEF IInv, TypeOK, SentTypeOK, PacketNumbers
<1>0. CASE OnIdleAlarm
  <2>1. Requeued({})
    BY <1>0 DEF OnIdleAlarm, Requeued, stopWaitingVars
  <2>2. lossTime' \in BOOLEAN /\ tlpCount' \in Nat
    BY <1>0 DEF OnIdleAlarm, IInv, TypeOK, SentTypeOK
  <2> QED BY <2>1, <2>2
<1>2. CASE OnLossAlarm
  <2>1. PICK gone \in LostPrefixes(LossCandidates(packetHistory, LargestAcked)) :
           /\ QueuePacketsForRetransmission(gone)
           /\ lossTime' = (gone # LossCandidates(packetHistory, LargestAcked))
    BY <1>2, Zenon DEF OnLossAlarm
  <2>2. gone \subseteq packetHistory
    BY DEF LostPrefixes, LossCandidates
  <2>3. Requeued(gone)
    BY <2>1, Zenon DEF QueuePacketsForRetransmission, Requeued
  <2>4. lossTime' \in BOOLEAN /\ tlpCount' \in Nat
    BY <1>2, <2>1, Zenon DEF OnLossAlarm, IInv, TypeOK, SentTypeOK
  <2> QED BY <2>2, <2>3, <2>4
<1>3. CASE OnTailLossProbe
  <2>1. packetHistory # {}
    BY <1>3 DEF OnTailLossProbe
  <2>2. Max(packetHistory) \in packetHistory
    BY <1>1, <2>1, MaxIsGreatest, SentConstants, Zenon
  <2>3. /\ QueuePacketsForRetransmission({Max(packetHistory)})
        /\ tlpCount' = tlpCount + 1 /\ UNCHANGED lossTime
    BY <1>3, Zenon DEF OnTailLossProbe
  <2>4. Requeued({Max(packetHistory)})
    BY <2>3, Zenon DEF QueuePacketsForRetransmission, Requeued
  <2>5. tlpCount \in Nat /\ lossTime \in BOOLEAN
    BY Zenon DEF IInv, TypeOK, SentTypeOK
  <2>6. tlpCount' \in Nat
    BY <2>3, <2>5
  <2>7. lossTime' \in BOOLEAN
    BY <2>3, <2>5, Zenon
  <2>8. {Max(packetHistory)} \subseteq packetHistory
    BY <2>2, Zenon
  <2> QED BY <2>4, <2>6, <2>7, <2>8, Zenon
<1>4. CASE OnRTO(~activity)
  <2> DEFINE S == IF ~activity THEN packetHistory ELSE OldestTwo(packetHistory)
  <2>1. Requeued(S)
    BY <1>4, Zenon DEF OnRTO, QueuePacketsForRetransmission, Requeued
  <2>2. S \subseteq packetHistory
    BY DEF OldestTwo
  <2>3. lossTime' \in BOOLEAN /\ tlpCount' \in Nat
    BY <1>4 DEF OnRTO, IInv, TypeOK, SentTypeOK
  <2> QED BY <2>1, <2>2, <2>3
<1> QED BY <1>0, <1>2, <1>3, <1>4 DEF Alarm, OnAlarm

\* OnAlarm queues packets for retransmission.
LEMMA AlarmStep ==
    ASSUME IInv, Alarm
    PROVE  IInv'
<1>1. PICK S : /\ S \subseteq packetHistory
               /\ Requeued(S)
               /\ lossTime' \in BOOLEAN /\ tlpCount' \in Nat
  BY AlarmOutcome
<1>2. /\ packetHistory' = packetHistory \ S
      /\ retransmissionQueue' = retransmissionQueue \cup S
      /\ nextLeastUnacked' = IF S # {} THEN LeastUnackedAfter(Max(S)) ELSE nextLeastUnacked
      /\ UNCHANGED <<largestLeastUnackedSent, lastStopWaitingFrame>>
  BY <1>1 DEF Requeued
<1>3. /\ UNCHANGED alarmUnchanged
      /\ alarm' \in BOOLEAN
      /\ earlyAlarms' \in Nat
      /\ UNCHANGED <<receivedVars, pending, retransmissions, packets, ackPackets,
                     lastAckPacket, delivered, ackDelivered, lossVars, acked, closeVars, activity,
                     pureAcks, duplicates>>
  <2>1. earlyAlarms' \in Nat
    BY DEF Alarm, IInv, TypeOK
  <2>2. alarm' \in BOOLEAN
    BY DEF Alarm, OnAlarm, updateLossDetectionAlarm
  <2> QED BY <2>1, <2>2 DEF Alarm, OnAlarm
<1>4. S \subseteq PacketNumbers
  BY <1>1 DEF IInv, TypeOK, SentTypeOK
<1>5. /\ nextLeastUnacked' \in Nat /\ nextLeastUnacked' >= nextLeastUnacked
      /\ nextLeastUnacked' = nextLeastUnacked \/ nextLeastUnacked' <= lastSentPacketNumber + 1
      /\ nextLeastUnacked \in Nat /\ lastStopWaitingFrame \in Nat /\ lastSentPacketNumber \in Nat
  <2>1. nextLeastUnacked \in Nat /\ lastStopWaitingFrame \in Nat /\ lastSentPacketNumber \in Nat
    BY DEF IInv, TypeOK, SentTypeOK
  <2>2. CASE S = {}
    BY <1>2, <2>1, <2>2
  <2>3. CASE S # {}
    <3>1. S \subseteq 1 .. lastSentPacketNumber
      BY <1>1 DEF IInv, SenderInv
    <3>2. Max(S) \in 1 .. lastSentPacketNumber
      BY <2>1, <2>3, <3>1, MaxIsGreatest, Zenon
    <3> DEFINE m == Max(S)
    <3>3. nextLeastUnacked' = IF m >= nextLeastUnacked THEN m + 1 ELSE nextLeastUnacked
      BY <1>2, <2>3 DEF LeastUnackedAfter
    <3> HIDE DEF m
    <3> QED BY <2>1, <3>2, <3>3 DEF m
  <2> QED BY <2>2, <2>3
<1>6. TypeOK'
  <2>1. SentTypeOK'
    BY <1>1, <1>2, <1>3, <1>4, <1>5, SMTT(30), Zenon DEF IInv, TypeOK, SentTypeOK, alarmUnchanged
  <2>2. ReceivedTypeOK'
    BY <1>3 DEF IInv, TypeOK, ReceivedTypeOK, receivedVars, ackDecisionVars
  <2> QED BY <1>3, <2>1, <2>2, SMTT(30), Zenon DEF IInv, TypeOK, lossVars, closeVars
<1>7. SenderInv'
  <2>1. lastSentPacketNumber \in Nat /\ lastSentPacketNumber' = lastSentPacketNumber
        /\ skippedPackets' = skippedPackets /\ lastStopWaitingFrame' = lastStopWaitingFrame
    BY <1>2, <1>3 DEF IInv, TypeOK, SentTypeOK, alarmUnchanged
  <2>3. \A p \in Nat : p > lastSentPacketNumber => nextLeastUnacked' <= p
    BY <1>5, <2>1 DEF IInv, SenderInv
  <2>4. lastStopWaitingFrame' <= nextLeastUnacked'
    BY <1>5, <2>1 DEF IInv, SenderInv
  <2> QED BY <1>1, <1>2, <2>1, <2>3, <2>4, SMTT(30), Zenon DEF IInv, SenderInv
<1>8. NetworkInv' /\ NoFalseAck' /\ NoAckRejected'
  BY <1>3 DEF IInv, NetworkInv, StopWaitingBelowPacket, NoFalseAck, NoAckRejected, alarmUnchanged
<1>9. ReceiverInv' /\ AcksInv' /\ CloseInv'
  <2>1. ReceiverInv'
    BY <1>3 DEF IInv, ReceiverInv, receivedVars, ackDecisionVars
  <2>2. AcksInv' /\ CloseInv'
    BY <1>3, Zenon DEF IInv, AcksInv, CloseInv, AcksPacket, receivedVars, alarmUnchanged, closeVars
  <2> QED BY <2>1, <2>2
<1> QED BY <1>6, <1>7, <1>8, <1>9 DEF IInv

\* A step that changes neither books nor frames keeps the invariant.
LEMMA UnchangedStep ==
    ASSUME IInv, UNCHANGED <<sentVars, receivedVars, pending, retransmissions, packets, ackPackets,
                             lastAckPacket, delivered, ackDelivered, acked, closePackets, activity,
                             boundVars>>,
           pathState' \in {"open", "closing", "closed"},
           lost' \subseteq PacketNumbers, ackLost' \subseteq Nat
    PROVE  IInv'
<1> USE DEF IInv, sentVars, stopWaitingVars, receivedVars, ackDecisionVars, boundVars
<1>1. TypeOK'
  BY Zenon DEF TypeOK, SentTypeOK, ReceivedTypeOK
<1>2. SenderInv' /\ NetworkInv' /\ NoFalseAck' /\ NoAckRejected'
  BY Zenon DEF SenderInv, NetworkInv, StopWaitingBelowPacket, NoFalseAck, NoAckRejected
<1>3. ReceiverInv' /\ AcksInv' /\ CloseInv'
  BY Zenon DEF ReceiverInv, AcksInv, CloseInv, AcksPacket
<1> QED BY <1>1, <1>2, <1>3

\* Every step keeps the invariant.
LEMMA NextIInv == IInv /\ [Next]_vars => IInv'
<1> SUFFICES ASSUME IInv, [Next]_vars PROVE IInv'
  OBVIOUS
<1>1. ASSUME NEW pn \in NextNumbers, NEW b \in BOOLEAN, SendData(pn, b) PROVE IInv'
  BY <1>1, SendDataStep
<1>2. ASSUME NEW pn \in NextNumbers, SendPureAck(pn) PROVE IInv'
  BY <1>2, SendPureAckStep
<1>3. ASSUME NEW m \in packets, ReceivePacket(m) PROVE IInv'
  BY <1>3, ReceivePacketStep
<1>4. CASE SendAck
  BY <1>4, SendAckStep
<1>5. ASSUME NEW a \in ackPackets, ReceiveAckPacket(a) PROVE IInv'
  BY <1>5, ReceiveAckPacketStep
<1>6. CASE Alarm
  BY <1>6, AlarmStep, SMTT(30), Zenon
<1>7. CASE Lose
  <2>1. lost' \subseteq PacketNumbers /\ ackLost' \subseteq Nat
    BY <1>7, Zenon DEF Lose, IInv, TypeOK
  <2>2. pathState' \in {"open", "closing", "closed"} /\ closePackets' = closePackets
    BY <1>7, Zenon DEF Lose, IInv, TypeOK, closeVars
  <2> QED BY <1>7, <2>1, <2>2, UnchangedStep, Zenon DEF Lose
<1>8. CASE UNCHANGED vars
  <2>1. lost' \subseteq PacketNumbers /\ ackLost' \subseteq Nat
    BY <1>8 DEF vars, lossVars, IInv, TypeOK
  <2>2. pathState' \in {"open", "closing", "closed"} /\ closePackets' = closePackets
    BY <1>8 DEF vars, closeVars, IInv, TypeOK
  <2> QED BY <1>8, <2>1, <2>2, UnchangedStep, SMTT(30), Zenon DEF vars
<1>9. CASE SendClosePath
  BY <1>9, SendClosePathStep
<1>10. ASSUME NEW c \in closePackets, ReceiveClosePath(c) PROVE IInv'
  BY <1>10, ReceiveClosePathStep
<1>11. CASE PathStops
  <2>1. lost' \subseteq PacketNumbers /\ ackLost' \subseteq Nat
    BY <1>11, Zenon DEF PathStops, lossVars, IInv, TypeOK
  <2> QED BY <1>11, <2>1, UnchangedStep, Zenon DEF PathStops
<1> QED BY <1>1, <1>2, <1>3, <1>4, <1>5, <1>6, <1>7, <1>8, <1>9, <1>10, <1>11 DEF Next

\* The strengthened invariant holds in every reachable state.
THEOREM Invariance == Spec => []IInv
BY InitIInv, NextIInv, PTL DEF Spec

\* Every variable of the two handlers keeps its type; in particular the lower
\* limit that a STOP_WAITING frame sets never underflows.
THEOREM TypeCorrect == Spec => []TypeOK
<1>1. IInv => TypeOK
  BY DEF IInv
<1> QED BY <1>1, Invariance, PTL

\* GetAckFrame always has a range to report, and its frame acknowledges exactly
\* the packets of the history.
THEOREM AckFrames == Spec => []AckFrameFaithful
<1>1. IInv => AckFrameFaithful
  BY AckFrameExact DEF IInv, AckFrameFaithful, Running
<1> QED BY <1>1, Invariance, PTL

\* Whatever the network does, a packet that the sender forgets as acknowledged
\* has arrived.
THEOREM AcksAreTrue == Spec => []NoFalseAck
<1>1. IInv => NoFalseAck
  BY DEF IInv
<1> QED BY <1>1, Invariance, PTL

\* ReceivedAck never closes the session of two correct endpoints.
THEOREM AcksAreAccepted == Spec => []NoAckRejected
<1>1. IInv => NoAckRejected
  BY DEF IInv
<1> QED BY <1>1, Invariance, PTL

\* A STOP_WAITING frame can always be written in the packet that carries it.
THEOREM StopWaitingWritable == Spec => []StopWaitingBelowPacket
<1>1. IInv => StopWaitingBelowPacket
  BY DEF IInv, NetworkInv
<1> QED BY <1>1, Invariance, PTL

\* LargestAcked never decreases: ACK packets with larger numbers report larger
\* packets, and ReceivedAck takes them in the order of their numbers.
THEOREM AckedMonotone == Spec => LargestAckedMonotone
<1>1. IInv /\ [Next]_vars => [LargestAcked' >= LargestAcked]_vars
  <2> SUFFICES ASSUME IInv, Next PROVE LargestAcked' >= LargestAcked
    BY SMTT(30), Zenon
  <2>1. LargestAcked \in Nat
    BY SMTT(30), Zenon DEF IInv, TypeOK, SentTypeOK
  <2>2. ASSUME NEW a \in ackPackets, ReceiveAckPacket(a) PROVE LargestAcked' >= LargestAcked
    <3>1. a.pn > largestReceivedPacketWithAck => a.frame.LargestAcked >= LargestAcked
      BY DEF IInv, AcksInv
    <3>2. \/ LargestAcked' = LargestAcked
          \/ LargestAcked' = a.frame.LargestAcked /\ a.pn > largestReceivedPacketWithAck
      BY <2>2, Zenon DEF ReceiveAckPacket, ReceivedAck, AckForUnsentPacket, DuplicateOrOutOfOrderAck,
                  RepeatedAck, AckForSkippedPacket, NewAck, FreshAck, sentVars
    <3> QED BY <2>1, <3>1, <3>2, SMTT(30), Zenon
  <2>3. ASSUME NEW c \in closePackets, ReceiveClosePath(c) PROVE LargestAcked' = LargestAcked
    BY <2>3, CloseOutcome
  <2>4. ASSUME ~\E a \in ackPackets : ReceiveAckPacket(a),
               ~\E c \in closePackets : ReceiveClosePath(c)
        PROVE  LargestAcked' = LargestAcked
    BY <2>4, Zenon DEF Next, SendData, SendPureAck, Transmit, ReceivePacket, SendAck, SendClosePath,
                PathStops, Alarm, OnAlarm, alarmUnchanged, Lose, sentVars
  <2> QED BY <2>1, <2>2, <2>3, <2>4
<1> QED BY <1>1, Invariance, PTL DEF Spec, LargestAckedMonotone
-----------------------------------------------------------------------------
\* The data d goes out in packet pn.
DataSent(pn, d) ==
    /\ \E lu : packets' = packets \cup {[pn |-> pn, leastUnacked |-> lu, data |-> d]}
    /\ d # NoData => packetHistory' = packetHistory \cup {pn}
    /\ packetHistory \subseteq packetHistory'
    /\ \/ /\ retransmissions' = (retransmissions \cup DataIn(retransmissionQueue)) \ {d}
          /\ pending' = pending
       \/ /\ retransmissions' = retransmissions
          /\ retransmissions \cup DataIn(retransmissionQueue) = {}
          /\ pending' = pending \ {d}
    /\ UNCHANGED <<LargestAcked, lossTime, delivered>>

\* A packet with data is accepted by the handler and put in the history whenever
\* the path may send: SendingAllowed leaves room for it.
LEMMA SendDataOutcome ==
    ASSUME IInv, NEW pn \in NextNumbers, NEW b \in BOOLEAN, SendData(pn, b)
    PROVE  \E d : DataSent(pn, d)
<1> DEFINE again == retransmissions \cup DataIn(retransmissionQueue)
           lu == IF b \/ again # {} THEN StopWaiting(again # {}) ELSE 0
<1>1. PICK d : /\ Transmit(pn, lu, d, {})
               /\ \/ retransmissions' = again \ {d} /\ pending' = pending
                  \/ /\ retransmissions' = retransmissions /\ again = {}
                     /\ pending' = pending \ {d}
  BY Zenon DEF SendData
<1> HIDE DEF lu, again
<1>2. ~(Cardinality({}) + Cardinality(packetHistory) + 1 > MaxTrackedSentPackets)
  <2>1. IsFiniteSet(1 .. MaxPacketNumber)
    BY FS_Interval, SentConstants
  <2>2. IsFiniteSet(packetHistory) /\ IsFiniteSet(retransmissionQueue)
    BY <2>1, FS_Subset, Zenon DEF IInv, TypeOK, SentTypeOK, PacketNumbers
  <2>3. Cardinality(packetHistory) \in Nat /\ Cardinality(retransmissionQueue) \in Nat
    BY <2>2, FS_CardinalityType, SMTT(30), Zenon
  <2>4. ~(Cardinality(retransmissionQueue) + Cardinality(packetHistory) >= MaxTrackedSentPackets)
    BY Zenon DEF SendData, SendingAllowed
  <2>5. Cardinality({}) = 0
    BY FS_EmptySet
  <2> QED BY <2>3, <2>4, <2>5, SentConstants
<1>3. /\ sendError' = sendError
      /\ d # NoData => packetHistory' = packetHistory \cup {pn}
      /\ packetHistory \subseteq packetHistory'
  BY <1>1, <1>2, Zenon DEF Transmit, SentPacket
<1>4. sendError = "none"
  BY SMTT(30), Zenon DEF SendData, Running
<1>5. packets' = packets \cup {[pn |-> pn, leastUnacked |-> lu, data |-> d]}
  BY <1>1, <1>3, <1>4, Zenon DEF Transmit
<1>6. UNCHANGED <<LargestAcked, lossTime, delivered>>
  BY <1>1, Zenon DEF Transmit
<1>7. DataSent(pn, d)
  BY <1>1, <1>3, <1>5, <1>6, Zenon DEF again, DataSent
<1> QED BY <1>7

\* Data stays on the sender's books, or in the network's, in every step.
LEMMA DataStep == IInv /\ NoDataForgotten /\ [Next]_vars => NoDataForgotten'
<1> SUFFICES ASSUME IInv, [Next]_vars, NEW e \in Data,
                    e \in pending \cup retransmissions
                          \cup DataIn(packetHistory \cup retransmissionQueue \cup delivered)
             PROVE  e \in pending' \cup retransmissions'
                          \cup DataIn(packetHistory \cup retransmissionQueue \cup delivered)'
  BY Zenon DEF NoDataForgotten
<1> DEFINE Books == packetHistory \cup retransmissionQueue \cup delivered
<1>0. ASSUME packets \subseteq packets', pending' = pending, retransmissions' = retransmissions,
             Books \subseteq Books'
      PROVE  e \in pending' \cup retransmissions' \cup DataIn(Books)'
  BY <1>0, Zenon DEF DataIn
<1>1. ASSUME NEW pn \in NextNumbers, NEW b \in BOOLEAN, SendData(pn, b)
      PROVE  e \in pending' \cup retransmissions' \cup DataIn(Books)'
  <2>1. PICK d : DataSent(pn, d)
    BY <1>1, SendDataOutcome
  <2> USE DEF DataSent
  <2>2. PICK lu : packets' = packets \cup {[pn |-> pn, leastUnacked |-> lu, data |-> d]}
    BY <2>1, Zenon
  <2>3. CASE e = d
    <3>1. pn \in packetHistory'
      BY <2>1, <2>3, PathConstants, Zenon
    <3>2. [pn |-> pn, leastUnacked |-> lu, data |-> e] \in packets'
      BY <2>2, <2>3
    <3> QED BY <3>1, <3>2 DEF DataIn
  <2>4. CASE e # d
    <3>0. /\ e \in pending => e \in pending'
          /\ e \in retransmissions \cup DataIn(retransmissionQueue) => e \in retransmissions'
      BY <2>1, <2>4
    <3>1. CASE e \in pending
      BY <3>0, <3>1
    <3>2. CASE e \in retransmissions \cup DataIn(retransmissionQueue)
      BY <3>0, <3>2, SMTT(30), Zenon
    <3>3. CASE e \in DataIn(packetHistory \cup delivered)
      BY <2>1, <2>2, <3>3, SMTT(30), Zenon DEF DataIn
    <3> QED BY <3>1, <3>2, <3>3, Zenon DEF DataIn
  <2> QED BY <2>3, <2>4
<1>2. ASSUME NEW pn \in NextNumbers, SendPureAck(pn)
      PROVE  e \in pending' \cup retransmissions' \cup DataIn(Books)'
  <2>1. /\ pending' = pending /\ retransmissions' = retransmissions
        /\ retransmissionQueue' = retransmissionQueue
        /\ Transmit(pn, StopWaiting(FALSE), NoData, retransmissionQueue)
    BY <1>2, Zenon DEF SendPureAck
  <2>2. packets \subseteq packets' /\ delivered' = delivered
    BY <2>1, Zenon DEF Transmit
  <2>3. packetHistory \subseteq packetHistory'
    BY <2>1, Zenon DEF Transmit, SentPacket
  <2> QED BY <1>0, <2>1, <2>2, <2>3
<1>3. ASSUME NEW m \in packets, ReceivePacket(m)
      PROVE  e \in pending' \cup retransmissions' \cup DataIn(Books)'
  BY <1>0, <1>3, Zenon DEF ReceivePacket, sentVars
<1>4. ASSUME SendAck \/ SendClosePath \/ PathStops \/ Lose \/ UNCHANGED vars
      PROVE  e \in pending' \cup retransmissions' \cup DataIn(Books)'
  BY <1>0, <1>4, Zenon DEF SendAck, SendClosePath, PathStops, Lose, vars, sentVars
<1>5. ASSUME NEW a \in ackPackets, ReceiveAckPacket(a)
      PROVE  e \in pending' \cup retransmissions' \cup DataIn(Books)'
  <2>1. Books \subseteq Books'
    <3>1. /\ retransmissionQueue \subseteq retransmissionQueue'
          /\ packetHistory \ (packetHistory' \cup retransmissionQueue') \subseteq delivered
      BY <1>5, AckOutcome, Zenon DEF AckTaken
    <3>2. delivered' = delivered
      BY <1>5, SMTT(30), Zenon DEF ReceiveAckPacket
    <3> QED BY <3>1, <3>2
  <2> QED BY <1>0, <1>5, <2>1 DEF ReceiveAckPacket
<1>6. ASSUME Alarm
      PROVE  e \in pending' \cup retransmissions' \cup DataIn(Books)'
  <2>1. Books \subseteq Books'
    BY <1>6, AlarmOutcome, Zenon DEF Requeued, Alarm
  <2> QED BY <1>0, <1>6, <2>1 DEF Alarm
<1>7. ASSUME NEW c \in closePackets, ReceiveClosePath(c)
      PROVE  e \in pending' \cup retransmissions' \cup DataIn(Books)'
  <2>1. Books \subseteq Books'
    <3>1. /\ retransmissionQueue \subseteq retransmissionQueue'
          /\ packetHistory \ (packetHistory' \cup retransmissionQueue') \subseteq delivered
      BY <1>7, CloseOutcome, Zenon DEF AckTaken
    <3>2. delivered' = delivered
      BY <1>7, SMTT(30), Zenon DEF ReceiveClosePath
    <3> QED BY <3>1, <3>2
  <2> QED BY <1>0, <1>7, <2>1 DEF ReceiveClosePath
<1> QED BY <1>1, <1>2, <1>3, <1>4, <1>5, <1>6, <1>7 DEF Next

\* Data is never forgotten, for any number of packets, losses and timeouts.
THEOREM DataKept == Spec => []NoDataForgotten
<1>1. Init => NoDataForgotten
  BY DEF Init, NoDataForgotten
<1> QED BY <1>1, DataStep, Invariance, PTL DEF Spec

\* On an open path the loss timer is set only while detectLostPackets has a
\* packet for it.
THEOREM LossTimerIsUseful == Spec => []LossTimerHasPacket
<1>1. Init => LossTimerHasPacket
  BY DEF Init, SentInit, LossTimerHasPacket
<1>2. IInv /\ LossTimerHasPacket /\ [Next]_vars => LossTimerHasPacket'
  <2> SUFFICES ASSUME IInv, LossTimerHasPacket, [Next]_vars, lossTime', pathState' = "open"
               PROVE  \E p \in packetHistory' : p <= LargestAcked'
    BY DEF LossTimerHasPacket, LossCandidates
  <2>a. pathState = "open" /\ ~\E c \in closePackets : ReceiveClosePath(c)
    <3>1. ~\E c \in closePackets : ReceiveClosePath(c)
      BY DEF ReceiveClosePath
    <3>2. pathState' = pathState
      BY <3>1, Zenon DEF Next, SendData, SendPureAck, Transmit, ReceivePacket, SendAck, SendClosePath,
            ReceiveAckPacket, PathStops, Alarm, Lose, vars, closeVars
    <3> QED BY <3>1, <3>2
  <2>0. ASSUME lossTime, packetHistory \subseteq packetHistory', LargestAcked' = LargestAcked
        PROVE  \E p \in packetHistory' : p <= LargestAcked'
    BY <2>0, <2>a DEF LossTimerHasPacket, LossCandidates
  <2>1. ASSUME NEW pn \in NextNumbers, NEW b \in BOOLEAN, SendData(pn, b)
        PROVE  \E p \in packetHistory' : p <= LargestAcked'
    BY <2>0, <2>1, SendDataOutcome, Zenon DEF DataSent
  <2>2. ASSUME NEW pn \in NextNumbers, SendPureAck(pn)
        PROVE  \E p \in packetHistory' : p <= LargestAcked'
    BY <2>0, <2>2, Zenon DEF SendPureAck, Transmit, SentPacket
  <2>3. ASSUME \/ \E m \in packets : ReceivePacket(m)
               \/ SendAck \/ SendClosePath \/ PathStops \/ Lose \/ UNCHANGED vars
        PROVE  \E p \in packetHistory' : p <= LargestAcked'
    BY <2>0, <2>3, Zenon DEF ReceivePacket, SendAck, SendClosePath, PathStops, Lose, vars, sentVars
  <2>4. ASSUME NEW a \in ackPackets, ReceiveAckPacket(a)
        PROVE  \E p \in packetHistory' : p <= LargestAcked'
    <3>1. CASE NewAck(a.frame, a.pn)
      <4> DEFINE candidates == LossCandidates(packetHistory \ NewlyAcked(a.frame), a.frame.LargestAcked)
      <4>1. PICK gone \in LostPrefixes(candidates) :
               /\ packetHistory' = (packetHistory \ NewlyAcked(a.frame)) \ gone
               /\ lossTime' = (gone # candidates)
        BY <3>1, Zenon DEF NewAck
      <4>2. LargestAcked' = a.frame.LargestAcked
        BY <3>1, Zenon DEF NewAck
      <4>3. gone \subseteq candidates /\ gone # candidates
        BY <4>1, Zenon DEF LostPrefixes
      <4>4. PICK p \in candidates : p \notin gone
        BY <4>3, Zenon
      <4> QED BY <4>1, <4>2, <4>4, Zenon DEF LossCandidates
    <3>2. CASE ~NewAck(a.frame, a.pn)
      <4>1. sendError' = sendError /\ sendError = "none"
        BY <2>4, AckOutcome, Zenon DEF AckTaken, ReceiveAckPacket, Running
      <4>2. UNCHANGED <<lossTime, packetHistory, LargestAcked>>
        BY <2>4, <3>2, <4>1, Zenon DEF ReceiveAckPacket, ReceivedAck, AckForUnsentPacket,
              DuplicateOrOutOfOrderAck, RepeatedAck, AckForSkippedPacket, sentVars
      <4> QED BY <2>0, <4>2
    <3> QED BY <3>1, <3>2
  <2>5. ASSUME Alarm PROVE \E p \in packetHistory' : p <= LargestAcked'
    <3>1. LargestAcked' = LargestAcked
      BY <2>5 DEF Alarm, OnAlarm, alarmUnchanged
    <3>2. CASE OnLossAlarm
      <4> DEFINE candidates == LossCandidates(packetHistory, LargestAcked)
      <4>1. PICK gone \in LostPrefixes(candidates) :
               packetHistory' = packetHistory \ gone /\ lossTime' = (gone # candidates)
        BY <3>2, Zenon DEF OnLossAlarm, QueuePacketsForRetransmission
      <4>2. gone \subseteq candidates /\ gone # candidates
        BY <4>1, Zenon DEF LostPrefixes
      <4>3. PICK p \in candidates : p \notin gone
        BY <4>2
      <4> QED BY <3>1, <4>1, <4>3 DEF LossCandidates
    <3>3. CASE OnIdleAlarm \/ OnTailLossProbe \/ OnRTO(~activity)
      BY <2>a, <3>3, Zenon DEF OnIdleAlarm, OnTailLossProbe, OnRTO, LossTimerHasPacket, LossCandidates
    <3> QED BY <2>5, <3>2, <3>3 DEF Alarm, OnAlarm
  <2> QED BY <2>a, <2>1, <2>2, <2>3, <2>4, <2>5 DEF Next
<1> QED BY <1>1, <1>2, Invariance, PTL DEF Spec
=============================================================================
