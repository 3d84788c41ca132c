------------------------------- MODULE AckPath -------------------------------
(***************************************************************************)
(* One direction of one path: an endpoint sends packets numbered by its    *)
(* packet number generator, the network loses, duplicates, delays and      *)
(* reorders them, and the peer acknowledges them.                          *)
(*                                                                         *)
(* The sender's actions are one round of scheduler.sendPacket for the path *)
(* (dequeue the retransmissions, then pack and send a packet) and its path *)
(* timer; the receiver's are path.handlePacketImpl and the sending of an   *)
(* ACK.  ACK packets are neither retransmitted nor acknowledged for their  *)
(* own sake, so the reverse direction needs only its packet numbers.       *)
(***************************************************************************)
EXTENDS SentPacketHandler, ReceivedPacketHandler

CONSTANTS Data,           \* the data to deliver, one retransmittable packet each
          NoData,         \* what a packet without retransmittable frames carries
          MaxSkip,        \* how many numbers the generator may skip at a time
          MaxPureAcks,    \* bound on the sender's own ACK-only packets
          MaxDuplicates,  \* bound on the packets the network duplicates
          MaxLosses,      \* bound on the packets the network loses
          MaxClosePaths,  \* bound on the CLOSE_PATH frames of the peer
          MaxEarlyAlarms  \* bound on the alarms that fire before the answer comes

ASSUME PathConstants ==
    /\ NoData \notin Data
    /\ MaxSkip \in Nat /\ MaxPureAcks \in Nat /\ MaxDuplicates \in Nat
    /\ MaxLosses \in Nat /\ MaxClosePaths \in Nat /\ MaxEarlyAlarms \in Nat

VARIABLES pending,        \* data that the framer has not sent yet
          retransmissions,\* data that the framer has to send again
          packets,        \* packets sent, with their STOP_WAITING frame and data
          ackPackets,     \* packets sent by the peer, with their ACK frame
          lastAckPacket,  \* the last packet number the peer used
          delivered,      \* packet numbers that reached the peer
          ackDelivered,   \* the peer's packet numbers that reached the sender
          lost, ackLost,  \* packets that the network has dropped
          duplicates,     \* packets delivered more than once
          acked,          \* packets the sender took off its books as acknowledged
          pathState,      \* is the sender's path open, told to stop, or closed?
          closePackets,   \* CLOSE_PATH frames of the peer
          activity,       \* something was received since the last packet sent
          pureAcks, earlyAlarms

lossVars == <<lost, ackLost>>
closeVars == <<pathState, closePackets>>
boundVars == <<pureAcks, earlyAlarms, duplicates>>
vars == <<sentVars, receivedVars, pending, retransmissions, packets, ackPackets,
          lastAckPacket, delivered, ackDelivered, lossVars, acked, closeVars, activity,
          boundVars>>

Init ==
    /\ SentInit /\ ReceivedInit
    /\ pending = Data /\ retransmissions = {}
    /\ packets = {} /\ ackPackets = {} /\ lastAckPacket = 0
    /\ delivered = {} /\ ackDelivered = {} /\ lost = {} /\ ackLost = {}
    /\ acked = {} /\ pathState = "open" /\ closePackets = {}
    /\ activity = FALSE /\ pureAcks = 0 /\ earlyAlarms = 0 /\ duplicates = 0

Running == sendError = "none" /\ receiveError = FALSE

NextNumbers == {n \in PacketNumbers : /\ n > lastSentPacketNumber
                                      /\ n <= lastSentPacketNumber + 1 + MaxSkip}

DataIn(S) == {m.data : m \in {n \in packets : n.pn \in S}}

\* sendPackedPacket; a packet that the handler refuses is not written.
Transmit(pn, leastUnacked, data, queued) ==
    /\ SentPacket(pn, data # NoData, queued)
    /\ packets' = IF sendError' = "none"
                  THEN packets \cup {[pn |-> pn, leastUnacked |-> leastUnacked, data |-> data]}
                  ELSE packets
    /\ activity' = FALSE
    /\ UNCHANGED <<LargestAcked, largestReceivedPacketWithAck, tlpCount, lossTime,
                   receivedVars, ackPackets, lastAckPacket, delivered, ackDelivered,
                   lossVars, acked, closeVars, earlyAlarms, duplicates>>

\* sendPacket on a path that may send: the lost packets are dequeued and their
\* frames go before new data; ackQueuedHere says whether the packet also
\* carries an ACK for the other direction.
SendData(pn, ackQueuedHere) ==
    LET again == retransmissions \cup DataIn(retransmissionQueue)
        leastUnacked == IF ackQueuedHere \/ again # {} THEN StopWaiting(again # {}) ELSE 0
    IN /\ Running /\ pathState # "closed" /\ SendingAllowed
       /\ DequeuePacketsForRetransmission
       /\ IF ackQueuedHere \/ again # {} THEN GetStopWaitingFrame(again # {})
          ELSE UNCHANGED stopWaitingVars
       /\ \/ \E d \in again : /\ retransmissions' = again \ {d}
                              /\ UNCHANGED pending
                              /\ Transmit(pn, leastUnacked, d, {})
          \/ \E d \in pending : /\ again = {}
                                /\ pending' = pending \ {d}
                                /\ UNCHANGED retransmissions
                                /\ Transmit(pn, leastUnacked, d, {})
       /\ UNCHANGED pureAcks

\* ackRemainingPaths sends an ACK-only packet whether or not the path may send.
SendPureAck(pn) ==
    /\ Running /\ pureAcks < MaxPureAcks
    /\ pureAcks' = pureAcks + 1
    /\ GetStopWaitingFrame(FALSE)
    /\ Transmit(pn, StopWaiting(FALSE), NoData, retransmissionQueue)
    /\ UNCHANGED <<pending, retransmissions, retransmissionQueue>>

ReceivePacket(m) ==
    /\ Running /\ m.pn \notin lost
    /\ m.pn \in delivered => duplicates < MaxDuplicates
    /\ duplicates' = IF m.pn \in delivered THEN duplicates + 1 ELSE duplicates
    /\ ReceivedPacket(m.pn, m.data # NoData, m.leastUnacked)
    /\ delivered' = delivered \cup {m.pn}
    /\ UNCHANGED <<sentVars, pending, retransmissions, packets, ackPackets, lastAckPacket,
                   ackDelivered, lossVars, acked, closeVars, activity, pureAcks, earlyAlarms>>

\* A CLOSE_PATH frame is the last thing the peer sends for the path.
SendAck ==
    /\ Running /\ closePackets = {}
    /\ GetAckFrame
    /\ lastAckPacket' = lastAckPacket + 1
    /\ ackPackets' = ackPackets \cup {[pn |-> lastAckPacket + 1, frame |-> AckFrame]}
    /\ UNCHANGED <<sentVars, pending, retransmissions, packets, delivered, ackDelivered,
                   lossVars, acked, closeVars, activity, boundVars>>

\* handleAckFrame; the ACK travels on the path it is about, so the packet number
\* that goes with it is the one of the packet it came in; a closed path ignores
\* what it receives.
ReceiveAckPacket(a) ==
    /\ Running /\ pathState # "closed" /\ a.pn \notin ackLost
    /\ ReceivedAck(a.frame, a.pn)
    /\ acked' = acked \cup (packetHistory \ (packetHistory' \cup retransmissionQueue'))
    /\ ackDelivered' = ackDelivered \cup {a.pn}
    /\ activity' = TRUE
    /\ UNCHANGED <<receivedVars, pending, retransmissions, packets, ackPackets,
                   lastAckPacket, delivered, lossVars, closeVars, boundVars>>

\* GetClosePathFrame.  closePath is never called to send the frame, so it is up to
\* the peer when it does; it must have received a packet.  The packet number is
\* the one that goes with the frame when the sender receives it: of the packet
\* that carries it, or of the last packet on this path without an ACK.
SendClosePath ==
    /\ Running /\ receivedHistory # {}
    /\ Cardinality(closePackets) < MaxClosePaths
    /\ lastAckPacket' = lastAckPacket + 1
    /\ closePackets' = closePackets \cup {[pn |-> lastAckPacket + 1, frame |-> AckFrame]}
    /\ UNCHANGED <<sentVars, receivedVars, pending, retransmissions, packets, ackPackets,
                   delivered, ackDelivered, lossVars, acked, pathState, activity, boundVars>>

\* handleClosePathFrame: the path is told to stop, and the frame is taken for an
\* acknowledgement.  It is not when closePath fails over the records of the
\* path's streams, or the last packet received on this path brought an ACK.
ReceiveClosePath(c) ==
    /\ Running
    /\ pathState' = IF pathState = "open" THEN "closing" ELSE pathState
    /\ \/ ReceivedClosePath(c.frame, c.pn) /\ activity' = TRUE
       \/ UNCHANGED <<sentVars, activity>>
    /\ acked' = acked \cup (packetHistory \ (packetHistory' \cup retransmissionQueue'))
    /\ UNCHANGED <<receivedVars, pending, retransmissions, packets, ackPackets, lastAckPacket,
                   delivered, ackDelivered, lossVars, closePackets, boundVars>>

\* The goroutine of the path receives from closeChan and closes the path.
PathStops ==
    /\ pathState = "closing"
    /\ pathState' = "closed"
    /\ UNCHANGED <<sentVars, receivedVars, pending, retransmissions, packets, ackPackets,
                   lastAckPacket, delivered, ackDelivered, lossVars, acked, closePackets,
                   activity, boundVars>>

\* Everything sent has arrived or is lost, and no ACK is on its way.
Quiet == /\ \A m \in packets : m.pn \in delivered \cup lost
         /\ \A a \in ackPackets : a.pn \in ackDelivered \cup ackLost
         /\ ~ackQueued /\ ~ackAlarm

\* The path timer; path.onRTO takes silence since the last packet sent for a
\* potential failure of the path.
Alarm ==
    /\ Running /\ pathState # "closed"
    /\ Quiet \/ earlyAlarms < MaxEarlyAlarms
    /\ earlyAlarms' = IF Quiet THEN earlyAlarms ELSE earlyAlarms + 1
    /\ OnAlarm(~activity)
    /\ UNCHANGED <<receivedVars, pending, retransmissions, packets, ackPackets,
                   lastAckPacket, delivered, ackDelivered, lossVars, acked, closeVars, activity,
                   pureAcks, duplicates>>

Losses == Cardinality(lost) + Cardinality(ackLost)

Lose ==
    /\ Losses < MaxLosses
    /\ \/ \E m \in packets : /\ m.pn \notin delivered \cup lost
                             /\ lost' = lost \cup {m.pn} /\ UNCHANGED ackLost
       \/ \E a \in ackPackets : /\ a.pn \notin ackDelivered \cup ackLost
                                /\ ackLost' = ackLost \cup {a.pn} /\ UNCHANGED lost
    /\ UNCHANGED <<sentVars, receivedVars, pending, retransmissions, packets, ackPackets,
                   lastAckPacket, delivered, ackDelivered, acked, closeVars, activity,
                   boundVars>>

Next ==
    \/ \E pn \in NextNumbers, b \in BOOLEAN : SendData(pn, b)
    \/ \E pn \in NextNumbers : SendPureAck(pn)
    \/ \E m \in packets : ReceivePacket(m)
    \/ SendAck
    \/ \E a \in ackPackets : ReceiveAckPacket(a)
    \/ SendClosePath
    \/ \E c \in closePackets : ReceiveClosePath(c)
    \/ PathStops
    \/ Alarm
    \/ Lose

Spec == Init /\ [][Next]_vars

\* The session sends whenever it may, its timers expire, and the network
\* delivers what it does not lose.
Fairness ==
    /\ WF_vars(\E pn \in NextNumbers, b \in BOOLEAN : SendData(pn, b))
    /\ WF_vars(\E m \in packets : m.pn \notin delivered /\ ReceivePacket(m))
    /\ WF_vars(SendAck)
    /\ WF_vars(\E a \in ackPackets : a.pn \notin ackDelivered /\ ReceiveAckPacket(a))
    /\ WF_vars(Alarm)

FairSpec == Spec /\ Fairness
-----------------------------------------------------------------------------
\* The types of both handlers, of the packets and of the ACKs under way: packet
\* numbers stay positive, so no subtraction of the handlers wraps around.
TypeOK ==
    /\ SentTypeOK /\ ReceivedTypeOK
    /\ pending \subseteq Data /\ retransmissions \subseteq Data \cup {NoData}
    /\ packets \subseteq [pn : PacketNumbers, leastUnacked : Nat, data : Data \cup {NoData}]
    /\ ackPackets \subseteq [pn : Nat, frame : [LargestAcked : Nat, LowestAcked : Nat,
                                                AckRanges : SUBSET Nat]]
    /\ lastAckPacket \in Nat
    /\ delivered \subseteq PacketNumbers /\ ackDelivered \subseteq Nat
    /\ lost \subseteq PacketNumbers /\ ackLost \subseteq Nat
    /\ acked \subseteq PacketNumbers
    /\ pathState \in {"open", "closing", "closed"}
    /\ closePackets \subseteq [pn : Nat, frame : [LargestAcked : Nat, LowestAcked : Nat,
                                                  AckRanges : SUBSET Nat]]
    /\ activity \in BOOLEAN
    /\ pureAcks \in Nat /\ earlyAlarms \in Nat /\ duplicates \in Nat

\* Whenever GetAckFrame may be called it has a range to report (the code indexes
\* the last element of the ranges without looking at their number), and the
\* frame, whose ranges are left out when there is only one, acknowledges exactly
\* the packets of the history: STOP_WAITING frames that arrive late, twice or out
\* of order never make the peer forget the largest packet it has observed.
AckFrameFaithful ==
    Running /\ (ackQueued \/ ackAlarm) =>
        /\ receivedHistory # {}
        /\ {p \in PacketNumbers : AcksPacket(AckFrame, p)} = receivedHistory

\* A packet that the sender forgets as acknowledged has reached the peer.
NoFalseAck == acked \subseteq delivered

\* Data is never forgotten: until a packet with it has reached the peer it waits
\* to be sent, or it is in a packet the sender still tracks.
NoDataForgotten ==
    \A d \in Data : d \in pending \cup retransmissions
                          \cup DataIn(packetHistory \cup retransmissionQueue \cup delivered)

\* Two correct endpoints never close the session over an ACK: however packets
\* are reordered, no ACK is about a packet that was not sent or was skipped.
NoAckRejected == sendError \notin {"ackForUnsent", "ackForSkipped"}

\* A STOP_WAITING frame never announces more than the number of the packet that
\* carries it, which StopWaitingFrame.Write would reject with an error.
StopWaitingBelowPacket == \A m \in packets : m.leastUnacked <= m.pn

\* Until the path is closed the loss timer is set only while there is a packet it
\* can declare lost; otherwise it would expire for nothing and put off the probes.
LossTimerHasPacket ==
    pathState = "open" /\ lossTime => LossCandidates(packetHistory, LargestAcked) # {}

\* LargestAcked never decreases: ACKs that were overtaken are dropped.
LargestAckedMonotone == [][LargestAcked' >= LargestAcked]_vars

\* Under fairness all data reaches the peer, although packets and ACKs are lost,
\* STOP_WAITING frames skip packets and alarms fire early.
AllDelivered == <>(Data \subseteq DataIn(delivered))
=============================================================================
