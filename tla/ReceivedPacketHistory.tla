------------------------ MODULE ReceivedPacketHistory ------------------------
(***************************************************************************)
(* ackhandler/received_packet_history.go: the packet numbers received on a *)
(* path, kept as a list of disjoint intervals in ascending order, the form *)
(* in which an ACK frame reports them.                                     *)
(***************************************************************************)
EXTENDS Naturals, Sequences

CONSTANTS MaxPacketNumber,             \* bound on the packet numbers received
          MaxTrackedReceivedAckRanges  \* protocol.MaxTrackedReceivedAckRanges

VARIABLES ranges,                         \* the interval list, lowest first
          lowestInReceivedPacketNumbers,
          failed                          \* ReceivedPacket returned an error

vars == <<ranges, lowestInReceivedPacketNumbers, failed>>

PacketNumbers == 1 .. MaxPacketNumber

Interval(start, end) == [Start |-> start, End |-> end]

\* The list of utils.PacketInterval without its i-th element, and with v as
\* its i-th element.
ListRemove(l, i) == SubSeq(l, 1, i - 1) \o SubSeq(l, i + 1, Len(l))

ListInsert(l, i, v) == SubSeq(l, 1, i - 1) \o <<v>> \o SubSeq(l, i, Len(l))

Init == /\ ranges = <<>>
        /\ lowestInReceivedPacketNumbers = 0
        /\ failed = FALSE

\* Mutation: an interval grows by one packet too many.
Extended_TooFar(i, iv) == [ranges EXCEPT ![i] = [iv EXCEPT !.End = @ + 1]]

\* Extending the i-th interval to iv, merged with its predecessor when the
\* two have become adjacent.
Extended(i, iv) ==
    IF i > 1 /\ ranges[i - 1].End + 1 = iv.Start
    THEN [ListRemove(ranges, i) EXCEPT ![i - 1].End = iv.End]
    ELSE [ranges EXCEPT ![i] = iv]

\* The loop goes from the back of the list to the first interval where one of
\* its four branches returns; p goes to the front when none does.
AddPacket(p) ==
    LET Returns(i) == \/ p >= ranges[i].Start /\ p <= ranges[i].End
                      \/ ranges[i].End = p - 1
                      \/ ranges[i].Start = p + 1
                      \/ p > ranges[i].End
        hits == {i \in DOMAIN ranges : Returns(i)}
        i == CHOOSE j \in hits : \A k \in hits : k <= j
    IN IF hits = {} THEN ListInsert(ranges, 1, Interval(p, p))
       ELSE CASE p >= ranges[i].Start /\ p <= ranges[i].End -> ranges
              [] ranges[i].End = p - 1 -> Extended(i, Interval(ranges[i].Start, p))
              [] ranges[i].Start = p + 1 -> Extended(i, Interval(p, ranges[i].End))
              [] OTHER -> ListInsert(ranges, i + 1, Interval(p, p))

ReceivedPacket(p) ==
    /\ ~failed
    /\ IF Len(ranges) >= MaxTrackedReceivedAckRanges
       THEN failed' = TRUE /\ UNCHANGED ranges
       ELSE ranges' = AddPacket(p) /\ UNCHANGED failed
    /\ UNCHANGED lowestInReceivedPacketNumbers

\* The loop removes the intervals up to the first one that ends beyond p, and
\* that one loses the head that p cuts off.
DeleteUpTo(p) ==
    /\ ~failed
    /\ lowestInReceivedPacketNumbers' =
          IF p + 1 > lowestInReceivedPacketNumbers THEN p + 1
          ELSE lowestInReceivedPacketNumbers
    /\ LET beyond == {i \in DOMAIN ranges : ranges[i].End > p}
           first == CHOOSE i \in beyond : \A j \in beyond : i <= j
           kept == SubSeq(ranges, first, Len(ranges))
       IN ranges' = IF beyond = {} THEN <<>>
                    ELSE IF p >= kept[1].Start THEN [kept EXCEPT ![1].Start = p + 1]
                    ELSE kept
    /\ UNCHANGED failed

\* GetAckRanges lists the intervals highest first.
GetAckRanges ==
    [i \in DOMAIN ranges |-> LET el == ranges[Len(ranges) + 1 - i]
                             IN  [First |-> el.Start, Last |-> el.End]]

Next == \/ \E p \in PacketNumbers : ReceivedPacket(p)
        \/ \E p \in PacketNumbers \cup {0} : DeleteUpTo(p)

HistorySpec == Init /\ [][Next]_vars
-----------------------------------------------------------------------------
Members == UNION {ranges[i].Start .. ranges[i].End : i \in DOMAIN ranges}

\* The interval list implements a plain set of packet numbers, operation by
\* operation: splitting, extending and merging intervals neither invents nor
\* loses a packet, and a deletion forgets exactly the prefix.
Abs == INSTANCE PacketNumberSet WITH Numbers <- PacketNumbers,
                                     received <- Members

ImplementsSet ==
    /\ Abs!AbsSpec
    /\ [][/\ \A p \in PacketNumbers :
                ReceivedPacket(p) => IF failed' THEN Members' = Members ELSE Abs!Add(p)
          /\ \A p \in PacketNumbers \cup {0} : DeleteUpTo(p) => Abs!Forget(p)]_vars
=============================================================================
