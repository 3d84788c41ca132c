------------------------------ MODULE MCPackets ------------------------------
(***************************************************************************)
(* Packets on a small instance: bytes of 8 values, floats of 3 + 3 bits,   *)
(* and frames with fields at both sides of every change of width.          *)
(***************************************************************************)
EXTENDS Packets

Variant(s, l, m, t) == [sentBy |-> s, level |-> l, multipath |-> m, truncate |-> t]

MCSizes == {Variant("client", "unencrypted", FALSE, FALSE),
            Variant("client", "secure", FALSE, FALSE), Variant("client", "forward", TRUE, FALSE),
            Variant("server", "secure", FALSE, FALSE), Variant("server", "forward", FALSE, TRUE),
            Variant("server", "forward", TRUE, TRUE)}

MCNumbers == {<<n, m>> \in {40, 64, 70} \X (1 .. 70) : m <= n /\ n - m <= 40}

MCVersions == {<<>>, <<3>>, <<3, 70>>}

Edges == {1, 7, 8, 63, 64, 511, 512, 4095}

Stream(id, offset, n, fin) ==
    [type |-> "stream", StreamID |-> id, Offset |-> offset, DataLen |-> n, FinBit |-> fin,
     DataLenPresent |-> FALSE]

Paths(n, ips) ==
    [type |-> "paths", MaxNumPaths |-> MaxByte, HasIPs |-> ips,
     Paths |-> [i \in 1 .. n |-> [PathID |-> i, RemoteRTT |-> 37 * i, Port |-> IF ips THEN 20 + i ELSE 0,
                                  IP |-> IF ips THEN <<1, 2, 0, i>> ELSE <<>>]]]

Control ==
    {[type |-> "rst", StreamID |-> 5, ByteOffset |-> e, ErrorCode |-> 6] : e \in Edges}
      \cup {[type |-> "windowupdate", StreamID |-> e, ByteOffset |-> 65] : e \in Edges}
      \cup {[type |-> "close", ErrorCode |-> 70, ReasonLen |-> n] : n \in {0, 9}}
      \cup {[type |-> "goaway", ErrorCode |-> 70, LastGoodStream |-> 9, ReasonLen |-> n] : n \in {0, 9}}
      \cup {[type |-> "addaddress", IPVersion |-> 4, IP |-> <<1, 2, 3, 4>>, Port |-> 60],
            [type |-> "addaddress", IPVersion |-> 6, IP |-> [i \in 1 .. 16 |-> i % 7], Port |-> 1]}
      \cup {Paths(n, ips) : n \in 1 .. 3, ips \in BOOLEAN}
      \cup {[type |-> "ping"], Blocked(3)}

\* Received packets as the intervals of a history, the lowest first.
Atoms == <<[Start |-> 1, End |-> 2], [Start |-> 4, End |-> 4], [Start |-> 6, End |-> 6],
           [Start |-> 8, End |-> 16], [Start |-> 18, End |-> 18], [Start |-> 33, End |-> 96],
           [Start |-> 98, End |-> 98], [Start |-> 146, End |-> 146],
           [Start |-> 5000, End |-> 5001]>>

Histories == {SelectSeq(Atoms, LAMBDA a : a \in S) : S \in SUBSET Range(Atoms) \ {{}}}

RangesOf(h) == [i \in DOMAIN h |-> [First |-> Reverse(h)[i].Start, Last |-> Reverse(h)[i].End]]

AckQueues ==
    {[Plain EXCEPT !.ack = <<AckOf(RangesOf(h), IF Len(h) % 2 = 0 THEN 3 ELSE 0, 5 * Len(h))>>] :
        h \in Histories}
      \cup {[Plain EXCEPT !.control = <<[type |-> "closepath", PathID |-> 3] @@
               [k \in {"LargestAcked", "LowestAcked", "AckRanges"} |-> AckOf(RangesOf(h), 3, 0)[k]]>>] :
              h \in {x \in Histories : Len(x) % 3 # 1}}

Delays == {[Plain EXCEPT !.ack = <<AckOf(<<[First |-> 1, Last |-> 1]>>, 0, d)>>] : d \in 0 .. 40 \cup 120 .. 130 \cup 955 .. 965}

Pending(id, offset, n, fin, window, volume) ==
    [StreamID |-> id, writeOffset |-> offset, data |-> n, finished |-> fin, window |-> window,
     hasVolume |-> volume]

StreamQueues ==
    {[crypto |-> <<>>, stopWaiting |-> sw, ack |-> <<>>, control |-> c, resend |-> r, streams |-> s] :
        sw \in BOOLEAN,
        c \in {<<>>, <<Blocked(3), Paths(3, TRUE)>>, <<Blocked(3), Blocked(9)>>},
        r \in {<<>>} \cup {<<Stream(3, o, n, TRUE)>> : o \in {0, 64}, n \in {0, 5, 60}}
                \cup {<<Stream(9, 0, n, FALSE), Stream(3, 70, 30, TRUE)>> : n \in {20, 27, 31, 32, 33, 34}},
        s \in {<<>>} \cup {<<Pending(3, o, n, FALSE, w, TRUE), Pending(70, 0, d, TRUE, 63, v)>> :
                             o \in {0, 63, 64}, n \in {0, 30, 60}, w \in {0, 40}, d \in {20, 60}, v \in BOOLEAN}}

\* Data of the crypto stream, and a packet full of control frames.
Others == {[Plain EXCEPT !.crypto = <<Pending(1, o, n, FALSE, 63, TRUE)>>] : o \in {0, 64}, n \in {5, 60}}
            \cup {[Plain EXCEPT !.control = [i \in 1 .. 6 |-> IF i <= 3 THEN Blocked(i) ELSE
                     [type |-> "windowupdate", StreamID |-> i, ByteOffset |-> 65]]]}

MCQueues ==
    AckQueues \cup Delays \cup StreamQueues \cup Others
      \cup {[Plain EXCEPT !.control = c] : c \in {<<a>> : a \in Control} \cup {<<Blocked(3), a, Blocked(9)>> : a \in Control}}
      \cup {[Plain EXCEPT !.streams = <<Pending(i, o, 6, TRUE, 63, TRUE)>>] : i \in Edges \ {1}, o \in Edges \cup {0, 32767, 32768, 262144}}
=============================================================================
