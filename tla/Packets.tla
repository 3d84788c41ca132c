------------------------------ MODULE Packets ------------------------------
(***************************************************************************)
(* One packet from the queues of the packer to the frames that the peer    *)
(* handles: packet_packer.go composes it from the queued frames and the    *)
(* stream data that MinLength says will fit, internal/wire writes it, and  *)
(* the peer's path infers its number from a few bytes, opens and parses    *)
(* it.  Its ACK reports the history of the packets received before.  A     *)
(* packet that was not forward-secure is retransmitted whole.              *)
(***************************************************************************)
EXTENDS ReceivedPacketHistory, Wire

CONSTANTS Overhead,     \* sealer.Overhead()
          Sizes,        \* header variants: [sentBy, level, multipath, truncate]
          Numbers,      \* <<packet number, least unacknowledged one>>
          Queues,       \* what waits for a path: [crypto, stopWaiting, ack, control, resend, streams]
          SizeReduction,    \* protocol.NonForwardSecurePacketSizeReduction
          MaxAhead,     \* how far the receiver may get ahead of a numbered packet
          Versions      \* lists a server may offer

VARIABLES sent,         \* the packet under way, or NoPacket
          largestRcvd,  \* path.largestRcvdPacketNumber of the receiver
          received      \* what became of the packet

packetVars == <<sent, largestRcvd, received>>

NoPacket == [frames |-> <<>>]

PacketInit == /\ Init
              /\ sent = NoPacket
              /\ largestRcvd = 0
              /\ received = NoPacket

\* GetAckFrame of the received-packet handler.
AckOf(r, path, delay) ==
    [type |-> "ack", PathID |-> path, LargestAcked |-> r[1].Last, LowestAcked |-> Last(r).First,
     AckRanges |-> IF Len(r) > 1 THEN r ELSE <<>>, DelayTime |-> delay]

\* packetPacker.getPublicHeader
getPublicHeader(v, n, leastUnacked) ==
    [ResetFlag |-> FALSE, ConnectionID |-> 9, PacketNumber |-> n,
     PacketNumberLen |-> GetPacketNumberLengthForPublicHeader(n, leastUnacked),
     Nonce |-> v.sentBy = "server" /\ v.level = "secure",
     VersionFlag |-> v.sentBy = "client" /\ v.level # "forward",
     VersionNumber |-> IF v.sentBy = "client" /\ v.level # "forward" THEN 3 ELSE 0,
     MultipathFlag |-> v.multipath, PathID |-> IF v.multipath THEN 3 ELSE 0,
     TruncateConnectionID |-> v.truncate /\ ~v.multipath]

Blocked(id) == [type |-> "blocked", StreamID |-> id]

canSendData(v) == v.level = "forward" \/ (v.sentBy = "client" /\ v.level = "secure")
-----------------------------------------------------------------------------
(* streamFramer: the stream frames for max bytes.  Sending says which streams *)
(* and lost frames are those of the path.                                     *)

\* Mutation: a frame that has to be split does not leave room for its header.
ForRetransmission_NoHeader(q, max) ==
    LET RECURSIVE pop(_, _)
        pop(r, used) ==
            IF r = <<>> THEN <<>>
            ELSE LET f == [Head(r) EXCEPT !.DataLenPresent = TRUE]
                     len == used + StreamMinLength(f)
                 IN IF len >= max THEN <<>>
                    ELSE IF max - used < f.DataLen
                    THEN <<[f EXCEPT !.DataLen = max - used, !.FinBit = FALSE]>>
                    ELSE <<f>> \o pop(Tail(r), len + f.DataLen)
    IN pop(q, 0)

\* maybePopFramesForRetransmissionOfPath; the last frame may be split.
ForRetransmission(q, max) ==
    LET RECURSIVE pop(_, _)
        pop(r, used) ==
            IF r = <<>> THEN <<>>
            ELSE LET f == [Head(r) EXCEPT !.DataLenPresent = TRUE]
                     len == used + StreamMinLength(f)
                 IN IF len >= max THEN <<>>
                    ELSE IF max - len < f.DataLen
                    THEN <<[f EXCEPT !.DataLen = max - len, !.FinBit = FALSE]>>
                    ELSE <<f>> \o pop(Tail(r), len + f.DataLen)
    IN pop(q, 0)

Bytes(fs) == MapThenSumSet(LAMBDA i : StreamMinLength(fs[i]) + fs[i].DataLen, DOMAIN fs)

\* maybePopNormalFramesOfPath for the header stream, if the path has it, and the
\* stream that PriorityIteratePopOfPath draws.  A stream without a volume left on
\* the path only gives its last data to it.
NormalFrames(streams, max) ==
    LET RECURSIVE pop(_, _)
        pop(r, used) ==
            IF r = <<>> THEN <<>>
            ELSE LET s == Head(r)
                     f == [type |-> "stream", StreamID |-> s.StreamID, Offset |-> s.writeOffset,
                           DataLen |-> 0, FinBit |-> FALSE, DataLenPresent |-> TRUE]
                     len == used + StreamMinLength(f)
                     maxLen == IF s.data = 0 THEN max - len ELSE Min({max - len, s.window})
                     n == IF s.hasVolume \/ s.data < maxLen THEN Min({maxLen, s.data}) ELSE 0
                     fin == s.finished /\ n = s.data
                 IN IF len > max THEN <<>>
                    ELSE IF maxLen = 0 \/ (n = 0 /\ ~fin) THEN pop(Tail(r), used)
                    ELSE <<[f EXCEPT !.DataLen = n, !.FinBit = fin]>>
                           \o (IF len + n = max THEN <<>> ELSE pop(Tail(r), len + n))
    IN pop(streams, 0)

PopStreamFramesOfPath(q, max) ==
    LET fs == ForRetransmission(q.resend, max)
    IN fs \o NormalFrames(q.streams, max - Bytes(fs))

\* PopCryptoStreamFrame; the frame is the only one of its packet.
CryptoFrame(s, max) ==
    LET f == [type |-> "stream", StreamID |-> 1, Offset |-> s.writeOffset, DataLen |-> 0,
              FinBit |-> FALSE, DataLenPresent |-> FALSE]
    IN [f EXCEPT !.DataLen = Min({s.data, max - StreamMinLength(f)})]
-----------------------------------------------------------------------------
Lengths(fs) == MapThenSumSet(LAMBDA i : MinLength(fs[i]), DOMAIN fs)

\* The last STREAM frame of a packet goes without its length.
LastWithoutLength(fs) ==
    IF fs = <<>> THEN fs ELSE [fs EXCEPT ![Len(fs)].DataLenPresent = FALSE]

\* composeNextPacketOfPath: STOP_WAITING and ACK, the control frames from the last
\* one queued as long as they fit, then stream frames for 2 bytes more, which
\* the length that the last one goes without makes good.
composeNextPacketOfPath(q, stopWaiting, max, canSendStreamFrames) ==
    LET always == Opt(q.stopWaiting, <<stopWaiting>>) \o q.ack
        Newest(k) == SubSeq(Reverse(q.control), 1, k)
        k == Max({j \in 0 .. Len(q.control) : j = 0 \/ Lengths(always \o Newest(j)) <= max})
        control == always \o Newest(k)
    IN control \o Opt(canSendStreamFrames,
                      LastWithoutLength(PopStreamFramesOfPath(q, max + 2 - Lengths(control))))

TooLarge == <<-2>>    \* the error of writeAndSealPacket

\* writeAndSealPacket, before the packet is sealed.
Written(h, sentBy, fs) ==
    LET parts == [i \in DOMAIN fs |-> Write(fs[i])]
        bytes == WriteHeader(h, sentBy) \o FlattenSeq(parts)
    IN IF \E i \in DOMAIN parts : parts[i] = Refused THEN Refused
       ELSE IF Len(bytes) + Overhead > MaxPacketSize THEN TooLarge
       ELSE bytes

StopWaiting(h, leastUnacked) ==
    [type |-> "stopwaiting", LeastUnacked |-> leastUnacked,
     PacketNumber |-> h.PacketNumber, PacketNumberLen |-> h.PacketNumberLen]

\* PackPacketOfPath.  Crypto data goes first, and leaves room for what a
\* retransmission adds; a ping that is the oldest control frame goes alone; a
\* packet with nothing but STOP_WAITING is not sent.  It is assumed that the
\* receiver has every packet below leastUnacked and some of those sent after it.
PackPacketOfPath(v, n, leastUnacked, q, ahead) ==
    LET h == getPublicHeader(v, n, leastUnacked)
        max == MaxPacketSize - Overhead - GetLength(h, v.sentBy)
        crypto == q.crypto # <<>>
        isPing == q.control # <<>> /\ q.control[1].type = "ping"
        fs == IF crypto THEN <<CryptoFrame(q.crypto[1], max - SizeReduction)>>
              ELSE IF isPing THEN <<q.control[1]>>
              ELSE composeNextPacketOfPath(q, StopWaiting(h, leastUnacked), max, canSendData(v))
    IN /\ crypto => v.level # "forward"
       /\ fs # <<>> /\ ~(~crypto /\ Len(fs) = 1 /\ q.stopWaiting)
       /\ sent' = [variant |-> v, number |-> n, leastUnacked |-> leastUnacked, ahead |-> ahead,
                   crypto |-> crypto, again |-> FALSE, header |-> h, frames |-> fs,
                   bytes |-> Written(h, v.sentBy, fs)]
       /\ largestRcvd' = leastUnacked - 1
       /\ UNCHANGED <<received, vars>>

IsSent == sent # NoPacket /\ received = NoPacket /\ sent.bytes \notin {Refused, TooLarge}

\* stripNonRetransmittableFrames: what SentPacket keeps of a packet.
Retransmittable == SelectSeq(sent.frames, LAMBDA f : f.type \notin {"ack", "stopwaiting"})

\* PackHandshakeRetransmission, for a packet that is lost before the handshake is
\* complete: STOP_WAITING comes in front of everything the packet has carried.
PackHandshakeRetransmission ==
    /\ IsSent /\ largestRcvd < sent.number
    /\ sent.variant.level # "forward" /\ ~sent.again /\ Retransmittable # <<>>
    /\ LET h == getPublicHeader(sent.variant, sent.number + 1, sent.leastUnacked)
           fs == <<StopWaiting(h, sent.leastUnacked)>> \o Retransmittable
       IN sent' = [sent EXCEPT !.number = @ + 1, !.again = TRUE, !.header = h, !.frames = fs,
                               !.bytes = Written(h, sent.variant.sentBy, fs)]
    /\ UNCHANGED <<largestRcvd, received, vars>>

\* Packets sent before or after the one under way arrive first.
OthersArrive ==
    /\ sent # NoPacket /\ received = NoPacket
    /\ largestRcvd < sent.number + sent.ahead
    /\ largestRcvd' = IF largestRcvd + 1 = sent.number THEN sent.number + 1 ELSE largestRcvd + 1
    /\ UNCHANGED <<sent, received, vars>>

\* path.handlePacketImpl: a packet opened with a wrong number is dropped.
Receive ==
    /\ IsSent
    /\ LET p == ParsePublicHeader(sent.bytes, sent.variant.sentBy, TRUE)
           len == p.frame.PacketNumberLen
           n == InferPacketNumber(len, largestRcvd, p.frame.PacketNumber)
       IN /\ received' = [header |-> p.frame, number |-> n,
                          frames |-> IF n = sent.number THEN Unpack(p.rest, n, len) ELSE <<>>]
          /\ largestRcvd' = IF n = sent.number THEN Max({n, largestRcvd}) ELSE largestRcvd
    /\ UNCHANGED <<sent, vars>>

\* The history grows until the packet with the ACK is made.
History == sent = NoPacket /\ Next /\ UNCHANGED packetVars

Plain == [crypto |-> <<>>, stopWaiting |-> FALSE, ack |-> <<>>, control |-> <<>>, resend |-> <<>>, streams |-> <<>>]

PackAck ==
    /\ sent = NoPacket /\ ranges # <<>>
    /\ \E v \in {w \in Sizes : w.multipath} : PackPacketOfPath(v, 2, 1, [Plain EXCEPT !.stopWaiting = TRUE,
                                                         !.ack = <<AckOf(GetAckRanges, 0, 0)>>], 0)

Fresh == sent = NoPacket /\ ranges = <<>> /\ lowestInReceivedPacketNumbers = 0

PackQueued == Fresh /\ \E v \in Sizes, q \in Queues : PackPacketOfPath(v, 2, 1, q, 0)

PackNumbered ==
    /\ Fresh
    /\ \E v \in {w \in Sizes : w.multipath}, n \in Numbers :
          PackPacketOfPath(v, n[1], n[2], [Plain EXCEPT !.stopWaiting = TRUE, !.control = <<Blocked(7)>>], MaxAhead)

PacketNext ==
    \/ History \/ PackAck \/ PackQueued \/ PackNumbered
    \/ PackHandshakeRetransmission \/ OthersArrive \/ Receive

PacketSpec == PacketInit /\ [][PacketNext]_<<vars, packetVars>>
-----------------------------------------------------------------------------
Acked(f) == IF f.AckRanges = <<>> THEN f.LowestAcked .. f.LargestAcked
            ELSE UNION {f.AckRanges[i].First .. f.AckRanges[i].Last : i \in DOMAIN f.AckRanges}

\* The largest value of the form mantissa * 2^exponent that is not above v.
Rounded(v) ==
    Max({x \in {m * 2 ^ e : m \in 0 .. 2 ^ (MantissaBits + 1) - 1, e \in 0 .. MaxExponent} : x <= v})

\* g is what a peer may make of the ACK or CLOSE_PATH frame f: no packet is
\* acknowledged that f does not acknowledge, and one that is left out lies below
\* all that are not, and is left out because the blocks do not fit.
Reports(g, f) ==
    /\ g.type = f.type /\ g.PathID = f.PathID /\ g.LargestAcked = f.LargestAcked
    /\ Acked(g) = {p \in Acked(f) : p >= g.LowestAcked}
    /\ Acked(g) = Acked(f) \/ Blocks(f.AckRanges, Len(f.AckRanges)) >= MaxByte
    /\ f.type = "ack" => g.DelayTime = Rounded(f.DelayTime)

Same(g, f) ==
    CASE f.type \in {"ack", "closepath"} -> Reports(g, f)
      [] f.type = "paths" ->
            g = [f EXCEPT !.Paths = [i \in DOMAIN f.Paths |->
                    [f.Paths[i] EXCEPT !.RemoteRTT = Rounded(@)]]]
      [] OTHER -> g = f

Opened == received # NoPacket /\ received.number = sent.number

\* The header arrives as it was made, but for the number, and a version
\* negotiation packet brings the versions that the server offers.
HeaderArrives ==
    /\ received # NoPacket =>
          \A field \in DOMAIN sent.header \ {"PacketNumber"} :
             \/ received.header[field] = sent.header[field]
             \/ field = "ConnectionID" /\ sent.header.TruncateConnectionID
    /\ Fresh => \A vs \in Versions :
          ParsePublicHeader(ComposeVersionNegotiation(9, vs), "server", FALSE).frame.SupportedVersions = vs

\* The peer parses the header that was made and exactly the frames that were
\* packed, in their order: every width of every field, a STREAM frame without its
\* length, long gaps and ACK frames with more blocks than a byte counts survive
\* Write and Parse, an ACK never acknowledges more than the history it reports,
\* and a delay arrives rounded down to the next float16 (internal/wire,
\* packet_unpacker.go:44).
PacketArrives ==
    /\ HeaderArrives
    /\ Opened => /\ Len(received.frames) = Len(sent.frames)
                 /\ \A i \in DOMAIN sent.frames : Same(received.frames[i], sent.frames[i])

\* A packet is opened with the number it was sealed with, although only its low
\* bytes are on the wire, unless the receiver has meanwhile received packets half
\* an epoch or more ahead of it (protocol/packet_number.go:4 and 32).
NumberRecovered ==
    (received # NoPacket /\ ~Opened)
        => largestRcvd + 1 >= sent.number + Base ^ sent.header.PacketNumberLen \div 2

HasFrame(t) == \E i \in DOMAIN sent.frames : sent.frames[i].type = t

FirstGapTooLong(f) ==
    /\ f.type \in {"ack", "closepath"}
    /\ f.AckRanges # <<>>
    /\ BlocksOf(Gap(f.AckRanges, 1 + 1)) >= MaxByte

\* writeAndSealPacket ends without an error but in three cases.  The frames that
\* MinLength and GetLength say will fit do fit, also with the two bytes that the
\* packer borrows for the last STREAM frame; except for PATHS frames, whose
\* MinLength counts neither the number of addresses nor the addresses
\* (wire/paths_frame.go:169).  A retransmission that STOP_WAITING makes longer
\* fits if it is one of crypto data; one of a packet that the client has filled
\* with data, or that control frames have filled, before the keys were
\* forward-secure may be too large (packet_packer.go:115), which ends sendPacket
\* with an error.  And Write refuses a frame in one case only: the gap below the
\* highest range of an ACK alone takes as many blocks as a frame can hold
\* (65 000 packets lost in a row), because the loop writes a range before it
\* looks at the number of blocks announced (wire/ack_frame.go:336).
PacketWritten ==
    sent # NoPacket =>
        /\ sent.bytes = TooLarge => HasFrame("paths") \/ (sent.again /\ ~sent.crypto)
        /\ sent.bytes = Refused <=> \E i \in DOMAIN sent.frames : FirstGapTooLong(sent.frames[i])
=============================================================================
