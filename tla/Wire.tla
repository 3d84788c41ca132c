-------------------------------- MODULE Wire --------------------------------
(***************************************************************************)
(* internal/wire: how the public header and the frames of a packet are     *)
(* written to bytes and parsed back, and what MinLength says a frame will  *)
(* take.  The number of values of a byte is the parameter Base, so that    *)
(* every width of a variable-length field, a gap of more than 0xFF packets *)
(* and a list of more than 0xFF blocks occur with small numbers.  Type and *)
(* flag bytes are kept as they are: all their values are below 256.  The   *)
(* payload of a STREAM frame and a reason phrase are kept by their length. *)
(***************************************************************************)
EXTENDS Integers, SequencesExt, FiniteSetsExt

CONSTANTS Base,           \* values of one byte
          MantissaBits,   \* utils.uFloat16MantissaBits
          ExponentBits,   \* utils.uFloat16ExponentBits
          MaxPacketSize,  \* protocol.MaxPacketSize
          NonceLength,    \* length of a diversification nonce: 32
          BigEndian       \* utils.GetByteOrder: versions from 39 on

\* A float of utils.float16 takes two bytes.
ASSUME WireAssumption == /\ Base \in Nat \ {0, 1}
                         /\ 2 ^ (MantissaBits + ExponentBits) = Base * Base
                         /\ BigEndian \in BOOLEAN

MaxByte == Base - 1    \* 0xFF

PutLittle(n, v) == [i \in 1 .. n |-> (v \div Base ^ (i - 1)) % Base]

PutBig(n, v) == [i \in 1 .. n |-> (v \div Base ^ (n - i)) % Base]

Put(n, v) == IF BigEndian THEN PutBig(n, v) ELSE PutLittle(n, v)

\* The i-th byte of r; the end of the input is an error of every parser, found
\* by Parsed, which knows how many bytes the frame needs.
At(r, i) == IF i <= Len(r) THEN r[i] ELSE 0

GetLittle(r, i, n) == MapThenSumSet(LAMBDA k : At(r, i + k) * Base ^ k, 0 .. n - 1)

GetBig(r, i, n) == MapThenSumSet(LAMBDA k : At(r, i + k) * Base ^ (n - 1 - k), 0 .. n - 1)

Get(r, i, n) == IF BigEndian THEN GetBig(r, i, n) ELSE GetLittle(r, i, n)

Flag(on, bit) == IF on THEN bit ELSE 0

Bit(byte, bit) == (byte \div bit) % 2 = 1

Opt(on, bytes) == IF on THEN bytes ELSE <<>>

\* The first of the widths ws in which v can be written, or the widest.
Width(v, ws) ==
    LET fits == {i \in DOMAIN ws : v < Base ^ ws[i]}
    IN IF fits = {} THEN Last(ws) ELSE ws[Min(fits)]

Refused == <<-1>>    \* Write returned an error

Err == [frame |-> [type |-> "error"], rest |-> <<>>]    \* a parser did

Parsed(r, n, f) ==
    IF n > Len(r) THEN Err ELSE [frame |-> f, rest |-> SubSeq(r, n + 1, Len(r))]
-----------------------------------------------------------------------------
(* utils/float16.go *)

MaxExponent == 2 ^ ExponentBits - 2

MaxFloat == (2 ^ (MantissaBits + 1) - 1) * 2 ^ MaxExponent

\* The loop's binary search finds the shift that brings the highest bit to
\* the place of the hidden one.
WriteUfloat16(v) ==
    IF v < 2 ^ (MantissaBits + 1) THEN Put(2, v)
    ELSE IF v >= MaxFloat THEN Put(2, Base * Base - 1)
    ELSE LET e == Max({k \in 0 .. MaxExponent : v >= 2 ^ (MantissaBits + k)})
         IN Put(2, v \div 2 ^ e + e * 2 ^ MantissaBits)

ReadUfloat16(r, i) ==
    LET val == Get(r, i, 2)
        exponent == val \div 2 ^ MantissaBits - 1
    IN IF val < 2 ^ (MantissaBits + 1) THEN val
       ELSE (val - exponent * 2 ^ MantissaBits) * 2 ^ exponent
-----------------------------------------------------------------------------
(* protocol/packet_number.go; a packet number is a uint64 *)

Wrap(n) == n % Base ^ 8

delta(a, b) == IF a < b THEN b - a ELSE a - b

closestTo(target, a, b) == IF delta(target, a) < delta(target, b) THEN a ELSE b

InferPacketNumber(len, last, wire) ==
    LET epochDelta == Base ^ len
        epoch == (last \div epochDelta) * epochDelta
    IN closestTo(last + 1, epoch + wire,
                 closestTo(last + 1, Wrap(Wrap(epoch - epochDelta) + wire),
                           epoch + epochDelta + wire))

\* Mutation: a 2-byte number is used for twice as many packets in flight.
GetPacketNumberLengthForPublicHeader_Twice(packetNumber, leastUnacked) ==
    LET diff == Wrap(packetNumber - leastUnacked)
    IN IF diff < Base ^ 2 THEN 2
       ELSE IF diff < Base ^ 4 \div 2 THEN 4
       ELSE 6

GetPacketNumberLengthForPublicHeader(packetNumber, leastUnacked) ==
    LET diff == Wrap(packetNumber - leastUnacked)
    IN IF diff < Base ^ 2 \div 2 THEN 2
       ELSE IF diff < Base ^ 4 \div 2 THEN 4
       ELSE 6

GetPacketNumberLength(packetNumber) == Width(packetNumber, <<1, 2, 4, 6>>)
-----------------------------------------------------------------------------
(* STREAM *)

calculateStreamIDLength(f) == Width(f.StreamID, <<1, 2, 3, 4>>)

getOffsetLength(f) ==
    IF f.Offset = 0 THEN 0 ELSE Width(f.Offset, <<2, 3, 4, 5, 6, 7, 8>>)

StreamMinLength(f) ==
    1 + calculateStreamIDLength(f) + getOffsetLength(f) + Flag(f.DataLenPresent, 2)

Data(n) == [i \in 1 .. n |-> 1]

WriteStream(f) ==
    LET sid == calculateStreamIDLength(f)
        off == getOffsetLength(f)
    IN IF f.DataLen = 0 /\ ~f.FinBit THEN Refused
       ELSE <<128 + Flag(f.FinBit, 64) + Flag(f.DataLenPresent, 32)
                  + Flag(off > 0, 4 * (off - 1)) + (sid - 1)>>
              \o Put(sid, f.StreamID) \o Put(off, f.Offset)
              \o Opt(f.DataLenPresent, Put(2, f.DataLen)) \o Data(f.DataLen)

ParseStream(r) ==
    LET fin == Bit(r[1], 64)
        present == Bit(r[1], 32)
        code == (r[1] \div 4) % 8
        off == IF code # 0 THEN code + 1 ELSE 0
        sid == (r[1] % 4) + 1
        head == 1 + sid + off + Flag(present, 2)
        offset == Get(r, 2 + sid, off)
        n == IF present THEN Get(r, 2 + sid + off, 2) ELSE Len(r) - head
    IN IF \/ head > Len(r)
          \/ present /\ n > MaxPacketSize
          \/ Wrap(offset + n) < offset
          \/ ~fin /\ n = 0
       THEN Err
       ELSE Parsed(r, head + n,
                   [type |-> "stream", StreamID |-> Get(r, 2, sid), Offset |-> offset,
                    DataLen |-> n, FinBit |-> fin, DataLenPresent |-> present])
-----------------------------------------------------------------------------
(* ACK and CLOSE_PATH: the ranges, highest first *)

HasMissingRanges(f) == f.AckRanges # <<>>

RangeLength(range) == range.Last - range.First + 1

Gap(ranges, i) == ranges[i - 1].First - ranges[i].Last - 1

\* A gap longer than 0xFF is written as several blocks.
BlocksOf(gap) == gap \div MaxByte + Flag(gap % MaxByte # 0, 1)

\* The blocks that the ranges up to the k-th take, the first range not counted.
Blocks(ranges, k) == MapThenSumSet(LAMBDA i : BlocksOf(Gap(ranges, i)), 2 .. k)

numWritableNackRanges(f) ==
    IF f.AckRanges = <<>> THEN 0
    ELSE 1 + Max({Blocks(f.AckRanges, k) : k \in
                    {j \in DOMAIN f.AckRanges : Blocks(f.AckRanges, j) < MaxByte}})

getMissingSequenceNumberDeltaLen(f) ==
    IF HasMissingRanges(f)
    THEN Width(Max({RangeLength(f.AckRanges[i]) : i \in DOMAIN f.AckRanges}), <<1, 2, 4, 6>>)
    ELSE Width(f.LargestAcked - f.LowestAcked + 1, <<1, 2, 4, 6>>)

\* Mutation: the last block of a long gap carries the remainder of the gap.
RangeBlocks_Remainder(ranges, i, w) ==
    LET gap == Gap(ranges, i)
        num == BlocksOf(gap)
    IN FlattenSeq([k \in 1 .. num |->
           IF k = num THEN <<IF num = 1 THEN gap ELSE gap % MaxByte>> \o Put(w, RangeLength(ranges[i]))
           ELSE <<MaxByte>> \o Put(w, 0)])

\* A range with the gap above it: empty blocks of 0xFF, then the rest.
RangeBlocks(ranges, i, w) ==
    LET gap == Gap(ranges, i)
        num == BlocksOf(gap)
    IN FlattenSeq([k \in 1 .. num |->
           IF k = num THEN <<1 + ((gap - 1) % MaxByte)>> \o Put(w, RangeLength(ranges[i]))
           ELSE <<MaxByte>> \o Put(w, 0)])

\* The blocks of a frame, or Refused: the loop stops after the range with which
\* the announced number is reached, and the two numbers must then be equal.
WriteBlocks(f, w) ==
    LET r == f.AckRanges
        numRanges == numWritableNackRanges(f)
        enough == {i \in 2 .. Len(r) : 1 + Blocks(r, i) >= numRanges}
        stop == IF enough = {} THEN Len(r) ELSE Min(enough)
        written == 1 + Blocks(r, stop)
    IN CASE ~HasMissingRanges(f) -> Put(w, f.LargestAcked - f.LowestAcked + 1)
         [] \/ f.LargestAcked # r[1].Last
            \/ f.LowestAcked # Last(r).First
            \/ written # numRanges -> Refused
         [] OTHER -> Put(w, RangeLength(r[1]))
                       \o FlattenSeq([i \in 1 .. stop - 1 |-> RangeBlocks(r, i + 1, w)])

\* One block read: it continues a long gap or starts a new range.
AddBlock(acc, block) ==
    LET gap == block[1]
        length == block[2]
        n == Len(acc.ranges)
        last == acc.ranges[n]
    IN [ranges |-> IF acc.long
                   THEN [acc.ranges EXCEPT ![n] = [First |-> last.First - (gap + length),
                                                   Last |-> last.Last - gap]]
                   ELSE Append(acc.ranges, [First |-> last.First - gap - length,
                                            Last |-> last.First - gap - 1]),
        long |-> length = 0,
        complete |-> length > 0 \/ (acc.long /\ acc.complete)]

\* The ranges of num blocks of lengths of w bytes at position i of r; a last
\* range that is not complete is dropped.
ReadBlocks(r, i, num, w, first) ==
    LET block(k) == <<At(r, i + (k - 1) * (w + 1)), Get(r, i + (k - 1) * (w + 1) + 1, w)>>
        acc == FoldLeft(AddBlock, [ranges |-> <<first>>, long |-> FALSE, complete |-> FALSE],
                        [k \in 1 .. num |-> block(k)])
    IN IF acc.complete THEN acc.ranges ELSE Front(acc.ranges)

validateAckRanges(f) ==
    LET r == f.AckRanges
    IN r = <<>> \/ /\ Len(r) > 1
                   /\ r[1].Last = f.LargestAcked
                   /\ \A i \in DOMAIN r : r[i].First <= r[i].Last
                   /\ \A i \in 2 .. Len(r) : /\ r[i - 1].First > r[i].First
                                             /\ r[i - 1].First > r[i].Last + 1
-----------------------------------------------------------------------------
\* A width of 1, 2, 4 or 6 bytes in two bits.
LenCode(len) == len \div 2

CodeLen(code) == IF code = 0 THEN 1 ELSE 2 * code

AckWidth(f) == getMissingSequenceNumberDeltaLen(f)

AckMinLength(f) ==
    1 + 2 + 1 + GetPacketNumberLength(f.LargestAcked)
      + (IF HasMissingRanges(f) THEN (1 + AckWidth(f)) * numWritableNackRanges(f) ELSE AckWidth(f))
      + Flag(f.PathID # 0, 1)

WriteAck(f) ==
    LET len == GetPacketNumberLength(f.LargestAcked)
        blocks == WriteBlocks(f, AckWidth(f))
    IN IF blocks = Refused THEN Refused
       ELSE <<64 + 4 * LenCode(len) + LenCode(AckWidth(f)) + Flag(HasMissingRanges(f), 32)
                 + Flag(f.PathID # 0, 16)>>
              \o Opt(f.PathID # 0, <<f.PathID>>) \o Put(len, f.LargestAcked)
              \o WriteUfloat16(f.DelayTime)
              \o Opt(HasMissingRanges(f), <<numWritableNackRanges(f) - 1>>)
              \o blocks \o <<0>>

\* What both parsers do with the numbers read: the first range ends at the
\* largest number, and its length must be that of some range below it.
WithRanges(f, r, i, num, w) ==
    LET length == Get(r, i, w)
        first == [First |-> f.LargestAcked - length + 1, Last |-> f.LargestAcked]
        ranges == ReadBlocks(r, i + w, num, w, first)
    IN IF num = 0
       THEN [f EXCEPT !.LowestAcked = IF f.LargestAcked = 0 THEN 0 ELSE first.First]
       ELSE [f EXCEPT !.LowestAcked = Last(ranges).First, !.AckRanges = ranges]

FirstRangeOK(largest, length) == ~(largest > 0 /\ length < 1) /\ length <= largest

ParseAck(r) ==
    LET missing == Bit(r[1], 32)
        len == CodeLen((r[1] \div 4) % 4)
        w == CodeLen(r[1] % 4)
        path == Flag(Bit(r[1], 16), 1)
        num == IF missing THEN At(r, 4 + path + len) ELSE 0
        blocks == 4 + path + len + Flag(missing, 1)    \* position of the first block
        stamps == blocks + w + num * (1 + w)           \* and of the time stamps
        last == stamps + (IF At(r, stamps) = 0 THEN 0 ELSE 5 + 3 * (At(r, stamps) - 1))
        f == WithRanges([type |-> "ack", PathID |-> IF path = 1 THEN At(r, 2) ELSE 0,
                         LargestAcked |-> Get(r, 2 + path, len), LowestAcked |-> 0,
                         AckRanges |-> <<>>, DelayTime |-> ReadUfloat16(r, 2 + path + len)],
                        r, blocks, num, w)
    IN IF \/ missing /\ num = 0
          \/ ~FirstRangeOK(Get(r, 2 + path, len), Get(r, blocks, w))
          \/ ~validateAckRanges(f)
       THEN Err
       ELSE Parsed(r, last, f)

ClosePathMinLength(f) ==
    1 + 1 + 1 + GetPacketNumberLength(f.LargestAcked)
      + (IF HasMissingRanges(f) THEN (1 + AckWidth(f)) * numWritableNackRanges(f) ELSE AckWidth(f))

WriteClosePath(f) ==
    LET len == GetPacketNumberLength(f.LargestAcked)
        blocks == WriteBlocks(f, AckWidth(f))
    IN IF blocks = Refused THEN Refused
       ELSE <<17, f.PathID, Flag(HasMissingRanges(f), 16) + 4 * LenCode(len) + LenCode(AckWidth(f))>>
              \o Opt(HasMissingRanges(f), <<numWritableNackRanges(f) - 1>>)
              \o Put(len, f.LargestAcked) \o blocks

ParseClosePath(r) ==
    LET flags == At(r, 3)
        missing == Bit(flags, 16)
        len == CodeLen((flags \div 4) % 4)
        w == CodeLen(flags % 4)
        num == IF missing THEN At(r, 4) ELSE 0
        largest == 4 + Flag(missing, 1)
        f == WithRanges([type |-> "closepath", PathID |-> At(r, 2), LowestAcked |-> 0,
                         LargestAcked |-> Get(r, largest, len), AckRanges |-> <<>>],
                        r, largest + len, num, w)
    IN IF \/ missing /\ num = 0
          \/ ~FirstRangeOK(Get(r, largest, len), Get(r, largest + len, w))
          \/ ~validateAckRanges(f)
       THEN Err
       ELSE Parsed(r, largest + len - 1 + w + num * (1 + w), f)
-----------------------------------------------------------------------------
(* STOP_WAITING: the distance to the number of the packet, in its width *)

StopWaitingMinLength(f) == 1 + f.PacketNumberLen

WriteStopWaiting(f) ==
    IF f.PacketNumber = 0 \/ f.LeastUnacked > f.PacketNumber THEN Refused
    ELSE <<6>> \o Put(f.PacketNumberLen, f.PacketNumber - f.LeastUnacked)

ParseStopWaiting(r, packetNumber, len) ==
    LET distance == Get(r, 2, len)
    IN IF distance >= packetNumber THEN Err
       ELSE Parsed(r, 1 + len, [type |-> "stopwaiting", LeastUnacked |-> packetNumber - distance,
                                PacketNumber |-> packetNumber, PacketNumberLen |-> len])
-----------------------------------------------------------------------------
(* The frames of a fixed layout *)

WriteRstStream(f) == <<1>> \o Put(4, f.StreamID) \o Put(8, f.ByteOffset) \o Put(4, f.ErrorCode)

ParseRstStream(r) ==
    Parsed(r, 17, [type |-> "rst", StreamID |-> Get(r, 2, 4), ByteOffset |-> Get(r, 6, 8),
                   ErrorCode |-> Get(r, 14, 4)])

WriteConnectionClose(f) ==
    IF f.ReasonLen > Base ^ 2 - 1 THEN Refused
    ELSE <<2>> \o Put(4, f.ErrorCode) \o Put(2, f.ReasonLen) \o Data(f.ReasonLen)

ParseConnectionClose(r) ==
    LET n == Get(r, 6, 2)
    IN IF n > MaxPacketSize THEN Err
       ELSE Parsed(r, 7 + n, [type |-> "close", ErrorCode |-> Get(r, 2, 4), ReasonLen |-> n])

WriteGoaway(f) ==
    <<3>> \o Put(4, f.ErrorCode) \o Put(4, f.LastGoodStream)
          \o Put(2, f.ReasonLen) \o Data(f.ReasonLen)

ParseGoaway(r) ==
    LET n == Get(r, 10, 2)
    IN IF n > MaxPacketSize THEN Err
       ELSE Parsed(r, 11 + n, [type |-> "goaway", ErrorCode |-> Get(r, 2, 4),
                               LastGoodStream |-> Get(r, 6, 4), ReasonLen |-> n])

WriteWindowUpdate(f) == <<4>> \o Put(4, f.StreamID) \o Put(8, f.ByteOffset)

ParseWindowUpdate(r) ==
    Parsed(r, 13, [type |-> "windowupdate", StreamID |-> Get(r, 2, 4), ByteOffset |-> Get(r, 6, 8)])

WriteBlocked(f) == <<5>> \o Put(4, f.StreamID)

ParseBlocked(r) == Parsed(r, 5, [type |-> "blocked", StreamID |-> Get(r, 2, 4)])

ParsePing(r) == Parsed(r, 1, [type |-> "ping"])

AddressBytes(version) == CASE version = 4 -> 4 [] version = 6 -> 16 [] OTHER -> 0

WriteAddAddress(f) ==
    IF f.IPVersion \notin {4, 6} THEN Refused
    ELSE <<16, f.IPVersion>> \o f.IP \o Put(2, f.Port)

ParseAddAddress(r) ==
    LET version == At(r, 2)
        n == AddressBytes(version)
    IN IF n = 0 THEN Err
       ELSE Parsed(r, 4 + n, [type |-> "addaddress", IPVersion |-> version,
                              IP |-> SubSeq(r, 3, 2 + n), Port |-> Get(r, 3 + n, 2)])
-----------------------------------------------------------------------------
(* PATHS: an entry is a path, its round-trip time and, when the client      *)
(* sends the frame, its address.                                            *)

\* The sum is computed in a uint8.
PathsMinLength(f) == (1 + 1 + 1 + 3 * Len(f.Paths)) % Base

\* AddPathsFrameForTransmission fills all of the lists or leaves the two of
\* addresses empty, so that the checks of the lengths never fail.
WritePaths(f) ==
    <<18, f.MaxNumPaths, Len(f.Paths), Flag(f.HasIPs, Len(f.Paths))>>
      \o FlattenSeq([i \in DOMAIN f.Paths |->
             <<f.Paths[i].PathID>> \o WriteUfloat16(f.Paths[i].RemoteRTT)
               \o Opt(f.HasIPs, f.Paths[i].IP \o Put(2, f.Paths[i].Port))])

ParsePaths(r) ==
    LET numPaths == At(r, 3)
        numIPs == At(r, 4)
        size == IF numIPs > 0 THEN 9 ELSE 3
        entry(i) == 5 + (i - 1) * size
    IN IF numPaths > At(r, 2) \/ numIPs > numPaths THEN Err
       ELSE Parsed(r, 4 + numPaths * size,
                   [type |-> "paths", MaxNumPaths |-> At(r, 2), HasIPs |-> numIPs > 0,
                    Paths |-> [i \in 1 .. numPaths |->
                        [PathID |-> At(r, entry(i)), RemoteRTT |-> ReadUfloat16(r, entry(i) + 1),
                         IP |-> IF numIPs > 0 THEN SubSeq(r, entry(i) + 3, entry(i) + 6) ELSE <<>>,
                         Port |-> IF numIPs > 0 THEN Get(r, entry(i) + 7, 2) ELSE 0]]])
-----------------------------------------------------------------------------
(* Any frame *)

Write(f) ==
    CASE f.type = "stream" -> WriteStream(f)
      [] f.type = "ack" -> WriteAck(f)
      [] f.type = "closepath" -> WriteClosePath(f)
      [] f.type = "stopwaiting" -> WriteStopWaiting(f)
      [] f.type = "rst" -> WriteRstStream(f)
      [] f.type = "close" -> WriteConnectionClose(f)
      [] f.type = "goaway" -> WriteGoaway(f)
      [] f.type = "windowupdate" -> WriteWindowUpdate(f)
      [] f.type = "blocked" -> WriteBlocked(f)
      [] f.type = "addaddress" -> WriteAddAddress(f)
      [] f.type = "paths" -> WritePaths(f)
      [] f.type = "ping" -> <<7>>

MinLength(f) ==
    CASE f.type = "stream" -> StreamMinLength(f)
      [] f.type = "ack" -> AckMinLength(f)
      [] f.type = "closepath" -> ClosePathMinLength(f)
      [] f.type = "stopwaiting" -> StopWaitingMinLength(f)
      [] f.type = "rst" -> 1 + 4 + 8 + 4
      [] f.type = "close" -> 1 + 4 + 2 + f.ReasonLen
      [] f.type = "goaway" -> 1 + 4 + 4 + 2 + f.ReasonLen
      [] f.type = "windowupdate" -> 1 + 4 + 8
      [] f.type = "blocked" -> 1 + 4
      [] f.type = "addaddress" -> 1 + 1 + AddressBytes(f.IPVersion) + 2
      [] f.type = "paths" -> PathsMinLength(f)
      [] f.type = "ping" -> 1

ParseFrame(r, packetNumber, len) ==
    CASE Bit(r[1], 128) -> ParseStream(r)
      [] ~Bit(r[1], 128) /\ Bit(r[1], 64) -> ParseAck(r)
      [] r[1] = 1 -> ParseRstStream(r)
      [] r[1] = 2 -> ParseConnectionClose(r)
      [] r[1] = 3 -> ParseGoaway(r)
      [] r[1] = 4 -> ParseWindowUpdate(r)
      [] r[1] = 5 -> ParseBlocked(r)
      [] r[1] = 6 -> ParseStopWaiting(r, packetNumber, len)
      [] r[1] = 7 -> ParsePing(r)
      [] r[1] = 16 -> ParseAddAddress(r)
      [] r[1] = 17 -> ParseClosePath(r)
      [] r[1] = 18 -> ParsePaths(r)
      [] OTHER -> Err

\* packetUnpacker.Unpack: the frames of a payload; a byte 0 is padding.
RECURSIVE Unpack(_, _, _)
Unpack(r, packetNumber, len) ==
    IF r = <<>> THEN <<>>
    ELSE IF r[1] = 0 THEN Unpack(Tail(r), packetNumber, len)
    ELSE LET p == ParseFrame(r, packetNumber, len)
         IN <<p.frame>> \o Unpack(p.rest, packetNumber, len)
-----------------------------------------------------------------------------
(* The public header *)

\* protocol.VersionNumberToTag and back: a letter and three digits, a byte each.
Radix == Min({10, Base})

VersionNumberToTag(vn) ==
    LET Digit(i) == (vn \div Radix ^ i) % Radix
    IN 1 + Digit(2) * Base + Digit(1) * Base ^ 2 + Digit(0) * Base ^ 3

VersionTagToNumber(v) ==
    LET Byte(i) == (v \div Base ^ i) % Base
    IN Byte(1) * Radix ^ 2 + Byte(2) * Radix + Byte(3)

hasPacketNumber(h, sentBy) == ~h.ResetFlag /\ ~(h.VersionFlag /\ sentBy = "server")

WriteHeader(h, sentBy) ==
    IF h.VersionFlag /\ h.ResetFlag THEN Refused
    ELSE <<Flag(h.VersionFlag, 1) + Flag(h.ResetFlag, 2) + Flag(h.Nonce, 4)
             + Flag(~h.TruncateConnectionID, 8)
             + Flag(hasPacketNumber(h, sentBy), 16 * LenCode(h.PacketNumberLen))
             + Flag(h.MultipathFlag, 64)>>
           \o Opt(~h.TruncateConnectionID, PutLittle(8, h.ConnectionID))
           \o Opt(h.VersionFlag /\ sentBy = "client", PutLittle(4, VersionNumberToTag(h.VersionNumber)))
           \o Opt(h.Nonce, [i \in 1 .. NonceLength |-> 0])
           \o Opt(h.MultipathFlag, <<h.PathID>>)
           \o Opt(hasPacketNumber(h, sentBy), Put(h.PacketNumberLen, h.PacketNumber))

GetLength(h, sentBy) ==
    1 + Flag(hasPacketNumber(h, sentBy), h.PacketNumberLen)
      + Flag(~h.TruncateConnectionID, 8) + Flag(h.VersionFlag, 4) + Flag(h.Nonce, NonceLength)
      + Flag(h.MultipathFlag, 1)

\* A version negotiation packet of the server ends with the versions.
ParsePublicHeader(r, sentBy, known) ==
    LET reset == Bit(r[1], 2)
        version == Bit(r[1], 1)
        truncate == ~Bit(r[1], 8)
        multipath == Bit(r[1], 64)
        nonce == sentBy = "server" /\ Bit(r[1], 4) /\ ~version /\ ~reset
        hasVersion == ~reset /\ version
        negotiation == hasVersion /\ sentBy = "server"
        number == hasPacketNumber([ResetFlag |-> reset, VersionFlag |-> version], sentBy)
        len == IF number THEN CodeLen((r[1] \div 16) % 4) ELSE 0
        ver == 2 + Flag(~truncate, 8) + Flag(nonce, NonceLength)
        path == ver + Flag(hasVersion, 4)
        pn == path + Flag(multipath, 1)
        offered == (Len(r) + 1 - ver) \div 4
    IN IF \/ ~known /\ ~version /\ ~reset
          \/ truncate /\ sentBy = "client"
          \/ ~truncate /\ GetLittle(r, 2, 8) = 0
          \/ negotiation /\ (Len(r) + 1 - ver) % 4 # 0
       THEN Err
       ELSE Parsed(r, IF negotiation THEN Len(r) ELSE pn + len - 1,
                   [ResetFlag |-> reset, VersionFlag |-> version, Nonce |-> nonce,
                    TruncateConnectionID |-> truncate, MultipathFlag |-> multipath,
                    ConnectionID |-> IF truncate THEN 0 ELSE GetLittle(r, 2, 8),
                    VersionNumber |-> IF hasVersion /\ ~negotiation THEN VersionTagToNumber(GetLittle(r, ver, 4)) ELSE 0,
                    SupportedVersions |-> IF negotiation
                                          THEN [i \in 1 .. offered |-> VersionTagToNumber(GetLittle(r, ver + 4 * (i - 1), 4))]
                                          ELSE <<>>,
                    PathID |-> IF multipath /\ ~negotiation THEN At(r, path) ELSE 0,
                    PacketNumberLen |-> len,
                    PacketNumber |-> IF number THEN Get(r, pn, len) ELSE 0])

ComposeVersionNegotiation(connectionID, versions) ==
    WriteHeader([ResetFlag |-> FALSE, VersionFlag |-> TRUE, Nonce |-> FALSE,
                 TruncateConnectionID |-> FALSE, MultipathFlag |-> FALSE,
                 ConnectionID |-> connectionID, VersionNumber |-> 0, PathID |-> 0,
                 PacketNumberLen |-> 0, PacketNumber |-> 1], "server")
      \o FlattenSeq([i \in DOMAIN versions |-> PutLittle(4, VersionNumberToTag(versions[i]))])
=============================================================================
