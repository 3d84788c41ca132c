CONSTANTS
    MaxPacketNumber = 9
    MaxTrackedReceivedAckRanges = 4
    Base = 8
    MantissaBits = 3
    ExponentBits = 3
    MaxPacketSize = 66
    NonceLength = 4
    BigEndian = TRUE
    Overhead = 2
    SizeReduction = 8
    MaxAhead = 34
    Sizes <- MCSizes
    Numbers <- MCNumbers
    Queues <- MCQueues
    Versions <- MCVersions
SPECIFICATION PacketSpec
INVARIANTS PacketArrives NumberRecovered PacketWritten
PROPERTIES ImplementsSet
CHECK_DEADLOCK FALSE
