CONSTANTS
    MaxPacketNumber = 12
    Length <- MCLength
    CongestionWindow = 3
    MaxTrackedSentPackets = 6
    MaxTrackedSkippedPackets = 1
    maxTailLossProbes = 1
    MaxTrackedReceivedAckRanges = 6
    MaxPacketsReceivedBeforeAckSend = 3
    RetransmittablePacketsBeforeAck = 2
    BelowVersion39 = FALSE
    Data = {d1, d2}
    NoData = none
    MaxSkip = 0
    MaxPureAcks = 0
    MaxDuplicates = 0
    MaxLosses = 1
    MaxClosePaths = 0
    MaxEarlyAlarms = 1
SPECIFICATION FairSpec
PROPERTIES AllDelivered
CHECK_DEADLOCK FALSE
