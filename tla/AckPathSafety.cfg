CONSTANTS
    MaxPacketNumber = 4
    Length <- MCLength
    CongestionWindow = 3
    MaxTrackedSentPackets = 3
    MaxTrackedSkippedPackets = 1
    maxTailLossProbes = 1
    MaxTrackedReceivedAckRanges = 2
    MaxPacketsReceivedBeforeAckSend = 3
    RetransmittablePacketsBeforeAck = 2
    BelowVersion39 = TRUE
    Data = {d1, d2}
    NoData = none
    MaxSkip = 1
    MaxPureAcks = 1
    MaxDuplicates = 1
    MaxLosses = 0
    MaxClosePaths = 1
    MaxEarlyAlarms = 1
SYMMETRY DataSymmetry
SPECIFICATION Spec
INVARIANTS AckFrameFaithful NoFalseAck NoDataForgotten NoAckRejected StopWaitingBelowPacket
CHECK_DEADLOCK FALSE
