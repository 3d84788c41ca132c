CONSTANTS
  Streams = {5}
  Weight <- MCWeight
  NewPaths = {1, 3}
  Delay <- MCDelay
  Bandwidth <- MCBandwidth
  Sizes = {3}
  MaxWrites = 1
  MaxLen = 2
  CongestionWindow = 1
  Window = 2
  ClosingPaths = {1, 3}
  MaxEvents = 2
SPECIFICATION Spec
INVARIANT NothingDropped
INVARIANT VolumesCover
PROPERTY AssignedIsDelivered
CHECK_DEADLOCK FALSE
