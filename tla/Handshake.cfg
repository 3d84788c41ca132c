\* Three states of the client's cache, one fault, a queue of one packet; two ticks in a second.
CONSTANTS
  Caches = {"none", "current", "stale"}
  IdleTimeout <- MCIdleTimeout
  Second = 2
  ReceiveWindows <- MCReceiveWindows
  InitialWindows <- MCInitialWindows
  MaxStreams = 2
  MaxIncoming = 1
  MaxUndecryptable = 1
  MaxClientHellos = 3
  MaxFaults = 1
SPECIFICATION FairSpec
INVARIANTS EndpointsAgree
PROPERTIES HandshakeCompletes ForwardDelivered
CHECK_DEADLOCK FALSE
