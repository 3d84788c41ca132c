SPECIFICATION Spec
CONSTANTS
  Perspectives = {"client", "server"}
  MaxIncomingStreams = 2
  MaxOutgoingStreams = 1
  MaxStreamID = 6
  Openers = {o1, o2}
  Accepters = {a1, a2}
INVARIANTS OpenStreamsExact NeverReopened LimitsKept
PROPERTIES BlockedCallsReturn
CHECK_DEADLOCK FALSE
