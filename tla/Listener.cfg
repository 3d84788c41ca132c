SPECIFICATION FairListenerSpec
CONSTANTS
  Conns = {1, 2}
  MaxCloses = 2
  QueueSize = 1
  MaxSessions = 2
INVARIANTS ClosedMeansDone
PROPERTIES CloseCallsReturn EverySessionAccepted
CHECK_DEADLOCK FALSE
