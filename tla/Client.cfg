SPECIFICATION FairSpec
CONSTANTS
  Addrs = {"a"}
  MaxClosePaths = 1
INVARIANT DialSound
PROPERTIES CallsReturn GoroutinesEnd
CHECK_DEADLOCK FALSE
