SPECIFICATION Spec
CONSTANTS
  Streams = {a, b}
  Contributing = {a, b}
  Conn = Conn
  MayReset = {a}
  DataLength = 3
  StreamWindow = 2
  ConnWindow = 3
  MaxStreamIncrement = 3
  MaxConnIncrement = 3
INVARIANTS NoViolation ConnectionExact GrantsKept NeverStuck
CHECK_DEADLOCK FALSE
