CONSTANTS
  Processes = {"p"}
  Offset <- MCOffset
  RingSize = 2
  StoreSize = 2
  Limit = 2
  MaxSpans = 2
  Horizon = 1
  MaxRestarts = 0
SPECIFICATION TelemetrySpec
INVARIANTS
  NothingSkipped
CHECK_DEADLOCK FALSE
