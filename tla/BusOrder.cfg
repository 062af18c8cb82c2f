CONSTANTS
  Pubs = {p1}
  Subs = {s1}
  Keep = 1
  MaxMsgs = 2
SPECIFICATION BusSpec
INVARIANTS
  HistoryFirst
CHECK_DEADLOCK FALSE
