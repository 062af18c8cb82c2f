CONSTANTS
  Pubs = {p1, p2}
  Subs = {s1, s2}
  Keep = 2
  MaxMsgs = 4
  Waiters = {"timeout", "sleep", "timer"}
  Tickers = {"timer"}
  Wait <- MCWait
  Setters = {u1, u2}
  MaxTime = 4
  Processes = {"p", "q"}
  Offset <- MCOffset
  RingSize = 2
  StoreSize = 2
  Limit = 2
  MaxSpans = 3
  Horizon = 1
  MaxRestarts = 1
  FileNodes = {"n", "m", "/**"}
  Names = {"d", "s"}
  Node = "n"
  kindOf <- MCKind
  defaultOf <- MCDefault
  SimTime = FALSE
  Callers = {"c1", "c2"}
  Requests <- MCRequests
  Files <- MCFiles
  MaxRequests = 1
  Durations <- MCDurations
  Rates <- MCRates
  Counts <- MCCounts
  Signed <- MCSigned
  Spaced = {"a b"}
  Alphabet <- MCAlphabet
  MachineOf <- MCMachineOf
  Relative = {"opt"}
SPECIFICATION ServicesSpec
INVARIANTS
  DeliveredOnce
  NeverBehindNorBeyond
  AfterFiresExactlyOnce
  ParamsKeepFaith
  TracesAreTrue
  FilesMeanWhatTheySay
  FramesAreRight
  CheckHoldsUp
  ReleaseIsSound
  FleetIsTrue
  DeclarationsAreDerived
  WireKeepsValues
PROPERTIES
  NothingEarly
SYMMETRY Sym
CHECK_DEADLOCK FALSE
