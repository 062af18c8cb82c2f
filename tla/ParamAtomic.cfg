CONSTANTS
  FileNodes = {"n", "/**"}
  Names = {"s"}
  Node = "n"
  kindOf <- MCKind
  defaultOf <- MCDefault
  SimTime = FALSE
  Callers = {"c1"}
  Requests <- MCRequests
  Files <- MCFiles
  MaxRequests = 1
SPECIFICATION ParamSpec
INVARIANTS
  AtomicAllOrNothing
CHECK_DEADLOCK FALSE
