CONSTANTS
  Threads = {t1}
  Hooked <- LeaveHook
  Cap = 1
  Latched = FALSE
  MaxMsgs = 0
  HasTimer = FALSE
  Steps = {"fetch"}
  Start = "fetch"
  Def <- MCDef
  MaxRuns = 2
  Unknown = "nowhere"
SPECIFICATION FairSpec
INVARIANTS
  StoppedOutsideActive
PROPERTIES
  TransitionReturns
  CancelEnds
CHECK_DEADLOCK FALSE
