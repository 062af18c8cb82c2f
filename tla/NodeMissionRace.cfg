CONSTANTS
  Threads = {t1, t2}
  Hooked <- LeaveHook
  Cap = 1
  Latched = FALSE
  MaxMsgs = 0
  HasTimer = FALSE
  Steps = {"fetch"}
  Start = "fetch"
  Def <- MCDef
  MaxRuns = 2
  Unknown = "nowhere"
SPECIFICATION Spec
INVARIANTS
  StoppedOutsideActive
CHECK_DEADLOCK FALSE
