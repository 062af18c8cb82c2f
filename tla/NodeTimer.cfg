CONSTANTS
  Threads = {t1}
  Hooked <- LeaveHooks
  Cap = 2
  Latched = TRUE
  MaxMsgs = 0
  HasTimer = TRUE
SPECIFICATION Spec
INVARIANTS
  TimersOnlyWhileActive
