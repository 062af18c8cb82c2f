CONSTANTS
  Threads = {t1, t2}
  Hooked <- LeaveHooks
  Cap = 2
  Latched = TRUE
  MaxMsgs = 2
  HasTimer = TRUE
SPECIFICATION Spec
INVARIANTS
  OneTransition
  JobsAnswerTheirOwner
  QuietWhenInactive
  HandledOnce
PROPERTIES
  ImplementsLife
SYMMETRY Sym
