CONSTANTS
  Steps = {"fetch", "recover"}
  Start = "fetch"
  Def <- MCDef
  Callers = {c1}
  MaxRuns = 2
  Unknown = "nowhere"
SPECIFICATION Spec
PROPERTIES
  RestartStarts
