CONSTANTS
  Steps = {"fetch", "recover"}
  Start = "fetch"
  Def <- MCDef
  Callers = {c1, c2}
  MaxRuns = 2
  Unknown = "nowhere"
SPECIFICATION Spec
INVARIANTS
  RecordIsOwned
  AtMostOneLateStep
  AttemptsBounded
  GaugeSettlesLow
PROPERTIES
  TerminalStands
  ImplementsLife
SYMMETRY Sym
