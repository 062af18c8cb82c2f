CONSTANTS
  Goals = {g1, g2}
  Cancelers = {c1}
  FeedbackCap = 1
  Ours = {g1}
  Honours = {g1}
  N = 4
  Names = {1, 2, 3, 4}
  Apps <- MCApps
  Launched <- MCLaunched
  MaxAsked = 2
SPECIFICATION CoreSpec
INVARIANTS
  NoLeakedFeedback
  ToldIsTrue
  OrderIsRight
  ExitsFinalized
PROPERTIES
  GoalsImplementLife
  CancelHeard
  UpAndDownInOrder
CHECK_DEADLOCK FALSE
