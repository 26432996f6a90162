SPECIFICATION Spec
CONSTANTS
  Timers = {p, q}
  Values = 8
  Word = 32
  Steps <- SomeSteps
  MaxTime = 40
INVARIANTS OrderIsRight NearerWayRound
