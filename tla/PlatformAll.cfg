SPECIFICATION Spec
CONSTANTS
  c1 = c1
  c2 = c2
  NumActuators = 2
  RecordingInterval = 1
  Tolerance = 0
  MinPosition <- MCMinPosition
  MaxPosition = 4
  StopPosition = 1
  ZeroLength = 20
  OwedBound = 3
  Callers = {c1, c2}
  MethodsOf <- NoSearch
  Deltas <- TwoChunks
  Targets <- MCTargets
  Race = FALSE
INVARIANTS DriversOffAtRest
PROPERTIES StopHalts
