SPECIFICATION Spec
CONSTANTS
  c1 = c1
  c2 = c2
  NumActuators = 2
  RecordingInterval = 2
  Tolerance = 1
  MinPosition <- MCMinPosition
  MaxPosition = 7
  StopPosition = 1
  ZeroLength = 20
  OwedBound = 8
  Callers = {c1, c2}
  MethodsOf <- FindAndStop
  Deltas <- ShortDeltas
  Targets <- MCTargets
  Race = FALSE
PROPERTIES StopHalts
