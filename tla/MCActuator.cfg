CONSTANTS
  StepsPerRevolution = 12
  QuickAngleCheckRange = 1
  RecordingInterval = 5
  FlaggedRecoverySteps = 2
  MaxRecoverySteps = 3
  MinimumMissedSteps = 1
  HysteresisSteps = 2
  EndstopSearchStepsize = 3
  EndStopRecoverySteps = 0
  CyclesDefiningHome = 1
  ExtendStopPosition <- ExtendStop
  ExtendHardStop <- ExtendHard
  RetractStopPosition = 15
  RetractHardStop = 15
  ExtendRevolutionLimit = 0
  RetractRevolutionLimit = 1
  InitialPosition = 6
  StartShaft <- StartFar
  StepRequests <- Requests
  ClearRequests = {0, 1, 2, 3, 4, 5, 6, 7, 8, 9, 10, 11, 12, 13}
  DatabaseErrors = {}
  Faults = {}
SPECIFICATION Spec
INVARIANTS TypeOK NoSilentMislocation StepsFromTruth FileLocates
  HomeErrorUntilProbeComplete SafetyInvariant
PROPERTIES Implements FatalErrorsPersist
