CONSTANTS
  StepsPerRevolution = 6
  QuickAngleCheckRange = 1
  RecordingInterval = 2
  FlaggedRecoverySteps = 1
  MaxRecoverySteps = 2
  MinimumMissedSteps = 0
  HysteresisSteps = 1
  EndstopSearchStepsize = 2
  EndStopRecoverySteps = 0
  CyclesDefiningHome = 1
  ExtendStopPosition <- TinyExtend
  ExtendHardStop <- TinyExtend
  RetractStopPosition = 4
  RetractHardStop = 4
  ExtendRevolutionLimit = 0
  RetractRevolutionLimit = 1
  InitialPosition = 3
  StartShaft = {1}
  StepRequests = {3}
  ClearRequests = {}
  DatabaseErrors = {2}
  Faults = {"searchStop", "searchCrash", "searchEncoder"}
SPECIFICATION FairSpec
PROPERTIES OperationsEnd
CONSTRAINTS NearTravel
