CONSTANTS
  NumSensors = 2
  o1 = o1
  o2 = o2
  Callers = {o1, o2}
  Main = main
  CallsOf <- AllCalls
  Target = 12
  Num = 3
  Den = 2
  MinExposure = 2
  MaxExposure = 4
  DefaultExposure = 3
  Bright = 40
  TooBright = 120
  Images = 3
  Scenes <- Views
  Faults <- Failing
  Overlap = FALSE
SPECIFICATION FairSpec
INVARIANTS MpesTypeOK OwnCamera TruePosition
PROPERTIES ExposureRight MethodsEnd
