CONSTANTS
  StepsPerRevolution = 20
  QuickAngleCheckRange = 2
  MaxSteps = 45
  MaxMove = 12
SPECIFICATION Spec
INVARIANTS TypeOK StepsPreserved DeviationExact DeviationCongruent
