SPECIFICATION MirrorSpec
CONSTANTS
  e1 = e1
  e2 = e2
  c1 = c1
  c2 = c2
  Panels = {1, 2}
  Actuators = {1}
  Edges = {e1}
  Mirror = Mirror
  Calculations = {1}
  Whole = 2
  InFlight = 1
  Refusals = FALSE
  PanelsOf <- OneEdge
  InnerRing = {1}
  Callers = {c1, c2}
  MethodsOf <- NoEdgeMethods
  Fractions = {1, 2}
  Race = FALSE
  SendFails = {}
  Delay = "short"
  MirrorMethodsOf <- MotionsOnly
  Selected = {1, 2}
  Constraints = {TRUE, FALSE}
  Sweep <- OneSweep
  Smaller <- SmallerOfOne
PROPERTIES ExecutedAsReviewed
CHECK_DEADLOCK FALSE
