SPECIFICATION MirrorSpec
CONSTANTS
  e1 = e1
  e2 = e2
  c1 = c1
  c2 = c2
  Panels = {1, 2}
  Actuators = {1}
  Edges = {e1}
  Mirror = Mirror
  Calculations = {1}
  Whole = 2
  InFlight = 2
  Refusals = FALSE
  PanelsOf <- OneEdge
  InnerRing = {1}
  Callers = {c1, c2}
  MethodsOf <- ReadOnly
  Fractions = {1}
  Race = FALSE
  SendFails = {Mirror}
  Delay = "short"
  MirrorMethodsOf <- MirrorAndStop
  Selected = {1, 2}
  Constraints = {FALSE}
  Sweep <- OneSweep
  Smaller <- SmallerOfOne
INVARIANTS MirrorTypeOK ByItsMethod
PROPERTIES MotionsComplete AppliedOnce
