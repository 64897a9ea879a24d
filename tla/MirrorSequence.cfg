SPECIFICATION MirrorSpec
CONSTANTS
  e1 = e1
  e2 = e2
  c1 = c1
  c2 = c2
  Panels = {1, 2, 3}
  Actuators = {1}
  Edges = {e1, e2}
  Mirror = Mirror
  Calculations = {1}
  Whole = 2
  InFlight = 1
  Refusals = FALSE
  PanelsOf <- TwoEdges
  InnerRing = {1}
  Callers = {c1, c2}
  MethodsOf <- NoEdgeMethods
  Fractions = {1, 2}
  Race = FALSE
  SendFails = {}
  Delay = "short"
  MirrorMethodsOf <- SequenceOnly
  Selected = {1, 2}
  Constraints = {FALSE}
  Sweep <- TwoSweep
  Smaller <- SmallerOfTwo
INVARIANTS SequenceWaits
