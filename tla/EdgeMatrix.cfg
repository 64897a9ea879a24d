SPECIFICATION Spec
CONSTANTS
  e1 = e1
  c1 = c1
  c2 = c2
  Panels = {1, 2}
  Actuators = {1, 2}
  Edges = {e1}
  Mirror = Mirror
  Calculations = {1}
  Whole = 2
  InFlight = 2
  Refusals = FALSE
  PanelsOf <- OneEdge
  InnerRing = {1}
  Callers = {c1, c2}
  MethodsOf <- OperatorAndStop
  Fractions = {1}
  Race = FALSE
  SendFails = {"FindMatrix", "Execute", "PanelMove"}
  Delay = "short"
INVARIANTS MatrixWaits
