SPECIFICATION Spec
CONSTANTS
  OrderIds = {o1, o2}
  Symbols = {s1}
  Sides = {"BUY"}
  Prices = {p1}
  Qty = 1
  MaxPolls = 1
  MaxAttempts = 1
  FaultSets = {{"raise"}}
  None = None
SYMMETRY Symmetries
CHECK_DEADLOCK FALSE
PROPERTY UnknownNotRewrittenFailed
