SPECIFICATION Spec
CONSTANTS
  Processes = {p1, p2, p3, p4}
  None = None
SYMMETRY ProcessSymmetry
CHECK_DEADLOCK FALSE
INVARIANTS TypeOK SingleLoop SingleLoopUntilFirstExit
