SPECIFICATION Spec
CONSTANTS
  Decisions = {d1, d2}
  Symbols = {s1}
  MaxOpen = 1
  MaxDaily = 2
  Days = 1
  FaultSets = {{"lostReply"}}
  None = None
CHECK_DEADLOCK FALSE
INVARIANT UnfilledNotShownAsFilled
