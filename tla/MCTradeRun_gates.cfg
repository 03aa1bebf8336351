SPECIFICATION Spec
CONSTANTS
  OrderIds = {o1, o2}
  Symbols = {s1}
  Sides = {"BUY", "SELL"}
  Prices = {p1, p2}
  Qty = 1
  MaxPolls = 2
  MaxAttempts = 2
  FaultSets = {{"crash", "raise", "lostReply", "newDay"},
               {"crash", "lostReply", "fetch", "text", "newDay", "lateFill"},
               {"lostReply", "lateFill"},
               {"lostReply"}}
  None = None
SYMMETRY Symmetries
CHECK_DEADLOCK FALSE
INVARIANTS TypeOK LiveIntentUnique PositionIsLedger ResultTellsBooking
  FinishedRunClosesOrder
PROPERTIES SubmitOnlyWhenAccounted HaltedOnUnknown TerminalIsFinal
  UnknownPreserved
