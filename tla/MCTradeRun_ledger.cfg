SPECIFICATION FairSpec
CONSTANTS
  OrderIds = {o1, o2}
  Symbols = {s1}
  Sides = {"BUY"}
  Prices = {p1}
  Qty = 2
  MaxPolls = 1
  MaxAttempts = 2
  FaultSets = {{"crash", "raise", "lostReply", "fetch", "text", "newDay", "lateFill"}}
  None = None
CHECK_DEADLOCK FALSE
INVARIANT LedgerBracket
PROPERTIES BooksExecutions RunTerminates
