SPECIFICATION FairSpec
CONSTANTS
  Decisions = {d1, d2}
  Symbols = {s1}
  MaxOpen = 1
  MaxDaily = 2
  Days = 2
  FaultSets = {{"raise", "fetch", "newDay"}, {"fetch", "text", "window"}, {"crash"}, {"lostReply"}}
  None = None
CHECK_DEADLOCK FALSE
INVARIANTS TypeOK OneLiveOrder FillIsReal BookedOnce FilledIsBooked
PROPERTIES IterationsGoOn ExecutionIsBooked
