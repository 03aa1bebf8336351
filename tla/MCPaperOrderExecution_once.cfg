SPECIFICATION Spec
CONSTANTS
  Keys = {k1}
  OrderIds = {o1, o2}
  Executors = {w1, w2, w3}
  Reconcilers = {r1, r2}
  Symbols = {s1, s2}
  FaultSets = {{"crash", "lostReply", "record", "mark", "fetch"},
               {"record", "fetch"}}
  None = None
SYMMETRY Symmetries
INVARIANTS TypeOK OneSubmission TakenOrderTraceable
PROPERTY IntentSpec
