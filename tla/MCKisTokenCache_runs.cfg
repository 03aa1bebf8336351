SPECIFICATION FairSpec
CONSTANTS
  Clients = {c1, c2}
  Environments = {"paper", "live"}
  Life = 3
  Margin = 1
  MaxFaults = 2
  None = None
  Missing = Missing
  Empty = Empty
  Torn = Torn
INVARIANTS TypeOK OwnEnvironment TokenOutlivesRequest
PROPERTIES ClientsAreServed
