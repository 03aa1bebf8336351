SPECIFICATION Spec
CONSTANTS
  Owners = {a, b}
  Ttl = 2
  MaxClock = 3
  MaxToken = 3
  Hashes = {h1, h2}
  Unchanged = {h2}
  Paper = {TRUE, FALSE}
  Nothing = Nothing
SYMMETRY OwnerSymmetry
INVARIANTS TypeOK
PROPERTIES FencedRun LeaseSpec
