SPECIFICATION LeaseSpec
CONSTANTS
  Owners = {a, b, c}
  Ttl = 2
  MaxClock = 5
  MaxToken = 4
SYMMETRY OwnerSymmetry
INVARIANT LeaseMutex
