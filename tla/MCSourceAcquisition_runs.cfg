SPECIFICATION FairSpec
CONSTANTS
  Processes = {p1, p2}
  LastBucket = 2
  LastContent = 2
  CaptureCount = 2
  None = None
  Others = Others
INVARIANTS TypeOK ReceiptMatchesFile EvidenceComplete LeaseNeverLeftHeld
PROPERTIES TableNeverGoesBack LatestArrives
