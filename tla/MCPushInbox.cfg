\* Two faults, two attempts, batches of one row.
CONSTANTS
  ana = ana
  luis = luis
  dated = dated
  undated = undated
  broken = broken
  beat = beat
  Nobody = Nobody
  Parts <- MCParts
  Bodies <- MCBodies
  Person <- MCPerson
  Buckets <- MCBuckets
  Unparseable = {broken}
  Heartbeats = {beat}
  WithPhoto = {dated}
  MaxAttempts = 2
  BatchSize = 1
  MaxFaults = 2
SPECIFICATION FairSpec
INVARIANTS
  AckedIsSafe
  CountedOncePerTry
PROPERTIES
  PhotosFollowRows
  WorkerDrains
CHECK_DEADLOCK FALSE
