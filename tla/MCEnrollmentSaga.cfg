\* Pushes: two readers, one enrollment, a retry, two faults.
CONSTANTS
  d1 = d1
  d2 = d2
  NoOne = NoOne
  Backfill = Backfill
  Purge = Purge
  Enrollments = {e1}
  Devices = {d1, d2}
  MaxCommands = 2
  Initially = {d1, d2}
  Retirable = {}
  MayLeave = FALSE
  MaxFaults = 2
SPECIFICATION FairSpec
INVARIANTS
  NoReplay
  CheckpointIsKept
  StatusIsAggregate
PROPERTIES
  PushSettles
CHECK_DEADLOCK FALSE
