\* An enrollment in flight outlives the purge of its employee.
CONSTANTS
  d1 = d1
  d2 = d2
  NoOne = NoOne
  Backfill = Backfill
  Purge = Purge
  Enrollments = {e1}
  Devices = {d1}
  MaxCommands = 1
  Initially = {d1}
  Retirable = {}
  MayLeave = TRUE
  MaxFaults = 0
SPECIFICATION Spec
INVARIANTS
  LeaverIsPurged
CHECK_DEADLOCK FALSE
