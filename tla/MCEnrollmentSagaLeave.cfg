\* Purge and backfill: one reader from the start, one registered later, one fault.
CONSTANTS
  d1 = d1
  d2 = d2
  NoOne = NoOne
  Backfill = Backfill
  Purge = Purge
  Enrollments = {e1}
  Devices = {d1, d2}
  MaxCommands = 1
  Initially = {d1}
  Retirable = {d1}
  MayLeave = TRUE
  MaxFaults = 1
SPECIFICATION Spec
INVARIANTS
  SuccessIsReal
PROPERTIES
  RevocationIsReal
CHECK_DEADLOCK FALSE
