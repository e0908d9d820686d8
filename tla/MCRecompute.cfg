\* Three days, chunks of two, bursts of one, one fault.
CONSTANTS
  exit = exit
  trip = trip
  rest = rest
  NoLeave = NoLeave
  NoRecord = NoRecord
  MaxDay = 3
  Events = {exit}
  CapturedAt <- NightCapturedAt
  ShiftStart = 420
  ShiftEnd = 415
  Overnight = TRUE
  TolBefore = 10
  TolAfter = 10
  Leaves = {trip, rest}
  First <- MCFirst
  Last <- MCLast
  ChunkDays = 2
  Burst = 1
  MaxWrites = 3
  MaxNight = 1
  MaxFaults = 1
SPECIFICATION FairSpec
INVARIANTS
  StaleIsQueued
  OneLeavePerDay
PROPERTIES
  RecordsCatchUp
