\* One behaviour is bounded by one of the budgets.
CONSTANTS
  c1 = c1
  c2 = c2
  l1 = l1
  l2 = l2
  Captures = {c1, c2}
  Leaves = {l1, l2}
  Budgets <- MCBudgets
SPECIFICATION FairSpec
INVARIANTS
  PhotosFollowSessions
  ForeignSurvives
  EvidenceFollowsLeave
  AtMostOneUnaudited
PROPERTIES
  SessionsExpire
CHECK_DEADLOCK FALSE
