\* Both modes; a budget of one fault.
CONSTANTS
  Clients = {c1, c2}
  Modes = {"stream", "push"}
  Directions = {"in"}
  Budgets <- MCBudgets
SPECIFICATION FairSpec
INVARIANTS
  Reconciled
  StoredOnceWithOwnPhoto
  CommandIsAudited
PROPERTIES
  ShutdownEnds
  PointedAgain
