\* One behaviour is bounded by one of the budgets.
CONSTANTS
  Machines = {m1, m2}
  Activations = {a1, a2}
  Users = {u1, u2}
  Browsers = {b1, b2}
  Requests = {r1, r2}
  Budgets <- MCBudgets
SPECIFICATION Spec
SYMMETRY MCSymmetry
INVARIANTS
  RotatedOnce
  SessionsEnd
  AdminRemains
  LicenceIsProven
CHECK_DEADLOCK FALSE
