\* A command, and a client that may go away.
CONSTANTS
  Clients = {c1}
  Modes = {"stream"}
  Directions = {"in"}
  Budgets <- MCOneCommand
SPECIFICATION Spec
INVARIANT DisconnectKeepsAudit
