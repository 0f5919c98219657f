SPECIFICATION Spec
CONSTANTS
  Intents = {small, large}
  Large = {large}
  Methods = {m1, m2}
  Requests = {r1, r2, r3}
  StatusWidth = 23
  None = None
SYMMETRY Symmetry
INVARIANTS
  LargeIsAuthenticated
  ProcessingIsAttended
  SerialChargesAreRight
