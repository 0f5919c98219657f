SPECIFICATION Spec
CONSTANTS
  Replays = {p1, p2}
  Events = {e1, e2}
CHECK_DEADLOCK FALSE
INVARIANT
  LedgerIsRebuilt
