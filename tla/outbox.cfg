SPECIFICATION FairSpec
CONSTANTS
  Events = {1, 2}
  Processors = {p1, p2}
  MaxRetries = 2
  Limit = 1
  None = None
INVARIANTS
  CompletedWasSent
  SendsAreCounted
PROPERTIES
  PendingIsTaken
