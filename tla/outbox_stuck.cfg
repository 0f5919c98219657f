SPECIFICATION FairSpec
CONSTANTS
  Events = {1, 2, 3}
  Processors = {p1}
  MaxRetries = 2
  Limit = 2
  None = None
PROPERTIES
  PublishedOrRetriesSpent
