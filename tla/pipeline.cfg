SPECIFICATION FairPipelineSpec
CONSTANTS
  Processors = {i1}
  Handlers = {h1, h2}
  InstanceOf <- MCInstanceOf
  Events = {1}
  ExternalIds = {x1}
  MaxRetries = 2
  Limit = 1
  None = None
INVARIANTS
  RetriesBounded
  DuplicatesAreCounted
PROPERTIES
  RequestsFinish
  ImplementsDelivery
