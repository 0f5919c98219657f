SPECIFICATION Spec
CONSTANTS
  Handlers = {h1, h2, h3}
  TxnIds = {t1, t2}
  ExternalIds = {x1}
  None = None
SYMMETRY Symmetry
INVARIANTS
  IdempotentCreate
  KeyGuardsTransaction
  OutboxMatchesTransactions
  AuditTrailComplete
  AuditTrailTruthful
PROPERTIES
  SettledIsFinal
  ImplementsPayments
