SPECIFICATION Spec
CONSTANTS
  Handlers = {h1, h2, h3}
  None = None
  Invoices = {i1}
  Payments = {q1, q2, q3}
  MaxI64 = 3
  Bills <- MCBills
  Amounts <- MCAmounts
  Updates <- MCUpdates
  Payouts = {p1, p2}
  Disputes = {d1}
  Customers = {c1}
  Methods = {m1, m2}
  Fields = {"email", "name"}
  FieldUpdates <- MCFieldUpdates
  Limit = 2
  Days = 2
  Accounts = {a1}
  Transfers = {x1}
  Subscriptions = {s1}
SYMMETRY Symmetry
CHECK_DEADLOCK FALSE
INVARIANTS
  PaidMeansPaid
  ReviewHasEvidence
  OneDefault
  AllowedNearLimit
  UpdatesKept
PROPERTIES
  SettledPayoutIsFinal
  DecisionStands
  CanceledIsFinal
