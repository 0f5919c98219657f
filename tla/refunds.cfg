SPECIFICATION Spec
CONSTANTS
  t1 = t1
  t2 = t2
  Txns = {t1, t2}
  Price <- MCPrice
  Requests = {r1, r2, r3}
  Asked = {1, 2, 7}
  MaxI64 = 7
  None = None
SYMMETRY Symmetry
CHECK_DEADLOCK FALSE
INVARIANTS
  RefundedWithinAmount
  RefundedIsBacked
  CountIsExact
  SerialRefundsAddUp
