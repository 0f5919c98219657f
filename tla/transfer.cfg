SPECIFICATION FairSpec
CONSTANTS
  Handlers = {h1, h2, h3}
  Accounts = {a, b}
  None = None
  Amounts = {1}
  Balances = {1, 2}
  MaxBigInt = 3
INVARIANTS
  TypeOK
  NoOverdraft
  MoneyConserved
  CheckedBalanceIsCurrent
PROPERTIES
  TransfersFinish
