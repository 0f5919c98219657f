SPECIFICATION Spec
CONSTANTS
  None = None
  Cards <- MCCards
  Suspicious <- MCSuspicious
  Declined <- MCDeclined
  ThisMonth <- MCThisMonth
  Handlers = {h1, h2, h3}
  Rates = {r1, r2}
  LastDay = 3
  TaxRates = {1, 2}
  Places <- MCPlaces
  Percentages <- MCPercentages
  TaxedAmounts <- MCTaxedAmounts
  Users = {u1, u2}
  Emails = {"e1", "e2"}
  Endpoints = {1, 2}
  Events = {1, 2}
  Type <- MCType
  Clients = {c1, c2}
  Capacity = 2
  LastMessage = 4
SYMMETRY Symmetry
CHECK_DEADLOCK FALSE
INVARIANTS
  SlipsAreCaught
  QuotesAreCurrent
  TaxIsReversible
  OneUserPerEmail
  RowsMatchPosts
  FeedHasNoGaps
