SPECIFICATION FairSpec
CONSTANTS
  Handlers = {h1, h2}
  TxnIds = {t1}
  ExternalIds = {x1}
  None = None
PROPERTIES
  TerminalStatesFinal
