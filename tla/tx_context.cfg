SPECIFICATION FairTxSpec
CONSTANTS
  BodySize = 2
  MaxErrors = 2
  CommitsItself = FALSE
CHECK_DEADLOCK FALSE
INVARIANTS TxTypeOK EndTellsTheTruth
PROPERTY ThreadsEnd
