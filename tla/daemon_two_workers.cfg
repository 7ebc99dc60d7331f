SPECIFICATION Spec
CONSTANTS
  Messages = {m1, m2}
  Jobs = {m1, m2}
  JobOf <- OwnJob
  Workers = {w1, w2}
  MaxFaults = 0
  SilentLoss = FALSE
  NoFile = NoFile
  Torn = Torn
  Error = Error
  Nothing = Nothing
CHECK_DEADLOCK FALSE
INVARIANT OwnResult
