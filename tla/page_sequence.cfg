SPECIFICATION FairSpec
CONSTANTS
  s = s
  t = t
  Files = {s, t}
  Rows <- MCRows
  Fixers = {f1, f2}
  MaxFixes = 2
  MaxFollow = 6
  MaxFaults = 1
CHECK_DEADLOCK FALSE
INVARIANTS TypeOK CreatedWhole ChainIsSound
PROPERTY FixKeepsReading
