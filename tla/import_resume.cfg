SPECIFICATION FairSpec
CONSTANTS
  a = a
  b = b
  c = c
  Ids = {a, b, c}
  HasUri = {b}
  Files <- MCFiles
  Percents = {0, 50}
  Limits = {2, 9}
  Publish = {FALSE, TRUE}
  MaxRuns = 3
  MaxFaults = 1
  Empty = Empty
CHECK_DEADLOCK FALSE
INVARIANTS TypeOK LogMatchesRepository VerdictIsTrue
PROPERTY RunEnds
