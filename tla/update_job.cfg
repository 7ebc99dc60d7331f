SPECIFICATION FairSpec
CONSTANTS
  u = u
  v = v
  w = w
  x = x
  y = y
  Resources = {u, v, w, x, y}
  Uris = {u, v}
  Children <- MCChildren
  Gone = {x}
  Invalid = {y}
  Options <- MCOptions
  MaxRuns = 3
  MaxFaults = 2
CHECK_DEADLOCK FALSE
INVARIANTS TypeOK LogMatchesUpdates CompleteMeansUpdated
PROPERTY RunEnds
