SPECIFICATION Spec
CONSTANTS
  a = a
  b = b
  j1 = j1
  j2 = j2
  Items = {a, b}
  Handles = {h1, h2, h3, h4}
  Jobs = {j1, j2}
  ListOf <- MCListOf
  WebJobs = {j2}
  Asks <- MCAsks
  Old = {h1}
  Before <- MCBefore
  NoHandle = NoHandle
  NoItem = NoItem
  Elsewhere = Elsewhere
  h1 = h1
  h2 = h2
  h3 = h3
  h4 = h4
  MaxRuns = 3
  MaxFaults = 2
SYMMETRY Fresh
CHECK_DEADLOCK FALSE
INVARIANTS TypeOK HandlesSound CompleteMeansPublished
PROPERTY OnlyAskedChanges
