SPECIFICATION Spec
CONSTANTS
  root = root
  a = a
  b = b
  d = d
  n = n
  m = m
  v0 = v0
  v1 = v1
  v2 = v2
  bad = bad
  r1 = r1
  r2 = r2
  r3 = r3
  Paths = {root, a, b, d, n, m}
  Ancestors <- MCAncestors
  Members <- MCMembers
  HtmlFiles <- MCHtmlFiles
  Living = {root, a, b, d}
  Values = {v0, v1, v2, bad}
  Invalid = {bad}
  StubRows = {r1, r2, r3}
  Sourceless = {r2}
  Procs = {p1, p2}
  Commands <- MCCommands
  MaxFaults = 2
CHECK_DEADLOCK FALSE
INVARIANTS TypeOK DeleteLogIsTrue TreeIsClosed EditsAreWhole
