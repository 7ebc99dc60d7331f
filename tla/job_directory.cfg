SPECIFICATION FairSpec
CONSTANTS
  a = a
  b = b
  p1 = p1
  p2 = p2
  p3 = p3
  Items = {a, b}
  Procs = {p1, p2, p3}
  Requests <- Some
  MaxFaults = 1
  Absent = Absent
  Empty = Empty
  Header = Header
  Junk = Junk
CHECK_DEADLOCK FALSE
INVARIANTS TypeOK DuplicatesNeedCause VerdictIsTrue JobCanResume
PROPERTY RefusedMeansDone
