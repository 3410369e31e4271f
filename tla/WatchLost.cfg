SPECIFICATION Spec
CONSTANTS
  f1 = f1
  f2 = f2
  f3 = f3
  d1 = d1
  Files = {f1, f2}
  Dirs = {}
  Source = Source
  DirOf <- AtTheRoot
  Versions = {v1, v2}
  Absent = Absent
  Faults = {}
  MaxEdits = 2
  MaxStarts = 1
INVARIANTS ChangesKept
CHECK_DEADLOCK FALSE
