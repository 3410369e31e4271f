SPECIFICATION Spec
CONSTANTS
  Procs = {p1}
  NoProc = NoProc
  Chunks = {c1, c2}
  Files = {f1}
  DirRoot = DirRoot
  Roots = {DirRoot}
  MinSnaps = 1
  EccDataShards = 1
  EccParityShards = 1
  ParityChunks = {c2}
  Commands = {"sys"}
  Faults = {"crash"}
  MaxCommands = 1
SYMMETRY Symmetry
INVARIANTS SnapshotsRestorable
CHECK_DEADLOCK FALSE
