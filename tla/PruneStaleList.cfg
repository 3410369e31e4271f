SPECIFICATION Spec
CONSTANTS
  Procs = {p1, p2}
  NoProc = NoProc
  Chunks = {c1, c2}
  Files = {f1}
  DirRoot = DirRoot
  Roots = {DirRoot}
  MinSnaps = 1
  EccDataShards = 1
  EccParityShards = 1
  ParityChunks = {c2}
  Commands = {"full", "prune"}
  Faults = {}
  MaxCommands = 5
SYMMETRY Symmetry
INVARIANTS RefsCover
CHECK_DEADLOCK FALSE
