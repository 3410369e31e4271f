SPECIFICATION Spec
CONSTANTS
  Procs = {p1}
  NoProc = NoProc
  Chunks = {c1, c2}
  Files = {f1, f2}
  DirRoot = DirRoot
  Roots = {DirRoot}
  MinSnaps = 1
  EccDataShards = 2
  EccParityShards = 1
  ParityChunks = {c2}
  Commands = {"full", "inc", "prune"}
  Faults = {}
  MaxCommands = 4
INVARIANTS RefsCover
CHECK_DEADLOCK FALSE
