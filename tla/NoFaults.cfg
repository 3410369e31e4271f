SPECIFICATION Spec
CONSTANTS
  Procs = {p1}
  NoProc = NoProc
  Chunks = {c1, c2}
  Files = {f1, f2}
  DirRoot = DirRoot
  Roots = {f1, f2, DirRoot}
  MinSnaps = 1
  EccDataShards = 2
  EccParityShards = 1
  ParityChunks = {c2}
  Commands = {"full", "sys", "prune", "compact"}
  Faults = {}
  MaxCommands = 5
SYMMETRY Symmetry
INVARIANTS RefsExact
CHECK_DEADLOCK FALSE
