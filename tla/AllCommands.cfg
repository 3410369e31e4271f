SPECIFICATION FairSpec
CONSTANTS
  Procs = {p1, p2}
  NoProc = NoProc
  Chunks = {c1, c2, c3}
  Files = {f1}
  DirRoot = DirRoot
  Roots = {DirRoot}
  MinSnaps = 1
  EccDataShards = 1
  EccParityShards = 1
  ParityChunks = {c2}
  Commands = {"full", "inc", "sys", "prune", "auto", "compact"}
  Faults = {"crash"}
  MaxCommands = 3
INVARIANTS TypeOK IndexSound HandlesConsistent
PROPERTIES PacksWriteOnce CommandsEnd CommandsAdvance
CHECK_DEADLOCK FALSE
