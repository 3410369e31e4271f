SPECIFICATION MCSpec
CONSTANTS
  Procs = {p1, p2}
  NoProc = NoProc
  Chunks = {c1, c2}
  Files = {f1, f2}
  DirRoot = DirRoot
  Roots = {f1, f2, DirRoot}
  MinSnaps = 1
  EccDataShards = 2
  EccParityShards = 1
  ParityChunks = {c2}
  Commands = {"full", "prune", "compact"}
  Faults = {"crash", "io"}
  MaxCommands = 4
  MaxShared = 4
  MaxAlone = 3
SYMMETRY Symmetry
INVARIANTS SnapshotsRestorable RefsCover CompactReclaims
PROPERTIES StoreSpec KeepsMinSnaps
CHECK_DEADLOCK FALSE
