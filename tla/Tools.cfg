SPECIFICATION ToolsSpec
CONSTANTS
  Topics = {"watch", "maintenance", "erasure", "restore", "encoding", "chunker", "retention",
            "schedules", "apfs"}
  f1 = f1
  f2 = f2
  f3 = f3
  d1 = d1
  a = a
  b = b
  Files = {f1, f2}
  Dirs = {d1}
  Source = Source
  DirOf <- InOneDirectory
  Versions = {v1, v2}
  Absent = Absent
  Faults = {"crash", "error"}
  MaxEdits = 2
  MaxStarts = 2
  DataChunks = {a, b}
  GroupSize = 2
  GroupParity = 2
  Singular = {}
  BackupInputs <- GroupInputs
  MaxWrites = 2
  MaxDamages = 1
  MaxChecks = 1
  DataShards = 4
  ParityShards = 3
  ShardInputs <- TwoVectors
  ShardLosses <- LossesOfFour
  FieldSamples <- AllBytes
  RestorePaths <- SomePaths
  DirsAbove <- SomeDirs
  TmpPath <- SomeTmps
  Outside = "outside"
  RestoreTrees <- SomeTrees
  TargetTrees <- SomeTargets
  RestoreOptions <- SomeOptions
  RestoreFaults = {"crash", "io"}
  MaxRestores = 2
  EncUsers = {"u1", "u2"}
  EncFiles = {f1, f2}
  EncContents = {"v1", "v2"}
  TheDirectory = TheDirectory
  Passwords = {"p1", "p2"}
  NoKey = NoKey
  EncFaults = {"crash"}
  MaxEncEdits = 1
  MaxEncCommands = 4
  WordBits = 3
  ByteWord <- TwoBytes
  ZeroByte = 0
  MinSize = 2
  MaxSize = 5
  TargetSize = 4
  ChunkerInputs <- ShortFiles
  RetentionDays <- SixDays
  YearOf <- SixYears
  MonthOf <- SixMonths
  WeekNumberOf <- SixWeekNumbers
  WeekOf <- SixWeeks
  Policies <- SomePolicies
  MaxSnapshots = 4
  MaxPrunes = 2
  Frequencies = {1, 2}
  JobSources = {"x", "y"}
  NoJobThere = "nothing"
  MaxScheduleCommands = 3
  MaxLogins = 1
  Backers = {"x", "y"}
  SourceKinds <- ThreeSources
  ApfsFaults = {"crash", "tool"}
  MaxApfsSnapshots = 2
  MaxSeconds = 2
INVARIANTS
   TakenCaptured
  RepairComplete RepairedCounted VerdictSound AlarmJustified
  FieldIsSound RecoveredExact MaxLossRecoverable
  RestoredOrReported UserFilesKept NoPartialFiles CleanRestoreExact
  KeysKept RestorableUnderOneSetting NoSilentGarbage
  ChunkSizes HashOfWindow CutsMeetAgain
  NewestOfPeriodsKept NothingElseKept
  ScheduledRuns UnscheduledStops
  OwnSnapshotRead SnapshotsReleased
PROPERTIES FullBackupTracked RepairHarmless WritersHarmless
CHECK_DEADLOCK FALSE
