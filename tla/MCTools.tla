-------------------------------- MODULE MCTools --------------------------------
(***************************************************************************)
(* Model-checking instances of the components beside the store: watch      *)
(* mode, verification and repair, the erasure code, restore, how chunks    *)
(* are encoded, chunking, the retention policy, scheduling and file system *)
(* snapshots.  They share no state, so a behaviour is one of one of them:  *)
(* the others stay as they start.                                          *)
(***************************************************************************)
EXTENDS WatchDaemon, Maintenance, ReedSolomon, Restore, Encoding, Chunker, Retention,
        Schedules, ApfsSnapshot

CONSTANTS
  Topics,   \* the components this instance is about
  f1, f2, f3, d1, a, b

VARIABLES
  topic,   \* the component a behaviour is about
  inputs   \* the lists of chunks that backups store, where that is maintenance

toolVars == <<vars, maintenanceVars, rsVars, restoreVars, encVars, chunkerVars,
              retentionVars, schedulesVars, apfsVars>>

-----------------------------------------------------------------------------
\* WatchDaemon: the first file is at the root of the source, the others are
\* in its directory, if it has one.

InOneDirectory == [f \in Files |-> IF f = f1 THEN Source ELSE d1]
AtTheRoot == [f \in Files |-> Source]

\* Maintenance: one chunk alone, one twice, two groups of the same two; not the
\* last two in one behaviour.
InputSets == {{<<b>>, <<a, a>>}, {<<b>>, <<a, b, b, a>>}}
GroupInputs == UNION InputSets

\* The backup that starts stores one of the lists.
BackupOfOne(lists) ==
  wPc = "idle" /\ wPc' \in {"parity", "snapshot"} =>
    \E list \in lists : wJob'.chunks = ToSet(list) /\ wJob'.groups = GroupsOf(list)

\* ReedSolomon: two vectors, every loss of at most one shard more than can be
\* recovered, all bytes of the field; and of the 64 and 8 shards of the default
\* configuration, four whose loss the first 64 that are left do not make good, and
\* eight whose loss nothing does.
TwoVectors ==
  {[i \in DataPositions |-> {k \in 0..7 : ((i * 91 + 7) \div 2^k) % 2 = 1}],
   [i \in DataPositions |-> IF i = 2 THEN 0..7 ELSE {}]}
SomeOfSeventyTwo == {{0, 1, 25, 66}, {0, 3, 5, 66, 67, 69, 70, 71}}
LossesOfFour == {S \in SUBSET (0..6) : Cardinality(S) <= 4}
AllBytes == SUBSET (0..7)

\* Restore: names that share a temporary name, a directory, a link.
SomePaths == {"a.doc", "a.tmp", "a.txt", "d", "d.tmp", "d/x", "d/x.tmp", "l", "l.tmp"}

SomeDirs == [p \in SomePaths |-> IF p \in {"d/x", "d/x.tmp"} THEN {"d"} ELSE {}]

SomeTmps ==
  [p \in SomePaths |->
     CASE p \in {"a.doc", "a.tmp", "a.txt"} -> "a.tmp"
       [] p \in {"d/x", "d/x.tmp"} -> "d/x.tmp"
       [] p \in {"l", "l.tmp"} -> "l.tmp"
       [] OTHER -> "d.tmp"]

FileAt(p) == [kind |-> "file", path |-> p]
LinkAt(p, to) == [kind |-> "link", path |-> p, to |-> to]
DirAt(p, ro) == [kind |-> "dir", path |-> p, ro |-> ro]

\* Two names of one temporary name and a read-only directory; a file that has
\* the other's temporary name; a link to outside; one directory twice, as two
\* sources of one name make it.
SomeTrees ==
  {<<FileAt("a.doc"), FileAt("a.txt"), DirAt("d", TRUE), FileAt("d/x")>>,
   <<FileAt("a.tmp"), FileAt("a.txt"), LinkAt("l", "a.txt")>>,
   <<DirAt("d", FALSE), FileAt("d/x"), LinkAt("l", "outside")>>,
   <<DirAt("d", FALSE), FileAt("d/x"), DirAt("d", FALSE), FileAt("d/x")>>}

EmptyTarget == [p \in SomePaths |-> None]

SomeTargets ==
  {EmptyTarget,
   [EmptyTarget EXCEPT !["a.txt"] = File(UserContent), !["d"] = Dir(FALSE),
                       !["d/x"] = Link("l.tmp")],
   [EmptyTarget EXCEPT !["a.txt"] = Link("a.tmp"), !["a.tmp"] = Link("d.tmp"),
                       !["d.tmp"] = Link("l.tmp"), !["d"] = File(UserContent)],
   [EmptyTarget EXCEPT !["a.tmp"] = Dir(FALSE), !["l"] = File(UserContent)]}

SomeOptions ==
  {[overwrite |-> FALSE, dry_run |-> FALSE, preserve |-> TRUE],
   [overwrite |-> TRUE, dry_run |-> FALSE, preserve |-> FALSE],
   [overwrite |-> FALSE, dry_run |-> TRUE, preserve |-> TRUE]}

\* Chunker: words of three bits, every file of at most eight of two bytes.
TwoBytes == [x \in {0, 1} |-> IF x = 0 THEN {0} ELSE {1}]
ShortFiles == UNION {[1..n -> {0, 1}] : n \in 0..8}

\* Retention: the first two days of a year, two at its end, of which one is in
\* week 1 of the next, and the first two of the next year.
SixDays == 1..6
SixYears == <<2024, 2024, 2024, 2024, 2025, 2025>>
SixMonths == <<1, 1, 12, 12, 1, 1>>
SixWeekNumbers == <<1, 2, 52, 1, 1, 2>>
SixWeeks == <<0, 1, 51, 52, 52, 53>>

SomePolicies ==
  {[keep_daily |-> p[1], keep_weekly |-> p[2], keep_monthly |-> p[3]] :
     p \in {<<1, 0, 0>>, <<0, 1, 0>>, <<0, 0, 2>>, <<0, 2, 1>>}}

\* ApfsSnapshot: a source that is read in the snapshot, one that is looked for
\* at a wrong place, one that is read live.
ThreeSources ==
  {[written |-> "canonical", root |-> TRUE], [written |-> "relative", root |-> TRUE],
   [written |-> "link", root |-> FALSE]}

-----------------------------------------------------------------------------
\* What a component that is not looked at starts from is one state.
ToolsInit ==
  /\ topic \in Topics
  /\ inputs \in IF topic = "maintenance" THEN InputSets ELSE {{}}
  /\ Init /\ (topic # "watch" => disk = NoFiles)
  /\ MaintenanceInit
  /\ ReedSolomonInit
  /\ RestoreInit /\ (topic # "restore" => target = EmptyTarget)
  /\ EncodingInit /\ (topic # "encoding" => encSource = [f \in EncFiles |-> "v1"])
  /\ ChunkerInit
  /\ RetentionInit
  /\ SchedulesInit /\ (topic # "schedules" => platform = "macos")
  /\ ApfsInit

ToolsNext ==
  /\ UNCHANGED <<topic, inputs>>
  /\ IF topic = "watch" THEN Next ELSE UNCHANGED vars
  /\ IF topic = "maintenance" THEN MaintenanceNext /\ BackupOfOne(inputs)
     ELSE UNCHANGED maintenanceVars
  /\ IF topic = "erasure" THEN ReedSolomonNext ELSE UNCHANGED rsVars
  /\ IF topic = "restore" THEN RestoreNext ELSE UNCHANGED restoreVars
  /\ IF topic = "encoding" THEN EncodingNext ELSE UNCHANGED encVars
  /\ IF topic = "chunker" THEN ChunkerNext ELSE UNCHANGED chunkerVars
  /\ IF topic = "retention" THEN RetentionNext ELSE UNCHANGED retentionVars
  /\ IF topic = "schedules" THEN SchedulesNext ELSE UNCHANGED schedulesVars
  /\ IF topic = "apfs" THEN ApfsNext ELSE UNCHANGED apfsVars

ToolsSpec == ToolsInit /\ [][ToolsNext]_<<topic, inputs, toolVars>>

===============================================================================
