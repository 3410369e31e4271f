------------------------------- MODULE Maintenance -------------------------------
(***************************************************************************)
(* verify and repair, beside the commands that write the repository, and   *)
(* over a disk that loses data.                                            *)
(*                                                                         *)
(* A backup puts every data_shards chunks it stores into a parity group,   *)
(* stores the group's parity chunks like any other chunk, and saves a      *)
(* parity index.  verify and repair read the chunk index without the lock; *)
(* repair reads every chunk first, opens the repository only when one was  *)
(* bad, and writes what a group can reconstruct into packs of its own.     *)
(*                                                                         *)
(* Abstractions: reference counts are exact (BackupShield is about them);  *)
(* a parity chunk is the list of chunks it is computed from and its number *)
(* in the group; which shards a group can be reconstructed from is a       *)
(* parameter (ReedSolomon is about that); a snapshot is the chunks of its  *)
(* files.                                                                  *)
(* One writer and one maintenance command run at a time.                   *)
(***************************************************************************)
EXTENDS Naturals, FiniteSets, Sequences, SequencesExt

CONSTANTS
  DataChunks,      \* the chunks of the users' files
  GroupSize,       \* ecc_data_shards
  GroupParity,     \* ecc_parity_shards
  Singular,        \* the sets of positions in a group, large enough, whose rows of the
                   \* encoding matrix cannot be inverted
  BackupInputs,    \* bound: the lists of chunks a backup may store, in order
  MaxWrites,       \* bound: how many writing commands start
  MaxDamages,      \* bound: how often the disk loses data
  MaxChecks        \* bound: how many verifications and repairs start

ASSUME MaintenanceAssumption ==
  /\ GroupSize \in Nat \ {0} /\ GroupParity \in Nat \ {0}
  /\ Singular \subseteq SUBSET (1..GroupSize + GroupParity)
  /\ BackupInputs \subseteq Seq(DataChunks)
  /\ MaxWrites \in Nat /\ MaxDamages \in Nat /\ MaxChecks \in Nat

VARIABLES
  packFiles,    \* pack id -> the chunks in the pack
  rotten,       \* <<pack id, chunk>>: copies whose bytes have changed
  chunkIndex,   \* the saved chunk index: chunk -> pack id
  parityIndex,  \* the saved parity index: a sequence of groups
  snapshots,    \* the saved snapshots: snapshot -> its chunks
  repoLock,     \* "free", "writer" or "repair"
  wPc,          \* the writer
  wJob,         \* what the writer holds in memory
  cPc,          \* the verification or repair
  cIndex,       \* the chunk index it has loaded, without the lock
  cGroups,      \* the parity index it has loaded
  cUnread,      \* the chunks it has still to read
  cBad,         \* the chunks that could not be read
  cTodo,        \* the groups with bad chunks, still to be repaired
  cWrites,      \* <<group, position>> of the reconstructed chunks, still to be written
  cMem,         \* the chunk index of the repository handle repair opened
  cRepaired,    \* how many chunks it has written
  verdict,      \* what the last verification said
  quiet,        \* history: nothing changed since the check loaded the indexes
  calm,         \* history: the disk lost nothing since the writer took the lock
  covered,      \* history: chunks a completed backup has put into a parity group
  lostPacks,    \* history: ids of packs the disk has lost
  writes, damages, checks

storeVars == <<packFiles, rotten, chunkIndex, parityIndex, snapshots>>
writerVars == <<wPc, wJob>>
checkVars == <<cPc, cIndex, cGroups, cUnread, cBad, cTodo, cWrites, cMem, cRepaired, verdict>>
countVars == <<writes, damages, checks>>
historyVars == <<quiet, calm, covered, lostPacks>>
maintenanceVars == <<storeVars, repoLock, writerVars, checkVars, historyVars, countVars>>

Nothing == [c \in {} |-> 0]
NoJob == [new |-> {}, groups |-> <<>>, mem |-> Nothing, chunks |-> {}, system |-> FALSE]

-----------------------------------------------------------------------------
\* What is on disk.

\* PackReader::read_chunk: the pack exists, holds the chunk where the index
\* says, and the bytes still have the hash.
ReadableIn(idx, c) ==
  /\ c \in DOMAIN idx
  /\ idx[c] \in DOMAIN packFiles
  /\ c \in packFiles[idx[c]]
  /\ <<idx[c], c>> \notin rotten

Readable(c) == ReadableIn(chunkIndex, c)

\* PackReader::verify_pack: the checksum at the end of the file.
PackIntact(k) == \A c \in packFiles[k] : <<k, c>> \notin rotten

\* The id after the highest one on disk, as a set of one.
NextPackIds == {m + 1 : m \in {m \in {0} \cup DOMAIN packFiles :
                                 \A k \in DOMAIN packFiles : k <= m}}

WithPack(id, chunks) ==
  [k \in DOMAIN packFiles \cup {id} |-> IF k = id THEN chunks ELSE packFiles[k]]

Restorable(s) == \A c \in snapshots[s] : Readable(c)

Indexed(s) == snapshots[s] \subseteq DOMAIN chunkIndex

WithoutKeys(f, S) == [x \in DOMAIN f \ S |-> f[x]]

-----------------------------------------------------------------------------
\* Parity groups.

ParityOf(data, n) == [of |-> data, nr |-> n]

\* Data chunks first, then parity chunks (ParityGroup).
ParityGroup(data) == [data |-> data, parity |-> [n \in 1..GroupParity |-> ParityOf(data, n)]]

GroupChunks(g) == g.data \o g.parity

\* The groups of a backup that stores these chunks one after the other; a
\* remainder shorter than a group gets no parity.
GroupsOf(input) ==
  [i \in 1..(Len(input) \div GroupSize) |->
     ParityGroup(SubSeq(input, (i - 1) * GroupSize + 1, i * GroupSize))]

\* A chunk of the group, data or parity.
HasChunk(g, c) == \E i \in DOMAIN GroupChunks(g) : GroupChunks(g)[i] = c

\* Slip: every group that has the chunk.
EveryGroup(groups, c) == {g \in DOMAIN groups : HasChunk(groups[g], c)}

\* ParityIndex::find_group_by_hash: the first group that has the chunk.
FirstGroup(groups, c) == {g \in DOMAIN groups :
  /\ HasChunk(groups[g], c)
  /\ \A h \in DOMAIN groups : HasChunk(groups[h], c) => g <= h}

-----------------------------------------------------------------------------
\* The writers.

WriterSteps(step) ==
  /\ wPc' = step
  /\ quiet' = FALSE
  /\ UNCHANGED <<checkVars, lostPacks, damages, checks>>

\* A command that writes takes the lock.
WriterStarts ==
  /\ wPc = "idle" /\ repoLock = "free" /\ writes < MaxWrites
  /\ writes' = writes + 1
  /\ calm' = TRUE

WriterContinues == UNCHANGED <<calm, writes>>

\* Walks the source under the lock: a chunk the index knows is not stored
\* again, readable or not; full groups get their parity chunks.
BackupWalk ==
  /\ WriterStarts
  /\ \E input \in BackupInputs, system \in BOOLEAN :
       LET groups == GroupsOf(input)
           stored == ToSet(input) \cup UNION {ToSet(groups[g].parity) : g \in DOMAIN groups}
       IN  /\ wJob' = [new |-> stored \ DOMAIN chunkIndex, groups |-> groups,
                       mem |-> chunkIndex, chunks |-> ToSet(input), system |-> system]
           /\ WriterSteps(IF system THEN "snapshot" ELSE "parity")
  /\ repoLock' = "writer"
  /\ UNCHANGED <<storeVars, covered>>

\* The parity index is replaced, not extended, and only by a backup with a group.
SaveParityIndex ==
  /\ wPc = "parity"
  /\ parityIndex' = IF wJob.groups = <<>> THEN parityIndex ELSE wJob.groups
  /\ WriterSteps("flush") /\ WriterContinues
  /\ UNCHANGED <<packFiles, rotten, chunkIndex, snapshots, repoLock, wJob, covered>>

FlushNew ==
  /\ wPc = "flush"
  /\ \E id \in NextPackIds :
       IF wJob.new = {}
       THEN UNCHANGED <<packFiles, wJob>>
       ELSE /\ packFiles' = WithPack(id, wJob.new)
            /\ wJob' = [wJob EXCEPT !.mem = [c \in DOMAIN @ \cup wJob.new |->
                                               IF c \in wJob.new THEN id ELSE @[c]]]
  /\ WriterSteps("index") /\ WriterContinues
  /\ UNCHANGED <<rotten, chunkIndex, parityIndex, snapshots, repoLock, covered>>

EndWriter == repoLock' = "free" /\ wJob' = NoJob /\ WriterSteps("idle")

SaveChunkIndex ==
  /\ wPc = "index"
  /\ chunkIndex' = wJob.mem
  /\ covered' = covered \cup UNION {ToSet(wJob.groups[g].data) : g \in DOMAIN wJob.groups}
  /\ IF wJob.system THEN EndWriter
     ELSE WriterSteps("snapshot") /\ UNCHANGED <<repoLock, wJob>>
  /\ WriterContinues
  /\ UNCHANGED <<packFiles, rotten, parityIndex, snapshots>>

\* finish_backup saves the snapshot last, cmd_backup_system first.
SaveSnapshotFile ==
  /\ wPc = "snapshot"
  /\ snapshots' = [s \in DOMAIN snapshots \cup {writes} |->
                     IF s = writes THEN wJob.chunks ELSE snapshots[s]]
  /\ IF wJob.system THEN WriterSteps("parity") /\ UNCHANGED <<repoLock, wJob>>
     ELSE EndWriter
  /\ WriterContinues
  /\ UNCHANGED <<packFiles, rotten, chunkIndex, parityIndex, covered>>

\* A prune deletes a snapshot and drops the chunks only it referred to from the
\* index; nobody counts the references of a parity group.
PruneSnapshot ==
  /\ WriterStarts
  /\ \E s \in DOMAIN snapshots :
       /\ snapshots' = WithoutKeys(snapshots, {s})
       /\ chunkIndex' = WithoutKeys(chunkIndex,
            snapshots[s] \ UNION {snapshots[t] : t \in DOMAIN snapshots \ {s}})
  /\ WriterSteps("idle")
  /\ UNCHANGED <<packFiles, rotten, parityIndex, repoLock, wJob, covered>>

LiveChunks == UNION {snapshots[s] : s \in DOMAIN snapshots}

LiveCopies == {kc \in (DOMAIN packFiles) \X LiveChunks : kc[2] \in packFiles[kc[1]]}

\* Slip: the entries still point into the old packs.
CompactionStale(id, live) ==
  [NoJob EXCEPT !.new = live, !.chunks = DOMAIN packFiles,
     !.mem = [c \in DOMAIN chunkIndex \cap LiveChunks |-> chunkIndex[c]]]

\* What the compaction holds: the old packs, the chunks that lived in them, and
\* the index that is to be saved.
CompactionTo(id, live) ==
  [NoJob EXCEPT !.new = live, !.chunks = DOMAIN packFiles,
     !.mem = [c \in DOMAIN chunkIndex \cap LiveChunks |->
                IF c \in live THEN id ELSE chunkIndex[c]]]

\* Slip: the copies are not checked; a rotten one is copied as it is.
CompactCopyUnchecked ==
  /\ WriterStarts
  /\ DOMAIN packFiles # {}
  /\ \E id \in NextPackIds :
       LET live == {kc[2] : kc \in LiveCopies}
       IN  /\ packFiles' = IF live = {} THEN packFiles ELSE WithPack(id, live)
           /\ rotten' = rotten \cup {<<id, kc[2]>> : kc \in LiveCopies \cap rotten}
           /\ wJob' = CompactionTo(id, live)
  /\ repoLock' = "writer"
  /\ WriterSteps("compact_index")
  /\ UNCHANGED <<chunkIndex, parityIndex, snapshots, covered>>

\* compact_packs reads every copy of a live chunk, and gives up when one cannot
\* be read, or writes the live chunks to a new pack.
CompactCopy ==
  /\ WriterStarts
  /\ DOMAIN packFiles # {}
  /\ LiveCopies \cap rotten = {}
  /\ \E id \in NextPackIds :
       LET live == {kc[2] : kc \in LiveCopies}
       IN  /\ packFiles' = IF live = {} THEN packFiles ELSE WithPack(id, live)
           /\ wJob' = CompactionTo(id, live)
  /\ repoLock' = "writer"
  /\ WriterSteps("compact_index")
  /\ UNCHANGED <<rotten, chunkIndex, parityIndex, snapshots, covered>>

\* The index keeps the live chunks alone.  Parity chunks belong to no snapshot.
CompactSaveIndex ==
  /\ wPc = "compact_index"
  /\ chunkIndex' = wJob.mem
  /\ WriterSteps("compact_delete") /\ WriterContinues
  /\ UNCHANGED <<packFiles, rotten, parityIndex, snapshots, repoLock, wJob, covered>>

CompactDeleteOld ==
  /\ wPc = "compact_delete"
  /\ packFiles' = WithoutKeys(packFiles, wJob.chunks)
  /\ rotten' = {kc \in rotten : kc[1] \notin wJob.chunks}
  /\ EndWriter /\ WriterContinues
  /\ UNCHANGED <<chunkIndex, parityIndex, snapshots, covered>>

WriterCrash ==
  /\ wPc # "idle"
  /\ EndWriter /\ WriterContinues
  /\ UNCHANGED <<storeVars, covered>>

Writer ==
  \/ BackupWalk \/ SaveParityIndex \/ FlushNew \/ SaveChunkIndex \/ SaveSnapshotFile
  \/ PruneSnapshot \/ CompactCopy \/ CompactSaveIndex \/ CompactDeleteOld \/ WriterCrash

-----------------------------------------------------------------------------
\* The disk.

RotCopy ==
  /\ \E k \in DOMAIN packFiles : \E c \in packFiles[k] :
       /\ <<k, c>> \notin rotten
       /\ rotten' = rotten \cup {<<k, c>>}
  /\ UNCHANGED <<packFiles, lostPacks>>

LosePack ==
  \E k \in DOMAIN packFiles :
    /\ packFiles' = WithoutKeys(packFiles, {k})
    /\ rotten' = {kc \in rotten : kc[1] # k}
    /\ lostPacks' = lostPacks \cup {k}

Damage ==
  /\ damages < MaxDamages
  /\ RotCopy \/ LosePack
  /\ damages' = damages + 1
  /\ quiet' = FALSE /\ calm' = FALSE
  /\ UNCHANGED <<chunkIndex, parityIndex, snapshots, repoLock, writerVars, checkVars,
                 covered, writes, checks>>

-----------------------------------------------------------------------------
\* verify.

NoVerdict == [ok |-> FALSE, level |-> "none", of |-> 0]

ForgetCheck ==
  /\ cIndex' = Nothing /\ cGroups' = <<>> /\ cUnread' = {} /\ cBad' = {}
  /\ cTodo' = {} /\ cWrites' = {} /\ cMem' = Nothing /\ cRepaired' = 0

\* Starting any check loads the indexes from disk, without the lock.
LoadIndexes(step) ==
  /\ cPc = "idle" /\ checks < MaxChecks
  /\ cPc' = step
  /\ cIndex' = chunkIndex /\ cGroups' = parityIndex
  /\ cUnread' = DOMAIN chunkIndex
  /\ cBad' = {} /\ cTodo' = {} /\ cWrites' = {} /\ cMem' = Nothing /\ cRepaired' = 0
  /\ quiet' = TRUE
  /\ checks' = checks + 1
  /\ verdict' = NoVerdict
  /\ UNCHANGED <<storeVars, repoLock, writerVars, calm, covered, lostPacks, writes, damages>>

VerifyStart == LoadIndexes("verify")

\* Slip: packs are not looked into.
PacksClean == TRUE

PacksVerified == \A k \in DOMAIN packFiles : PackIntact(k)

\* quick: every indexed pack exists.  The level also checks all packs.
QuickClean == \A c \in DOMAIN cIndex : cIndex[c] \in DOMAIN packFiles

SampleClean(sample) == \A c \in sample : ReadableIn(cIndex, c)

SnapshotClean(s) == \A c \in snapshots[s] : ReadableIn(cIndex, c)

VerifyEnd(clean, level, of) ==
  /\ cPc = "verify"
  /\ cPc' = "idle"
  /\ ForgetCheck
  /\ verdict' = [ok |-> clean, level |-> level, of |-> of]
  /\ UNCHANGED <<storeVars, repoLock, writerVars, historyVars, countVars>>

VerifyQuick == VerifyEnd(PacksVerified /\ QuickClean, "quick", 0)

VerifyFull == VerifyEnd(PacksVerified /\ SampleClean(DOMAIN cIndex), "full", 0)

VerifySample ==
  \E sample \in SUBSET DOMAIN cIndex :
    VerifyEnd(PacksVerified /\ SampleClean(sample), "sample", 0)

VerifyOneSnapshot ==
  \E s \in DOMAIN snapshots : VerifyEnd(SnapshotClean(s), "snapshot", s)

-----------------------------------------------------------------------------
\* repair: scrub_and_repair.

RepairStart == LoadIndexes("scan")

\* Phase 1 reads the chunks one by one, in any order.
ScanChunk ==
  /\ cPc = "scan"
  /\ \E c \in cUnread :
       /\ cUnread' = cUnread \ {c}
       /\ cBad' = IF ReadableIn(cIndex, c) THEN cBad ELSE cBad \cup {c}
  /\ UNCHANGED <<storeVars, repoLock, writerVars, cPc, cIndex, cGroups, cTodo, cWrites,
                 cMem, cRepaired, verdict, historyVars, countVars>>

RepairEnds ==
  /\ cPc' = "reported"
  /\ UNCHANGED <<cIndex, cGroups, cUnread, cBad, cTodo, cWrites, cMem, cRepaired, verdict>>

NothingBad ==
  /\ cPc = "scan" /\ cUnread = {} /\ cBad = {}
  /\ RepairEnds
  /\ UNCHANGED <<storeVars, repoLock, writerVars, historyVars, countVars>>

\* Slip: the handle works on the index that was loaded without the lock.
HandleIndexStale == cIndex

\* Repository::open loads the index again, now under the lock.
HandleIndex == chunkIndex

\* The repository is opened only now.  A held lock ends the repair (CheckEnds).
OpenForRepair ==
  /\ cPc = "scan" /\ cUnread = {} /\ cBad # {}
  /\ repoLock = "free"
  /\ repoLock' = "repair"
  /\ cPc' = "group"
  /\ cTodo' = UNION {FirstGroup(cGroups, c) : c \in cBad}
  /\ cMem' = HandleIndex
  /\ UNCHANGED <<storeVars, writerVars, cIndex, cGroups, cUnread, cBad, cWrites,
                 cRepaired, verdict, historyVars, countVars>>

\* The bad chunks a group is asked for: those it is the first group of.
GroupBad(g) == {c \in cBad : g \in FirstGroup(cGroups, c)}

\* The positions that are not asked for and can be read where the loaded index says.
Available(g) ==
  LET chunks == GroupChunks(cGroups[g])
  IN  {i \in DOMAIN chunks : chunks[i] \notin GroupBad(g) /\ ReadableIn(cIndex, chunks[i])}

\* Slip: one shard more than needed is asked for.
EnoughPlusOne(g) ==
  Cardinality(Available(g)) > Len(cGroups[g].data) /\ Available(g) \notin Singular

\* There are as many as the group has data chunks, and they can be inverted.
Enough(g) ==
  Cardinality(Available(g)) >= Len(cGroups[g].data) /\ Available(g) \notin Singular

\* The positions of a group, and the chunk at one.
ChunksIn(g) == {<<g, i>> : i \in DOMAIN GroupChunks(cGroups[g])}
ChunkAt(w) == GroupChunks(cGroups[w[1]])[w[2]]

\* Phase 2, group by group in any order: what is to be written, one entry for
\* each bad position; a group that cannot be reconstructed is skipped.
ReconstructGroup ==
  /\ cPc = "group" /\ cWrites = {}
  /\ \E g \in cTodo :
       /\ cTodo' = cTodo \ {g}
       /\ cWrites' = IF Enough(g) THEN {w \in ChunksIn(g) : ChunkAt(w) \in GroupBad(g)} ELSE {}
  /\ UNCHANGED <<storeVars, repoLock, writerVars, cPc, cIndex, cGroups, cUnread, cBad,
                 cMem, cRepaired, verdict, historyVars, countVars>>

\* Repository::write_repaired_chunk, position by position: a pack with the one
\* chunk, then the entry, if the repository still has one, then the index.
WriteRepaired ==
  /\ cPc = "group"
  /\ \E w \in cWrites, id \in NextPackIds :
       LET c == ChunkAt(w)
       IN  /\ \A v \in cWrites : w[2] <= v[2]
           /\ packFiles' = WithPack(id, {c})
           /\ cMem' = IF c \in DOMAIN cMem THEN [cMem EXCEPT ![c] = id] ELSE cMem
           /\ cWrites' = cWrites \ {w}
  /\ chunkIndex' = cMem'
  /\ cRepaired' = cRepaired + 1
  /\ UNCHANGED <<rotten, parityIndex, snapshots, repoLock, writerVars, cPc, cIndex, cGroups,
                 cUnread, cBad, cTodo, verdict, historyVars, countVars>>

FinishRepair ==
  /\ cPc = "group" /\ cTodo = {} /\ cWrites = {}
  /\ chunkIndex' = cMem
  /\ repoLock' = "free"
  /\ RepairEnds
  /\ UNCHANGED <<packFiles, rotten, parityIndex, snapshots, writerVars, historyVars, countVars>>

\* The command is over: after the report, refused by the lock, or by a crash.
CheckEnds ==
  /\ cPc # "idle"
  /\ cPc' = "idle"
  /\ repoLock' = IF repoLock = "repair" THEN "free" ELSE repoLock
  /\ ForgetCheck
  /\ UNCHANGED <<storeVars, writerVars, verdict, historyVars, countVars>>

Repair ==
  \/ RepairStart \/ ScanChunk \/ NothingBad \/ OpenForRepair
  \/ ReconstructGroup \/ WriteRepaired \/ FinishRepair \/ CheckEnds

Verify == VerifyStart \/ VerifyQuick \/ VerifyFull \/ VerifySample \/ VerifyOneSnapshot

MaintenanceInit ==
  /\ packFiles = Nothing /\ rotten = {} /\ chunkIndex = Nothing
  /\ parityIndex = <<>> /\ snapshots = Nothing
  /\ repoLock = "free" /\ wPc = "idle" /\ wJob = NoJob
  /\ cPc = "idle" /\ cIndex = Nothing /\ cGroups = <<>> /\ cUnread = {} /\ cBad = {}
  /\ cTodo = {} /\ cWrites = {} /\ cMem = Nothing /\ cRepaired = 0 /\ verdict = NoVerdict
  /\ quiet = FALSE /\ calm = FALSE /\ covered = {} /\ lostPacks = {}
  /\ writes = 0 /\ damages = 0 /\ checks = 0

MaintenanceNext == Writer \/ Damage \/ Verify \/ Repair

MaintenanceSpec == MaintenanceInit /\ [][MaintenanceNext]_maintenanceVars

-----------------------------------------------------------------------------
\* Whose step it is.
ByWriter == ~UNCHANGED <<wPc, writes>>
ByDisk == ~UNCHANGED damages

\* A repair never makes a chunk unreadable that was readable, whatever has
\* happened to the repository since it read the indexes without the lock
\* (scrub.rs:210, repository.rs:463).
RepairHarmless ==
  [][~ByWriter /\ ~ByDisk =>
       \A c \in DOMAIN chunkIndex : Readable(c) => Readable(c)']_maintenanceVars

\* A bad chunk comes back if the scan found no more of the chunks of its first
\* parity group lost than the group has parity, if what is left of the group can
\* be inverted, and nothing disturbed the repair, whichever groups it came to first.
RepairComplete ==
  cPc = "reported" /\ quiet =>
    \A c \in cBad : \A g \in FirstGroup(cGroups, c) :
      LET chunks == GroupChunks(cGroups[g])
          lost == {i \in DOMAIN chunks : chunks[i] \in cBad \/ chunks[i] \notin DOMAIN cIndex}
      IN  /\ Cardinality(lost) <= GroupParity
          /\ \A S \in Singular : ~(DOMAIN chunks \ lost \subseteq S)
          => Readable(c)

\* The report never counts more repaired chunks than bad ones, which cmd_repair
\* subtracts (main.rs:1874), unless a group has a bad chunk twice.
RepairedCounted ==
  cPc = "reported" =>
    \/ cRepaired <= Cardinality(cBad)
    \/ \E g \in DOMAIN cGroups : \E i, j \in DOMAIN GroupChunks(cGroups[g]) :
         i # j /\ GroupChunks(cGroups[g])[i] = GroupChunks(cGroups[g])[j]
               /\ GroupChunks(cGroups[g])[i] \in cBad

AllIndexedRestorable == \A s \in DOMAIN snapshots : Indexed(s) => Restorable(s)

\* A verification that finds nothing means that every snapshot whose chunks the
\* index knows can be restored (checker.rs:348).  The quick one says so only
\* while no pack has taken the id of a lost one, a sample only when no pack was
\* lost; that of one snapshot does not depend on what the index knows.
VerdictSound ==
  verdict.ok /\ quiet =>
    CASE verdict.level = "snapshot" -> Restorable(verdict.of)
      [] verdict.level = "full" -> AllIndexedRestorable
      [] verdict.level = "quick" -> lostPacks \cap DOMAIN packFiles = {} => AllIndexedRestorable
      [] verdict.level = "sample" -> lostPacks = {} => AllIndexedRestorable

\* A verification nothing disturbed finds something only if the disk has lost
\* data, or a snapshot's chunks never reached the index: no crash and no repair
\* leaves anything behind that looks like damage.
AlarmJustified ==
  verdict.level # "none" /\ ~verdict.ok /\ quiet =>
    damages > 0 \/ (verdict.level = "snapshot" /\ ~Indexed(verdict.of))

\* While the disk loses nothing, a command that writes never takes a snapshot
\* that can be restored away from its user, even on a disk that lost data before.
WritersHarmless ==
  [][ByWriter /\ calm' =>
       \A s \in DOMAIN snapshots \cap DOMAIN snapshots' : Restorable(s) => Restorable(s)'
    ]_maintenanceVars

\* A chunk that was put into a parity group is repaired when it is the only one
\* that was damaged (README: "Reed-Solomon parity automatically repairs the
\* damaged chunks").
ProtectedRepaired ==
  cPc = "reported" /\ quiet =>
    \A c \in cBad : cBad = {c} /\ c \in covered => Readable(c)

================================================================================
