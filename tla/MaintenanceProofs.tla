---------------------------- MODULE MaintenanceProofs ----------------------------
(***************************************************************************)
(* For any chunks, group sizes, inputs and numbers of commands, and on a   *)
(* disk that loses data at any time: no writer and no repair takes a       *)
(* readable chunk away; what a verification says of the store is so; an    *)
(* undisturbed repair gives back what its parity groups can, and its count *)
(* of repaired chunks adds up.                                             *)
(***************************************************************************)
EXTENDS Maintenance, FiniteSetTheorems, TLAPS

\* Between two states: every pack stays as it is, and no copy rots.
PacksStay ==
  /\ \A k \in DOMAIN packFiles : k \in DOMAIN packFiles' /\ packFiles'[k] = packFiles[k]
  /\ rotten' = rotten

\* Packs are numbered, snapshots are numbered by the command that saves them,
\* and only a pack on disk has rotten copies.
StoreOK ==
  /\ DOMAIN packFiles \subseteq Nat
  /\ \A kc \in rotten : kc[1] \in DOMAIN packFiles
  /\ writes \in Nat /\ DOMAIN snapshots \subseteq 0..writes

\* The lock is the writer's, or the repair's from the moment it opens the
\* repository, and then the handle has the index as it is on disk.
LockOK ==
  /\ wPc # "idle" => repoLock = "writer"
  /\ cPc = "group" => repoLock = "repair" /\ cMem = chunkIndex

\* What a backup has in memory is the index with its new chunks added; its
\* snapshot, until it is saved, has a number of its own.
BackupOK ==
  /\ wPc # "idle" => DOMAIN wJob = {"new", "groups", "mem", "chunks", "system"}
  /\ wPc \in {"parity", "flush"} \/ (wPc = "snapshot" /\ wJob.system) =>
       wJob.mem = chunkIndex /\ wJob.new \cap DOMAIN chunkIndex = {}
  /\ wPc = "index" =>
       \A c \in DOMAIN chunkIndex : c \in DOMAIN wJob.mem /\ wJob.mem[c] = chunkIndex[c]
  /\ wPc = "snapshot" \/ (wPc \in {"parity", "flush", "index"} /\ ~wJob.system) =>
       writes \notin DOMAIN snapshots

\* While the disk loses nothing, a compaction's index finds every chunk of a
\* snapshot that the saved one finds, and needs no old pack for it.
CompactOK ==
  /\ wPc = "compact_index" /\ calm =>
       \A c \in LiveChunks :
         /\ Readable(c) => ReadableIn(wJob.mem, c)
         /\ ReadableIn(wJob.mem, c) => wJob.mem[c] \notin wJob.chunks
  /\ wPc = "compact_delete" /\ calm =>
       \A c \in LiveChunks : Readable(c) => chunkIndex[c] \notin wJob.chunks

\* The inductive invariant.
MaintenanceInv == StoreOK /\ LockOK /\ BackupOK /\ CompactOK

-----------------------------------------------------------------------------

\* A new pack has a number no pack had.
LEMMA NextPackIdNew ==
  ASSUME StoreOK, NEW id \in NextPackIds
  PROVE  id \in Nat /\ id \notin DOMAIN packFiles
<1>1. PICK m \in {0} \cup DOMAIN packFiles : id = m + 1 /\ \A k \in DOMAIN packFiles : k <= m
  BY DEF NextPackIds
<1> QED
  BY <1>1 DEF StoreOK

\* Writing it leaves the other packs as they are.
LEMMA WithPackStays ==
  ASSUME StoreOK, NEW id \in NextPackIds, NEW S, packFiles' = WithPack(id, S), rotten' = rotten
  PROVE  /\ PacksStay /\ DOMAIN packFiles' \subseteq Nat
         /\ \A kc \in rotten' : kc[1] \in DOMAIN packFiles'
         /\ id \in DOMAIN packFiles' /\ packFiles'[id] = S
         /\ \A c : <<id, c>> \notin rotten
<1>1. id \in Nat /\ id \notin DOMAIN packFiles
  BY NextPackIdNew
<1>2. DOMAIN packFiles' = DOMAIN packFiles \cup {id} /\ packFiles'[id] = S
      /\ \A k \in DOMAIN packFiles : packFiles'[k] = packFiles[k]
  BY <1>1 DEF WithPack
<1>3. ASSUME NEW c, <<id, c>> \in rotten PROVE FALSE
  <2>1. <<id, c>>[1] \in DOMAIN packFiles
    BY <1>3 DEF StoreOK
  <2> QED
    BY <1>1, <2>1
<1> QED
  BY <1>1, <1>2, <1>3 DEF PacksStay, StoreOK

\* What an index finds it still finds.
LEMMA ReadableStays ==
  ASSUME PacksStay, NEW idx, NEW c, ReadableIn(idx, c)
  PROVE  ReadableIn(idx, c)'
  BY DEF PacksStay, ReadableIn

LEMMA InitMaintenanceInv == MaintenanceInit => MaintenanceInv
  BY DEF MaintenanceInit, MaintenanceInv, StoreOK, LockOK, BackupOK, CompactOK, Nothing

-----------------------------------------------------------------------------
\* The writers' steps keep the invariant,

LEMMA BackupWalkInv ==
  ASSUME MaintenanceInv, BackupWalk
  PROVE  MaintenanceInv'
<1> USE DEF MaintenanceInv, BackupWalk, WriterStarts, WriterSteps, storeVars, checkVars
<1>1. StoreOK'
  BY DEF StoreOK
<1>2. LockOK'
  BY DEF LockOK
<1>3. wPc' \in {"parity", "snapshot"} /\ DOMAIN wJob' = {"new", "groups", "mem", "chunks", "system"}
      /\ wJob'.mem = chunkIndex /\ wJob'.new \cap DOMAIN chunkIndex = {}
  OBVIOUS
<1>4. writes' \notin DOMAIN snapshots'
  BY DEF StoreOK
<1>5. BackupOK' /\ CompactOK'
  BY <1>3, <1>4 DEF BackupOK, CompactOK
<1> QED
  BY <1>1, <1>2, <1>5

LEMMA BackupStepInv ==
  ASSUME MaintenanceInv, SaveParityIndex \/ SaveChunkIndex \/ SaveSnapshotFile
  PROVE  MaintenanceInv'
<1> USE DEF MaintenanceInv, WriterContinues, WriterSteps, EndWriter, checkVars
<1>1. CASE SaveParityIndex
  BY <1>1 DEF SaveParityIndex, StoreOK, LockOK, BackupOK, CompactOK
<1>2. CASE SaveChunkIndex
  BY <1>2 DEF SaveChunkIndex, StoreOK, LockOK, BackupOK, CompactOK
<1>3. CASE SaveSnapshotFile
  BY <1>3 DEF SaveSnapshotFile, StoreOK, LockOK, BackupOK, CompactOK
<1> QED
  BY <1>1, <1>2, <1>3

LEMMA FlushNewInv ==
  ASSUME MaintenanceInv, FlushNew
  PROVE  MaintenanceInv'
<1> USE DEF MaintenanceInv, FlushNew, WriterContinues, WriterSteps, checkVars
<1>1. PICK id \in NextPackIds :
        IF wJob.new = {}
        THEN UNCHANGED <<packFiles, wJob>>
        ELSE /\ packFiles' = WithPack(id, wJob.new)
             /\ wJob' = [wJob EXCEPT !.mem = [c \in DOMAIN @ \cup wJob.new |->
                                                IF c \in wJob.new THEN id ELSE @[c]]]
  OBVIOUS
<1>2. wJob.mem = chunkIndex /\ wJob.new \cap DOMAIN chunkIndex = {}
      /\ DOMAIN wJob = {"new", "groups", "mem", "chunks", "system"}
  BY DEF BackupOK
<1>3. StoreOK'
  BY <1>1, WithPackStays DEF StoreOK
<1>4. LockOK' /\ CompactOK'
  BY DEF LockOK, CompactOK
<1>5. BackupOK'
  BY <1>1, <1>2 DEF BackupOK
<1> QED
  BY <1>3, <1>4, <1>5

LEMMA PruneSnapshotInv ==
  ASSUME MaintenanceInv, PruneSnapshot
  PROVE  MaintenanceInv'
<1> USE DEF MaintenanceInv, PruneSnapshot, WriterStarts, WriterSteps, checkVars
<1>1. StoreOK'
  BY DEF StoreOK, WithoutKeys
<1>2. LockOK' /\ BackupOK' /\ CompactOK'
  BY DEF LockOK, BackupOK, CompactOK
<1> QED
  BY <1>1, <1>2

LEMMA CompactCopyInv ==
  ASSUME MaintenanceInv, CompactCopy
  PROVE  MaintenanceInv'
<1> USE DEF MaintenanceInv, CompactCopy, WriterStarts, WriterSteps, checkVars
<1> DEFINE copied == {kc[2] : kc \in LiveCopies}
<1>1. PICK id \in NextPackIds :
        /\ packFiles' = IF copied = {} THEN packFiles ELSE WithPack(id, copied)
        /\ wJob' = CompactionTo(id, copied)
  OBVIOUS
<1>2. DOMAIN wJob' = {"new", "groups", "mem", "chunks", "system"}
      /\ wJob'.chunks = DOMAIN packFiles
      /\ wJob'.mem = [c \in DOMAIN chunkIndex \cap LiveChunks |->
                        IF c \in copied THEN id ELSE chunkIndex[c]]
  BY <1>1 DEF CompactionTo, NoJob
<1> HIDE DEF copied
<1>3. /\ PacksStay /\ DOMAIN packFiles' \subseteq Nat
      /\ \A kc \in rotten' : kc[1] \in DOMAIN packFiles'
      /\ copied # {} => /\ id \in DOMAIN packFiles' /\ packFiles'[id] = copied
                        /\ \A c : <<id, c>> \notin rotten'
  <2>1. rotten' = rotten
    OBVIOUS
  <2>2. CASE copied = {}
    BY <1>1, <2>1, <2>2 DEF PacksStay, StoreOK
  <2>3. CASE copied # {}
    <3>1. packFiles' = WithPack(id, copied)
      BY <1>1, <2>3
    <3> QED
      BY <2>1, <3>1, WithPackStays
  <2> QED
    BY <2>2, <2>3
<1>4. StoreOK' /\ LockOK' /\ BackupOK'
  <2>0. writes' \in Nat /\ DOMAIN snapshots' \subseteq 0..writes'
    BY DEF StoreOK
  <2>1. StoreOK'
    BY <1>3, <2>0, Zenon DEF StoreOK
  <2>2. LockOK' /\ BackupOK'
    BY <1>2 DEF LockOK, BackupOK
  <2> QED
    BY <2>1, <2>2
<1>5. ASSUME NEW c \in LiveChunks, c \in DOMAIN chunkIndex,
             chunkIndex[c] \in DOMAIN packFiles, c \in packFiles[chunkIndex[c]]
      PROVE  c \in copied
  <2>1. <<chunkIndex[c], c>> \in LiveCopies
    BY <1>5 DEF LiveCopies
  <2> QED
    BY <2>1 DEF copied
<1>6. ASSUME NEW c \in copied, c \in DOMAIN chunkIndex, c \in LiveChunks
      PROVE  ReadableIn(wJob.mem, c)' /\ wJob'.mem[c] \notin wJob'.chunks
  <2>1. c \in DOMAIN wJob'.mem /\ wJob'.mem[c] = id
    BY <1>2, <1>6
  <2>2. id \notin DOMAIN packFiles
    BY NextPackIdNew
  <2> QED
    BY <1>2, <1>3, <2>1, <2>2 DEF ReadableIn
<1>7. ASSUME NEW c \in LiveChunks, ReadableIn(wJob.mem, c)'
      PROVE  wJob'.mem[c] \notin wJob'.chunks
  <2>1. c \in DOMAIN chunkIndex /\ (c \notin copied => wJob'.mem[c] = chunkIndex[c])
    BY <1>2, <1>7 DEF ReadableIn
  <2>2. CASE c \in copied
    BY <1>6, <2>1, <2>2
  <2>3. CASE c \notin copied /\ wJob'.mem[c] \in DOMAIN packFiles
    <3>1. packFiles'[chunkIndex[c]] = packFiles[chunkIndex[c]]
      BY <1>3, <2>1, <2>3 DEF PacksStay
    <3>2. c \in packFiles[chunkIndex[c]]
      BY <1>7, <2>1, <2>3, <3>1 DEF ReadableIn
    <3> QED
      BY <1>5, <2>1, <2>3, <3>2
  <2> QED
    BY <1>2, <2>2, <2>3
<1>8. ASSUME NEW c \in LiveChunks, Readable(c)' PROVE ReadableIn(wJob.mem, c)'
  <2>1. c \in DOMAIN chunkIndex
    BY <1>8 DEF Readable, ReadableIn
  <2>2. CASE c \in copied
    BY <1>6, <2>1, <2>2
  <2>3. CASE c \notin copied
    BY <1>2, <1>8, <2>1, <2>3 DEF Readable, ReadableIn
  <2> QED
    BY <2>2, <2>3
<1>9. CompactOK'
  BY <1>7, <1>8 DEF CompactOK, LiveChunks
<1> QED
  BY <1>4, <1>9

\* and so do a compaction's,
LEMMA CompactSaveIndexInv ==
  ASSUME MaintenanceInv, CompactSaveIndex
  PROVE  MaintenanceInv'
<1> USE DEF MaintenanceInv, CompactSaveIndex, WriterContinues, WriterSteps, checkVars
<1>1. StoreOK' /\ LockOK' /\ BackupOK'
  BY DEF StoreOK, LockOK, BackupOK
<1>2. CompactOK'
  BY DEF CompactOK, LiveChunks, Readable, ReadableIn
<1> QED
  BY <1>1, <1>2

LEMMA CompactDeleteOldInv ==
  ASSUME MaintenanceInv, CompactDeleteOld
  PROVE  MaintenanceInv'
<1> USE DEF MaintenanceInv, CompactDeleteOld, EndWriter, WriterContinues, WriterSteps, checkVars
<1>1. StoreOK'
  BY DEF StoreOK, WithoutKeys
<1>2. LockOK' /\ BackupOK' /\ CompactOK'
  BY DEF LockOK, BackupOK, CompactOK
<1> QED
  BY <1>1, <1>2

LEMMA WriterCrashInv ==
  ASSUME MaintenanceInv, WriterCrash
  PROVE  MaintenanceInv'
  BY DEF MaintenanceInv, WriterCrash, EndWriter, WriterContinues, WriterSteps, storeVars,
     checkVars, StoreOK, LockOK, BackupOK, CompactOK

\* the disk's,
LEMMA DamageInv ==
  ASSUME MaintenanceInv, Damage
  PROVE  MaintenanceInv'
<1> USE DEF MaintenanceInv, Damage, writerVars, checkVars
<1>1. StoreOK'
  <2>1. CASE RotCopy
    BY <2>1 DEF RotCopy, StoreOK
  <2>2. CASE LosePack
    BY <2>2 DEF LosePack, StoreOK, WithoutKeys
  <2> QED
    BY <2>1, <2>2
<1>2. LockOK' /\ BackupOK' /\ CompactOK'
  BY DEF LockOK, BackupOK, CompactOK
<1> QED
  BY <1>1, <1>2

\* those of verify, which change nothing on disk,
LEMMA VerifyInv ==
  ASSUME MaintenanceInv, Verify \/ RepairStart
  PROVE  MaintenanceInv'
<1>1. /\ UNCHANGED <<storeVars, repoLock, writerVars, writes, calm>>
      /\ cPc' # "group"
  BY DEF Verify, VerifyStart, RepairStart, LoadIndexes, VerifyQuick, VerifyFull, VerifySample,
     VerifyOneSnapshot, VerifyEnd, historyVars, countVars
<1> QED
  BY <1>1 DEF storeVars, writerVars, MaintenanceInv, StoreOK, LockOK, BackupOK, CompactOK,
     LiveChunks, Readable, ReadableIn

\* and those of repair, which has the lock when it writes.
LEMMA ReadingRepairInv ==
  ASSUME MaintenanceInv,
         ScanChunk \/ NothingBad \/ OpenForRepair \/ ReconstructGroup \/ CheckEnds
  PROVE  MaintenanceInv'
<1>1. UNCHANGED <<storeVars, writerVars, writes, calm>>
  BY DEF ScanChunk, NothingBad, OpenForRepair, ReconstructGroup, CheckEnds, historyVars, countVars
<1>2. StoreOK' /\ BackupOK' /\ CompactOK'
  BY <1>1 DEF storeVars, writerVars, MaintenanceInv, StoreOK, BackupOK, CompactOK,
     LiveChunks, Readable, ReadableIn
<1>3. LockOK'
  BY DEF ScanChunk, NothingBad, RepairEnds, OpenForRepair, HandleIndex, ReconstructGroup, CheckEnds,
     storeVars, writerVars, MaintenanceInv, LockOK
<1> QED
  BY <1>2, <1>3 DEF MaintenanceInv

\* What a write of a repaired chunk does to the store.
LEMMA WriteRepairedStore ==
  ASSUME MaintenanceInv, WriteRepaired
  PROVE  /\ PacksStay /\ DOMAIN packFiles' \subseteq Nat
         /\ \A kc \in rotten' : kc[1] \in DOMAIN packFiles'
         /\ cMem' = chunkIndex'
         /\ \A c \in DOMAIN chunkIndex : Readable(c) => Readable(c)'
<1>1. PICK w \in cWrites, id \in NextPackIds :
        /\ packFiles' = WithPack(id, {ChunkAt(w)})
        /\ cMem' = IF ChunkAt(w) \in DOMAIN cMem THEN [cMem EXCEPT ![ChunkAt(w)] = id] ELSE cMem
  BY DEF WriteRepaired
<1>2. cMem = chunkIndex /\ chunkIndex' = cMem' /\ rotten' = rotten
  BY DEF WriteRepaired, MaintenanceInv, LockOK
<1>3. /\ PacksStay /\ DOMAIN packFiles' \subseteq Nat
      /\ \A kc \in rotten' : kc[1] \in DOMAIN packFiles'
      /\ id \in DOMAIN packFiles' /\ packFiles'[id] = {ChunkAt(w)}
      /\ \A c : <<id, c>> \notin rotten
  BY <1>1, <1>2, WithPackStays DEF MaintenanceInv
<1>4. ASSUME NEW c \in DOMAIN chunkIndex, Readable(c) PROVE Readable(c)'
  <2>1. CASE c = ChunkAt(w)
    BY <1>1, <1>2, <1>3, <2>1 DEF Readable, ReadableIn
  <2>2. CASE c # ChunkAt(w)
    <3>1. c \in DOMAIN chunkIndex' /\ chunkIndex'[c] = chunkIndex[c]
      BY <1>1, <1>2, <2>2
    <3> QED
      BY <1>3, <1>4, <3>1 DEF Readable, ReadableIn, PacksStay
  <2> QED
    BY <2>1, <2>2
<1> QED
  BY <1>2, <1>3, <1>4

LEMMA WritingRepairInv ==
  ASSUME MaintenanceInv, WriteRepaired \/ FinishRepair
  PROVE  MaintenanceInv'
<1>1. wPc = "idle" /\ UNCHANGED <<wPc, writes, snapshots>> /\ cMem = chunkIndex
  BY DEF WriteRepaired, FinishRepair, MaintenanceInv, LockOK, writerVars, historyVars, countVars
<1>2. BackupOK' /\ CompactOK'
  BY <1>1 DEF BackupOK, CompactOK
<1>3. CASE WriteRepaired
  <2>1. StoreOK'
    BY <1>1, <1>3, WriteRepairedStore DEF MaintenanceInv, StoreOK
  <2>2. LockOK'
    BY <1>1, <1>3, WriteRepairedStore DEF WriteRepaired, MaintenanceInv, LockOK
  <2> QED
    BY <1>2, <2>1, <2>2 DEF MaintenanceInv
<1>4. CASE FinishRepair
  BY <1>1, <1>2, <1>4 DEF FinishRepair, RepairEnds, MaintenanceInv, StoreOK, LockOK
<1> QED
  BY <1>3, <1>4

LEMMA NextMaintenanceInv == MaintenanceInv /\ [MaintenanceNext]_maintenanceVars => MaintenanceInv'
<1> SUFFICES ASSUME MaintenanceInv, [MaintenanceNext]_maintenanceVars PROVE MaintenanceInv'
  OBVIOUS
<1>1. CASE UNCHANGED maintenanceVars
  BY <1>1 DEF maintenanceVars, storeVars, writerVars, checkVars, historyVars, countVars,
     MaintenanceInv, StoreOK, LockOK, BackupOK, CompactOK, LiveChunks, Readable, ReadableIn
<1>2. CASE Writer
  BY <1>2, BackupWalkInv, BackupStepInv, FlushNewInv, PruneSnapshotInv, CompactCopyInv,
     CompactSaveIndexInv, CompactDeleteOldInv, WriterCrashInv DEF Writer
<1>3. CASE Damage \/ Verify \/ Repair
  BY <1>3, DamageInv, VerifyInv, ReadingRepairInv, WritingRepairInv DEF Repair
<1> QED
  BY <1>1, <1>2, <1>3 DEF MaintenanceNext

-----------------------------------------------------------------------------

\* The inductive invariant holds in every reachable state.
THEOREM MaintenanceInvariant == MaintenanceSpec => []MaintenanceInv
  BY InitMaintenanceInv, NextMaintenanceInv, PTL DEF MaintenanceSpec

\* Whatever happened to the repository since it read the indexes without the
\* lock, a repair never makes a readable chunk unreadable.
THEOREM RepairAlwaysHarmless == MaintenanceSpec => RepairHarmless
<1>1. ASSUME MaintenanceInv, [MaintenanceNext]_maintenanceVars
      PROVE  [~ByWriter /\ ~ByDisk =>
                \A c \in DOMAIN chunkIndex : Readable(c) => Readable(c)']_maintenanceVars
  <2> SUFFICES ASSUME MaintenanceNext, ~ByWriter, ~ByDisk,
                      NEW c \in DOMAIN chunkIndex, Readable(c)
               PROVE  Readable(c)'
    BY <1>1
  <2>1. CASE Damage
    BY <2>1 DEF Damage, ByDisk
  <2>2. CASE Writer
    BY <2>2, <1>1 DEF Writer, ByWriter, BackupWalk, SaveParityIndex, FlushNew, SaveChunkIndex,
       SaveSnapshotFile, PruneSnapshot, CompactCopy, CompactSaveIndex, CompactDeleteOld, WriterCrash,
       EndWriter, WriterStarts, WriterSteps, MaintenanceInv, StoreOK
  <2>3. CASE Verify \/ (Repair /\ ~WriteRepaired)
    <3>1. UNCHANGED <<packFiles, rotten, chunkIndex>>
      BY <1>1, <2>3 DEF Verify, VerifyStart, RepairStart, LoadIndexes, VerifyQuick, VerifyFull,
         VerifySample, VerifyOneSnapshot, VerifyEnd, Repair, ScanChunk, NothingBad, OpenForRepair,
         ReconstructGroup, FinishRepair, CheckEnds, storeVars, MaintenanceInv, LockOK
    <3> QED
      BY <3>1 DEF Readable, ReadableIn
  <2>4. CASE WriteRepaired
    BY <1>1, <2>4, WriteRepairedStore
  <2> QED
    BY <2>1, <2>2, <2>3, <2>4 DEF MaintenanceNext
<1> QED
  BY <1>1, MaintenanceInvariant, PTL DEF MaintenanceSpec, RepairHarmless

\* While the disk loses nothing, a writer never takes a snapshot that can be
\* restored away from its user: not a backup, not a prune of another one, not a
\* compaction, and none of them when they crash.
THEOREM WritersAlwaysHarmless == MaintenanceSpec => WritersHarmless
<1>1. ASSUME MaintenanceInv, [MaintenanceNext]_maintenanceVars
      PROVE  [ByWriter /\ calm' =>
                \A s \in DOMAIN snapshots \cap DOMAIN snapshots' :
                  Restorable(s) => Restorable(s)']_maintenanceVars
  <2> SUFFICES ASSUME MaintenanceNext, ByWriter, calm',
                      NEW s \in DOMAIN snapshots \cap DOMAIN snapshots', Restorable(s)
               PROVE  Restorable(s)'
    BY <1>1
  <2>1. ~(Damage \/ Verify \/ Repair)
    BY DEF ByWriter, Damage, Verify, VerifyStart, RepairStart, LoadIndexes, VerifyQuick, VerifyFull,
       VerifySample, VerifyOneSnapshot, VerifyEnd, Repair, ScanChunk, NothingBad, OpenForRepair,
       ReconstructGroup, WriteRepaired, FinishRepair, CheckEnds, writerVars, countVars
  <2>2. snapshots[s] \subseteq LiveChunks /\ \A c \in snapshots[s] : Readable(c)
    BY DEF LiveChunks, Restorable
  <2>3. CASE BackupWalk \/ SaveParityIndex \/ WriterCrash
    BY <2>2, <2>3 DEF BackupWalk, SaveParityIndex, WriterCrash, EndWriter, storeVars, Restorable,
       Readable, ReadableIn
  <2>4. CASE FlushNew
    <3>1. PacksStay /\ UNCHANGED <<chunkIndex, snapshots>>
      BY <1>1, <2>4, WithPackStays DEF FlushNew, PacksStay, MaintenanceInv
    <3> QED
      BY <2>2, <3>1 DEF Restorable, Readable, ReadableIn, PacksStay
  <2>5. CASE SaveChunkIndex
    BY <1>1, <2>2, <2>5 DEF SaveChunkIndex, MaintenanceInv, BackupOK, Restorable, Readable, ReadableIn
  <2>6. CASE SaveSnapshotFile
    BY <1>1, <2>2, <2>6 DEF SaveSnapshotFile, MaintenanceInv, BackupOK, Restorable, Readable, ReadableIn
  <2>7. CASE PruneSnapshot
    <3>1. PICK t \in DOMAIN snapshots :
            /\ snapshots' = WithoutKeys(snapshots, {t})
            /\ chunkIndex' = WithoutKeys(chunkIndex,
                 snapshots[t] \ UNION {snapshots[u] : u \in DOMAIN snapshots \ {t}})
      BY <2>7 DEF PruneSnapshot
    <3>2. s # t /\ snapshots'[s] = snapshots[s]
      BY <3>1 DEF WithoutKeys
    <3>3. \A c \in snapshots[s] : c \in DOMAIN chunkIndex =>
            c \in DOMAIN chunkIndex' /\ chunkIndex'[c] = chunkIndex[c]
      BY <3>1, <3>2 DEF WithoutKeys
    <3>4. UNCHANGED <<packFiles, rotten>>
      BY <2>7 DEF PruneSnapshot
    <3> QED
      BY <2>2, <3>2, <3>3, <3>4 DEF Restorable, Readable, ReadableIn
  <2>8. CASE CompactCopy
    <3>1. UNCHANGED <<rotten, chunkIndex, snapshots>>
          /\ \E id \in NextPackIds : \E S : packFiles' = packFiles \/ packFiles' = WithPack(id, S)
      BY <2>8 DEF CompactCopy
    <3>2. PacksStay
      BY <1>1, <3>1, WithPackStays DEF PacksStay, MaintenanceInv
    <3> QED
      BY <2>2, <3>1, <3>2 DEF Restorable, Readable, ReadableIn, PacksStay
  <2>9. CASE CompactSaveIndex
    <3>1. calm /\ UNCHANGED <<packFiles, rotten, snapshots>> /\ chunkIndex' = wJob.mem
          /\ wPc = "compact_index"
      BY <2>9 DEF CompactSaveIndex, WriterContinues
    <3> QED
      BY <1>1, <2>2, <3>1 DEF MaintenanceInv, CompactOK, Restorable, Readable, ReadableIn
  <2>10. CASE CompactDeleteOld
    <3>1. calm /\ UNCHANGED <<chunkIndex, snapshots>> /\ wPc = "compact_delete"
          /\ packFiles' = WithoutKeys(packFiles, wJob.chunks) /\ rotten' \subseteq rotten
      BY <2>10 DEF CompactDeleteOld, WriterContinues
    <3> QED
      BY <1>1, <2>2, <3>1 DEF MaintenanceInv, CompactOK, Restorable, Readable, ReadableIn, WithoutKeys
  <2> QED
    BY <2>1, <2>3, <2>4, <2>5, <2>6, <2>7, <2>8, <2>9, <2>10 DEF MaintenanceNext, Writer
<1> QED
  BY <1>1, MaintenanceInvariant, PTL DEF MaintenanceSpec, WritersHarmless


-----------------------------------------------------------------------------
\* What is on disk is what the indexes say, except what the disk has lost.

\* Every entry of an index finds its chunk in a pack, readable or rotten, or
\* names a pack the disk has lost.
Sound(idx) ==
  \A c \in DOMAIN idx :
    \/ idx[c] \in lostPacks
    \/ idx[c] \in DOMAIN packFiles /\ c \in packFiles[idx[c]]

\* No entry needs a pack of these that is still there.
Leaves(idx, packs) == \A c \in DOMAIN idx : idx[c] \in packs => idx[c] \in lostPacks

SoundInv ==
  /\ damages \in Nat
  /\ damages = 0 => rotten = {} /\ lostPacks = {}
  /\ Sound(chunkIndex)
  /\ wPc = "index" => Sound(wJob.mem)
  /\ wPc = "compact_index" => Sound(wJob.mem) /\ Leaves(wJob.mem, wJob.chunks)
  /\ wPc = "compact_delete" => Leaves(chunkIndex, wJob.chunks)

\* Packs that stay keep an index sound.
LEMMA SoundStays ==
  ASSUME PacksStay, UNCHANGED lostPacks, NEW idx, Sound(idx)
  PROVE  Sound(idx)'
  BY DEF Sound, PacksStay

LEMMA SoundBackup ==
  ASSUME MaintenanceInv, SoundInv,
         BackupWalk \/ SaveParityIndex \/ SaveChunkIndex \/ SaveSnapshotFile \/ WriterCrash
  PROVE  SoundInv'
<1>1. /\ UNCHANGED <<packFiles, rotten, lostPacks, damages>>
      /\ wPc' \in {"idle", "parity", "flush", "index", "snapshot"}
      /\ chunkIndex' = chunkIndex \/ (wPc = "index" /\ chunkIndex' = wJob.mem)
      /\ wPc' # "index"
  BY DEF BackupWalk, SaveParityIndex, SaveChunkIndex, SaveSnapshotFile, WriterCrash, EndWriter,
     WriterSteps, storeVars
<1> QED
  BY <1>1 DEF SoundInv, Sound

LEMMA SoundFlush ==
  ASSUME MaintenanceInv, SoundInv, FlushNew
  PROVE  SoundInv'
<1>1. PICK id \in NextPackIds :
        IF wJob.new = {}
        THEN UNCHANGED <<packFiles, wJob>>
        ELSE /\ packFiles' = WithPack(id, wJob.new)
             /\ wJob' = [wJob EXCEPT !.mem = [c \in DOMAIN @ \cup wJob.new |->
                                                IF c \in wJob.new THEN id ELSE @[c]]]
  BY DEF FlushNew
<1>2. /\ wJob.mem = chunkIndex
      /\ DOMAIN wJob = {"new", "groups", "mem", "chunks", "system"}
      /\ UNCHANGED <<rotten, chunkIndex, lostPacks, damages>> /\ wPc' = "index"
  BY DEF FlushNew, WriterSteps, MaintenanceInv, BackupOK
<1>3. PacksStay
  BY <1>1, <1>2, WithPackStays DEF MaintenanceInv, PacksStay
<1>4. Sound(chunkIndex)'
  BY <1>2, <1>3, SoundStays DEF SoundInv
<1>5. CASE wJob.new = {}
  BY <1>1, <1>2, <1>4, <1>5 DEF SoundInv
<1>6. CASE wJob.new # {}
  <2>1. id \in DOMAIN packFiles' /\ packFiles'[id] = wJob.new
    BY <1>1, <1>2, <1>6, WithPackStays DEF MaintenanceInv
  <2>2. wJob'.mem = [c \in DOMAIN chunkIndex \cup wJob.new |->
                       IF c \in wJob.new THEN id ELSE chunkIndex[c]]
    BY <1>1, <1>2, <1>6
  <2>3. Sound(wJob.mem)'
    BY <1>2, <1>4, <2>1, <2>2 DEF Sound
  <2> QED
    BY <1>2, <1>4, <2>3 DEF SoundInv
<1> QED
  BY <1>5, <1>6

LEMMA SoundPrune ==
  ASSUME MaintenanceInv, SoundInv, PruneSnapshot
  PROVE  SoundInv'
<1>1. /\ UNCHANGED <<packFiles, rotten, lostPacks, damages>> /\ wPc' = "idle"
      /\ \E S : chunkIndex' = WithoutKeys(chunkIndex, S)
  BY DEF PruneSnapshot, WriterSteps
<1> QED
  BY <1>1 DEF SoundInv, Sound, WithoutKeys

\* A copy that is not there to be copied is one the disk has lost.
LEMMA SoundCompactCopy ==
  ASSUME MaintenanceInv, SoundInv, CompactCopy
  PROVE  SoundInv'
<1> DEFINE copied == {kc[2] : kc \in LiveCopies}
<1>1. PICK id \in NextPackIds :
        /\ packFiles' = IF copied = {} THEN packFiles ELSE WithPack(id, copied)
        /\ wJob' = CompactionTo(id, copied)
  BY DEF CompactCopy
<1>2. /\ wJob'.chunks = DOMAIN packFiles
      /\ wJob'.mem = [c \in DOMAIN chunkIndex \cap LiveChunks |->
                        IF c \in copied THEN id ELSE chunkIndex[c]]
  BY <1>1 DEF CompactionTo, NoJob
<1>3. UNCHANGED <<rotten, chunkIndex, lostPacks, damages>> /\ wPc' = "compact_index"
  BY DEF CompactCopy, WriterSteps
<1>4. ASSUME NEW c \in DOMAIN chunkIndex, c \in LiveChunks, c \notin copied
      PROVE  chunkIndex[c] \in lostPacks
  <2>1. CASE chunkIndex[c] \in DOMAIN packFiles /\ c \in packFiles[chunkIndex[c]]
    <3>1. <<chunkIndex[c], c>> \in LiveCopies
      BY <1>4, <2>1 DEF LiveCopies
    <3> QED
      BY <1>4, <3>1
  <2> QED
    BY <1>4, <2>1 DEF SoundInv, Sound
<1> HIDE DEF copied
<1>5. PacksStay /\ (copied # {} => id \in DOMAIN packFiles' /\ packFiles'[id] = copied)
  <2>1. CASE copied = {}
    BY <1>1, <1>3, <2>1 DEF PacksStay
  <2>2. CASE copied # {}
    <3>1. packFiles' = WithPack(id, copied)
      BY <1>1, <2>2
    <3> QED
      BY <1>3, <3>1, WithPackStays DEF MaintenanceInv
  <2> QED
    BY <2>1, <2>2
<1>6. id \notin DOMAIN packFiles
  BY NextPackIdNew DEF MaintenanceInv
<1>7. Sound(chunkIndex)'
  BY <1>3, <1>5, SoundStays DEF SoundInv
<1>8. Sound(wJob.mem)' /\ Leaves(wJob.mem, wJob.chunks)'
  BY <1>2, <1>3, <1>4, <1>5, <1>6 DEF Sound, Leaves
<1> QED
  BY <1>3, <1>7, <1>8 DEF SoundInv

LEMMA SoundCompactEnd ==
  ASSUME MaintenanceInv, SoundInv, CompactSaveIndex \/ CompactDeleteOld
  PROVE  SoundInv'
<1>1. CASE CompactSaveIndex
  BY <1>1 DEF CompactSaveIndex, WriterSteps, SoundInv, Sound, Leaves
<1>2. CASE CompactDeleteOld
  BY <1>2 DEF CompactDeleteOld, EndWriter, WriterSteps, SoundInv, Sound, Leaves, WithoutKeys
<1> QED
  BY <1>1, <1>2

LEMMA SoundDamage ==
  ASSUME MaintenanceInv, SoundInv, Damage
  PROVE  SoundInv'
<1>1. /\ UNCHANGED <<chunkIndex, wPc, wJob>> /\ damages' \in Nat \ {0}
      /\ lostPacks \subseteq lostPacks'
  <2>1. UNCHANGED <<chunkIndex, wPc, wJob>> /\ damages' = damages + 1 /\ (RotCopy \/ LosePack)
    BY DEF Damage, writerVars
  <2>2. lostPacks \subseteq lostPacks'
    BY <2>1 DEF RotCopy, LosePack
  <2> QED
    BY <2>1, <2>2 DEF SoundInv
<1>2. ASSUME NEW idx, Sound(idx) PROVE Sound(idx)'
  <2>1. CASE RotCopy
    BY <1>2, <2>1 DEF RotCopy, Sound
  <2>2. CASE LosePack
    BY <1>2, <2>2 DEF LosePack, Sound, WithoutKeys
  <2> QED
    BY <2>1, <2>2 DEF Damage
<1>3. ASSUME NEW idx, NEW packs, Leaves(idx, packs) PROVE Leaves(idx, packs)'
  BY <1>1, <1>3 DEF Leaves
<1>4. Sound(chunkIndex)' /\ (wPc' = "index" => Sound(wJob.mem)')
  BY <1>1, <1>2 DEF SoundInv
<1>5. /\ wPc' = "compact_index" => Sound(wJob.mem)' /\ Leaves(wJob.mem, wJob.chunks)'
      /\ wPc' = "compact_delete" => Leaves(chunkIndex, wJob.chunks)'
  BY <1>1, <1>2, <1>3 DEF SoundInv
<1> QED
  BY <1>1, <1>4, <1>5 DEF SoundInv

LEMMA SoundWriteRepaired ==
  ASSUME MaintenanceInv, SoundInv, WriteRepaired
  PROVE  SoundInv'
<1>1. PICK w \in cWrites, id \in NextPackIds :
        /\ packFiles' = WithPack(id, {ChunkAt(w)})
        /\ cMem' = IF ChunkAt(w) \in DOMAIN cMem THEN [cMem EXCEPT ![ChunkAt(w)] = id] ELSE cMem
  BY DEF WriteRepaired
<1>2. /\ cMem = chunkIndex /\ chunkIndex' = cMem' /\ wPc = "idle"
      /\ UNCHANGED <<rotten, lostPacks, damages, wPc>>
  BY DEF WriteRepaired, MaintenanceInv, LockOK, writerVars, historyVars, countVars
<1>3. PacksStay /\ id \in DOMAIN packFiles' /\ packFiles'[id] = {ChunkAt(w)}
  BY <1>1, <1>2, WithPackStays DEF MaintenanceInv
<1>4. Sound(chunkIndex)'
  BY <1>1, <1>2, <1>3 DEF SoundInv, Sound, PacksStay
<1> QED
  BY <1>2, <1>4 DEF SoundInv

LEMMA NextSound ==
  ASSUME MaintenanceInv, SoundInv, [MaintenanceNext]_maintenanceVars
  PROVE  SoundInv'
<1>1. CASE Verify \/ (Repair /\ ~WriteRepaired) \/ UNCHANGED maintenanceVars
  <2>1. UNCHANGED <<packFiles, rotten, chunkIndex, wPc, wJob, lostPacks, damages>>
    BY <1>1 DEF maintenanceVars, Verify, VerifyStart, RepairStart, LoadIndexes, VerifyQuick,
       VerifyFull, VerifySample, VerifyOneSnapshot, VerifyEnd, Repair, ScanChunk, NothingBad,
       OpenForRepair, ReconstructGroup, FinishRepair, CheckEnds, storeVars, writerVars,
       historyVars, countVars, MaintenanceInv, LockOK
  <2> QED
    BY <2>1 DEF SoundInv, Sound, Leaves
<1>2. CASE Writer
  BY <1>2, SoundBackup, SoundFlush, SoundPrune, SoundCompactCopy, SoundCompactEnd DEF Writer
<1> QED
  BY <1>1, <1>2, SoundDamage, SoundWriteRepaired DEF MaintenanceNext

-----------------------------------------------------------------------------
\* A verification says what is so.

\* A check that has written nothing and that nothing has disturbed has the
\* index as it is on disk, and a verdict is no older than that.
VerdictInv ==
  /\ verdict.level \in {"none", "quick", "full", "sample", "snapshot"}
  /\ verdict.level # "none" => cPc = "idle"
  /\ verdict.level = "none" => ~verdict.ok
  /\ cPc \in {"verify", "scan"} /\ quiet => cIndex = chunkIndex
  /\ VerdictSound /\ AlarmJustified

LEMMA VerdictGiven ==
  ASSUME MaintenanceInv, SoundInv, VerdictInv,
         VerifyQuick \/ VerifyFull \/ VerifySample \/ VerifyOneSnapshot
  PROVE  VerdictInv'
<1>1. /\ UNCHANGED <<packFiles, rotten, chunkIndex, snapshots, quiet, lostPacks, damages>>
      /\ cPc' = "idle" /\ (quiet => cIndex = chunkIndex)
      /\ verdict'.level \in {"quick", "full", "sample", "snapshot"}
  BY DEF VerifyQuick, VerifyFull, VerifySample, VerifyOneSnapshot, VerifyEnd, storeVars,
     historyVars, countVars, VerdictInv
<1> SUFFICES ASSUME quiet PROVE (VerdictSound /\ AlarmJustified)'
  BY <1>1 DEF VerdictInv, VerdictSound, AlarmJustified
<1>2. (\A s : Restorable(s)' <=> Restorable(s)) /\ (\A s : Indexed(s)' <=> Indexed(s))
  BY <1>1 DEF Restorable, Readable, ReadableIn, Indexed
<1>3. AllIndexedRestorable' <=> AllIndexedRestorable
  BY <1>1, <1>2 DEF AllIndexedRestorable
\* A pack that is intact and holds the chunk gives it back.
<1>4. ASSUME PacksVerified, NEW c \in DOMAIN chunkIndex,
             chunkIndex[c] \in DOMAIN packFiles, chunkIndex[c] \notin lostPacks
      PROVE  Readable(c)
  BY <1>4 DEF PacksVerified, PackIntact, SoundInv, Sound, Readable, ReadableIn
<1>5. (\A c \in DOMAIN chunkIndex : Readable(c)) => AllIndexedRestorable
  BY DEF AllIndexedRestorable, Restorable, Indexed
<1>6. damages = 0 => PacksVerified /\ \A c \in DOMAIN chunkIndex : Readable(c)
  BY DEF SoundInv, Sound, PacksVerified, PackIntact, Readable, ReadableIn
<1>7. damages # 0 => damages > 0
  BY DEF SoundInv
<1>8. CASE VerifyQuick
  <2>1. verdict' = [ok |-> PacksVerified /\ QuickClean, level |-> "quick", of |-> 0]
    BY <1>8 DEF VerifyQuick, VerifyEnd
  <2>2. PacksVerified /\ QuickClean /\ lostPacks \cap DOMAIN packFiles = {} => AllIndexedRestorable
    BY <1>1, <1>4, <1>5 DEF QuickClean
  <2>3. damages = 0 => PacksVerified /\ QuickClean
    BY <1>1, <1>6 DEF QuickClean, Readable, ReadableIn
  <2> QED
    BY <1>1, <1>3, <1>7, <2>1, <2>2, <2>3 DEF VerdictSound, AlarmJustified
<1>9. CASE VerifyFull
  <2>1. verdict' = [ok |-> PacksVerified /\ SampleClean(DOMAIN cIndex), level |-> "full", of |-> 0]
    BY <1>9 DEF VerifyFull, VerifyEnd
  <2>2. SampleClean(DOMAIN cIndex) => AllIndexedRestorable
    BY <1>1, <1>5 DEF SampleClean, Readable
  <2>3. damages = 0 => PacksVerified /\ SampleClean(DOMAIN cIndex)
    BY <1>1, <1>6 DEF SampleClean, Readable
  <2> QED
    BY <1>1, <1>3, <1>7, <2>1, <2>2, <2>3 DEF VerdictSound, AlarmJustified
<1>10. CASE VerifySample
  <2>1. PICK sample \in SUBSET DOMAIN cIndex :
          verdict' = [ok |-> PacksVerified /\ SampleClean(sample), level |-> "sample", of |-> 0]
    BY <1>10 DEF VerifySample, VerifyEnd
  <2>2. PacksVerified /\ lostPacks = {} => AllIndexedRestorable
    <3> SUFFICES ASSUME PacksVerified, lostPacks = {}, NEW c \in DOMAIN chunkIndex PROVE Readable(c)
      BY <1>5
    <3>1. chunkIndex[c] \in DOMAIN packFiles
      BY DEF SoundInv, Sound
    <3> QED
      BY <1>4, <3>1
  <2>3. damages = 0 => PacksVerified /\ SampleClean(sample)
    BY <1>1, <1>6 DEF SampleClean, Readable
  <2> QED
    BY <1>1, <1>3, <1>7, <2>1, <2>2, <2>3 DEF VerdictSound, AlarmJustified
<1>11. CASE VerifyOneSnapshot
  <2>1. PICK s \in DOMAIN snapshots :
          verdict' = [ok |-> SnapshotClean(s), level |-> "snapshot", of |-> s]
    BY <1>11 DEF VerifyOneSnapshot, VerifyEnd
  <2>2. SnapshotClean(s) => Restorable(s)
    BY <1>1 DEF SnapshotClean, Restorable, Readable
  <2>3. damages = 0 /\ Indexed(s) => SnapshotClean(s)
    BY <1>1, <1>6 DEF SnapshotClean, Indexed, Readable
  <2> QED
    BY <1>1, <1>2, <1>7, <2>1, <2>2, <2>3 DEF VerdictSound, AlarmJustified
<1> QED
  BY <1>8, <1>9, <1>10, <1>11

LEMMA NextVerdict ==
  ASSUME MaintenanceInv, SoundInv, VerdictInv, [MaintenanceNext]_maintenanceVars
  PROVE  VerdictInv'
<1>1. CASE Writer \/ Damage
  <2>1. UNCHANGED <<verdict, cPc>> /\ quiet' = FALSE
    BY <1>1 DEF Writer, Damage, BackupWalk, SaveParityIndex, FlushNew, SaveChunkIndex,
       SaveSnapshotFile, PruneSnapshot, CompactCopy, CompactSaveIndex, CompactDeleteOld,
       WriterCrash, EndWriter, WriterSteps, checkVars
  <2> QED
    BY <2>1 DEF VerdictInv, VerdictSound, AlarmJustified
<1>2. CASE VerifyStart \/ RepairStart
  <2>1. /\ verdict' = NoVerdict /\ cIndex' = chunkIndex /\ UNCHANGED chunkIndex
    BY <1>2 DEF VerifyStart, RepairStart, LoadIndexes, storeVars
  <2>2. verdict'.level = "none" /\ ~verdict'.ok
    BY <2>1 DEF NoVerdict
  <2> QED
    BY <2>1, <2>2 DEF VerdictInv, VerdictSound, AlarmJustified
<1>3. CASE Repair /\ ~RepairStart
  <2>1. /\ cPc # "idle" /\ UNCHANGED <<verdict, quiet>>
        /\ cPc' = "scan" => UNCHANGED <<chunkIndex, cIndex, cPc>>
        /\ cPc' # "verify"
    BY <1>3 DEF Repair, ScanChunk, NothingBad, RepairEnds, OpenForRepair, ReconstructGroup,
       WriteRepaired, FinishRepair, CheckEnds, storeVars, historyVars
  <2>2. verdict.level = "none"
    BY <2>1 DEF VerdictInv
  <2> QED
    BY <2>1, <2>2 DEF VerdictInv, VerdictSound, AlarmJustified
<1>4. CASE UNCHANGED maintenanceVars
  <2>1. UNCHANGED <<packFiles, rotten, chunkIndex, snapshots, cPc, cIndex, verdict, quiet,
                    lostPacks, damages>>
    BY <1>4 DEF maintenanceVars, storeVars, checkVars, historyVars, countVars
  <2>2. AllIndexedRestorable' <=> AllIndexedRestorable
    BY <2>1 DEF AllIndexedRestorable, Restorable, Readable, ReadableIn, Indexed
  <2>3. (\A s : Restorable(s)' <=> Restorable(s)) /\ (\A s : Indexed(s)' <=> Indexed(s))
    BY <2>1 DEF Restorable, Readable, ReadableIn, Indexed
  <2>4. AlarmJustified'
    BY <2>1, <2>3 DEF VerdictInv, AlarmJustified
  <2>5. VerdictSound'
    <3> SUFFICES ASSUME verdict.ok, quiet PROVE VerdictSound'
      BY <2>1 DEF VerdictSound
    <3>1. CASE verdict.level = "snapshot"
      BY <2>1, <2>3, <3>1 DEF VerdictInv, VerdictSound
    <3>2. CASE verdict.level = "full"
      BY <2>1, <2>2, <3>2 DEF VerdictInv, VerdictSound
    <3>3. CASE verdict.level = "quick"
      BY <2>1, <2>2, <3>3 DEF VerdictInv, VerdictSound
    <3>4. CASE verdict.level = "sample"
      BY <2>1, <2>2, <3>4 DEF VerdictInv, VerdictSound
    <3> QED
      BY <3>1, <3>2, <3>3, <3>4 DEF VerdictInv
  <2> QED
    BY <2>1, <2>4, <2>5 DEF VerdictInv
<1> QED
  BY <1>1, <1>2, <1>3, <1>4, VerdictGiven DEF MaintenanceNext, Verify

-----------------------------------------------------------------------------
\* A repair brings back what its parity groups can give.

\* Every saved group is of full size.
GroupOK(group) == \E data \in [1..GroupSize -> DataChunks] : group = ParityGroup(data)
GroupsOK(groups) == DOMAIN groups \subseteq Nat /\ \A i \in DOMAIN groups : GroupOK(groups[i])

\* What the scan found lost of a group.
LostPositions(g) ==
  LET chunks == GroupChunks(cGroups[g])
  IN  {i \in DOMAIN chunks : chunks[i] \in cBad \/ chunks[i] \notin DOMAIN cIndex}

\* What is left of a group is enough.
Repairable(g) ==
  /\ Cardinality(LostPositions(g)) <= GroupParity
  /\ \A S \in Singular : ~(DOMAIN GroupChunks(cGroups[g]) \ LostPositions(g) \subseteq S)

\* A bad chunk twice in one group.
BadTwice ==
  \E g \in DOMAIN cGroups : \E i, j \in DOMAIN GroupChunks(cGroups[g]) :
    /\ i # j /\ GroupChunks(cGroups[g])[i] = GroupChunks(cGroups[g])[j]
    /\ GroupChunks(cGroups[g])[i] \in cBad

\* The bad chunks that may still be written.
Ahead == {c \in cBad : FirstGroup(cGroups, c) \cap cTodo # {}} \cup {ChunkAt(w) : w \in cWrites}

Scanning ==
  /\ IsFiniteSet(cBad) /\ cRepaired = 0 /\ cWrites = {}
  /\ cBad \subseteq DOMAIN cIndex /\ cUnread \subseteq DOMAIN cIndex
  /\ quiet => \A c \in DOMAIN cIndex \ (cBad \cup cUnread) : ReadableIn(cIndex, c)

\* What is to be written is of one group, which will not be come to again.  While
\* nothing disturbs the repair, a bad chunk whose group is done is readable, or
\* the group had lost too much.
Repairing ==
  /\ IsFiniteSet(cBad) /\ cRepaired \in Nat
  /\ cTodo \subseteq DOMAIN cGroups
  /\ cWrites = {} \/ \E g \in DOMAIN cGroups \ cTodo :
       cWrites \subseteq {w \in ChunksIn(g) : ChunkAt(w) \in GroupBad(g)}
  /\ BadTwice \/ cRepaired + Cardinality(Ahead) <= Cardinality(cBad)
  /\ quiet =>
       /\ cBad \subseteq DOMAIN chunkIndex
       /\ \A c \in DOMAIN cIndex \ cBad : ReadableIn(cIndex, c)
       /\ \A c \in cBad : \A g \in FirstGroup(cGroups, c) :
            \/ g \in cTodo
            \/ \E w \in cWrites : ChunkAt(w) = c
            \/ Readable(c)
            \/ ~Repairable(g)

RepairInv ==
  /\ GroupsOK(parityIndex) /\ GroupsOK(wJob.groups) /\ GroupsOK(cGroups)
  /\ cPc = "scan" => Scanning
  /\ cPc = "group" => Repairing
  /\ cPc = "reported" => RepairComplete /\ RepairedCounted

\* The groups of a backup are of full size.
LEMMA GroupsOfOK == ASSUME NEW input \in Seq(DataChunks) PROVE GroupsOK(GroupsOf(input))
<1> DEFINE q == Len(input) \div GroupSize
<1>1. q \in Nat /\ q * GroupSize <= Len(input) /\ GroupSize \in Nat \ {0} /\ Len(input) \in Nat
  BY MaintenanceAssumption
<1>2. DOMAIN GroupsOf(input) = 1 .. q
  BY DEF GroupsOf
<1> HIDE DEF q
<1>3. ASSUME NEW i \in 1 .. q PROVE GroupOK(GroupsOf(input)[i])
  <2> DEFINE data == SubSeq(input, (i - 1) * GroupSize + 1, i * GroupSize)
             m == (i - 1) * GroupSize
  <2>1. m \in Nat /\ i * GroupSize = m + GroupSize /\ i * GroupSize <= Len(input)
    <3>1. i * GroupSize <= q * GroupSize
      BY <1>1
    <3> QED
      BY <1>1, <3>1
  <2> HIDE DEF m
  <2>2. SubSeq(input, m + 1, m + GroupSize) = [k \in 1 .. GroupSize |-> input[k + m]]
    BY <1>1, <2>1
  <2>3. ASSUME NEW k \in 1 .. GroupSize PROVE input[k + m] \in DataChunks
    <3>1. k + m \in 1 .. Len(input)
      BY <1>1, <2>1
    <3> QED
      BY <3>1
  <2>4. data \in [1 .. GroupSize -> DataChunks]
    BY <2>1, <2>2, <2>3 DEF m
  <2>5. GroupsOf(input)[i] = ParityGroup(data)
    BY <1>2, <1>3 DEF GroupsOf
  <2> QED
    BY <2>4, <2>5 DEF GroupOK
<1> QED
  BY <1>1, <1>2, <1>3 DEF GroupsOK

\* The chunks of a group are its data and then its parity.
LEMMA GroupOfFullSize ==
  ASSUME NEW group, GroupOK(group)
  PROVE  /\ Len(group.data) = GroupSize
         /\ DOMAIN GroupChunks(group) = 1 .. GroupSize + GroupParity
<1>1. PICK data \in [1..GroupSize -> DataChunks] : group = ParityGroup(data)
  BY DEF GroupOK
<1>2. GroupSize \in Nat /\ GroupParity \in Nat
  BY MaintenanceAssumption
<1>3. /\ group.data = data /\ data \in Seq(DataChunks) /\ Len(data) = GroupSize
      /\ group.parity = [n \in 1..GroupParity |-> ParityOf(data, n)]
  BY <1>1, <1>2 DEF ParityGroup
<1>4. group.parity \in Seq({ParityOf(data, n) : n \in 1..GroupParity}) /\ Len(group.parity) = GroupParity
  BY <1>2, <1>3
<1> QED
  BY <1>2, <1>3, <1>4 DEF GroupChunks

\* A chunk has one first group.
LEMMA OneFirstGroup ==
  ASSUME NEW groups, DOMAIN groups \subseteq Nat, NEW c,
         NEW g \in FirstGroup(groups, c), NEW h \in FirstGroup(groups, c)
  PROVE  g = h
<1>1. g \in Nat /\ h \in Nat /\ g <= h /\ h <= g
  BY DEF FirstGroup
<1> QED
  BY <1>1

\* A group that has lost no more than its parity has enough to be reconstructed.
LEMMA EnoughLeft ==
  ASSUME NEW g \in DOMAIN cGroups, GroupOK(cGroups[g]),
         \A c \in DOMAIN cIndex \ cBad : ReadableIn(cIndex, c),
         Repairable(g)
  PROVE  Enough(g)
<1> DEFINE D == 1 .. GroupSize + GroupParity
<1>1. GroupSize \in Nat /\ GroupParity \in Nat
  BY MaintenanceAssumption
<1>2. DOMAIN GroupChunks(cGroups[g]) = D /\ Len(cGroups[g].data) = GroupSize
  BY GroupOfFullSize
<1>3. IsFiniteSet(D) /\ Cardinality(D) = GroupSize + GroupParity
  <2> DEFINE n == GroupSize + GroupParity
  <2>1. 1 \in Int /\ n \in Int /\ n - 1 + 1 = n /\ n > 0
    BY MaintenanceAssumption
  <2> HIDE DEF n
  <2>2. IsFiniteSet(1 .. n) /\ Cardinality(1 .. n) = n - 1 + 1
    BY <2>1, FS_Interval
  <2> QED
    BY <2>1, <2>2 DEF n
<1>4. LostPositions(g) \subseteq D /\ Available(g) \subseteq D
  BY <1>2 DEF LostPositions, Available
<1>5. D \ LostPositions(g) \subseteq Available(g)
  BY <1>2 DEF LostPositions, Available, GroupBad
<1> HIDE DEF D
<1>6. IsFiniteSet(Available(g)) /\ IsFiniteSet(LostPositions(g))
  BY <1>3, <1>4, FS_Subset
<1>7. Cardinality(D) <= Cardinality(LostPositions(g)) + Cardinality(Available(g))
  <2>1. D = LostPositions(g) \cup Available(g)
    BY <1>4, <1>5
  <2>2. /\ Cardinality(LostPositions(g) \cap Available(g)) \in Nat
        /\ Cardinality(LostPositions(g)) \in Nat /\ Cardinality(Available(g)) \in Nat
    BY <1>6, FS_Intersection, FS_CardinalityType
  <2> QED
    <3>1. Cardinality(LostPositions(g) \cup Available(g)) =
            Cardinality(LostPositions(g)) + Cardinality(Available(g))
              - Cardinality(LostPositions(g) \cap Available(g))
      BY <1>6, FS_Union
    <3>2. Cardinality(D) = Cardinality(LostPositions(g) \cup Available(g))
      BY <2>1, Zenon
    <3> QED
      BY <2>2, <3>1, <3>2
<1>8. Cardinality(LostPositions(g)) \in Nat /\ Cardinality(Available(g)) \in Nat
  BY <1>6, FS_CardinalityType
<1>9. Cardinality(Available(g)) >= Len(cGroups[g].data)
  BY <1>1, <1>2, <1>3, <1>7, <1>8 DEF Repairable
<1>10. Available(g) \notin Singular
  BY <1>2, <1>5 DEF Repairable
<1> QED
  BY <1>9, <1>10 DEF Enough

LEMMA AheadBad ==
  ASSUME Repairing
  PROVE  /\ Ahead \subseteq cBad /\ IsFiniteSet(Ahead)
         /\ Cardinality(Ahead) \in Nat /\ Cardinality(cBad) \in Nat
<1>1. Ahead \subseteq cBad
  BY DEF Repairing, Ahead, GroupBad
<1> QED
  BY <1>1, FS_Subset, FS_CardinalityType DEF Repairing

LEMMA ScanStep ==
  ASSUME MaintenanceInv, VerdictInv, RepairInv, ScanChunk
  PROVE  RepairInv'
<1>1. PICK c \in cUnread :
        /\ cUnread' = cUnread \ {c}
        /\ cBad' = IF ReadableIn(cIndex, c) THEN cBad ELSE cBad \cup {c}
  BY DEF ScanChunk
<1>2. /\ UNCHANGED <<packFiles, rotten, chunkIndex, parityIndex, wJob, cPc, cIndex, cGroups,
                      cWrites, cRepaired, quiet>>
      /\ cPc = "scan"
  BY DEF ScanChunk, storeVars, writerVars, historyVars
<1>3. IsFiniteSet(cBad')
  BY <1>1, <1>2, FS_AddElement DEF RepairInv, Scanning
<1>4. (\A d : ReadableIn(cIndex, d)' <=> ReadableIn(cIndex, d))
  BY <1>2 DEF ReadableIn
<1>5. Scanning'
  BY <1>1, <1>2, <1>3, <1>4 DEF RepairInv, Scanning
<1> QED
  BY <1>2, <1>5 DEF RepairInv

LEMMA OpenStep ==
  ASSUME MaintenanceInv, VerdictInv, RepairInv, OpenForRepair
  PROVE  RepairInv'
<1>1. /\ UNCHANGED <<packFiles, rotten, chunkIndex, parityIndex, wJob, cIndex, cGroups, cUnread,
                      cBad, cWrites, cRepaired, quiet>>
      /\ cPc = "scan" /\ cPc' = "group" /\ cUnread = {} /\ Scanning
      /\ cTodo' = UNION {FirstGroup(cGroups, c) : c \in cBad}
  BY DEF OpenForRepair, storeVars, writerVars, historyVars, RepairInv
<1>2. cWrites = {}
  BY <1>1 DEF RepairInv, Scanning
<1>3. Ahead' \subseteq cBad
  BY <1>1, <1>2 DEF Ahead
<1>4. /\ Cardinality(Ahead') <= Cardinality(cBad)
      /\ Cardinality(Ahead') \in Nat /\ Cardinality(cBad) \in Nat
  BY <1>1, <1>3, FS_Subset, FS_CardinalityType DEF Scanning
<1>5. cTodo' \subseteq DOMAIN cGroups
  BY <1>1 DEF FirstGroup
<1>6. quiet => cIndex = chunkIndex
  BY <1>1 DEF VerdictInv
<1>7. ASSUME quiet
      PROVE  /\ cBad \subseteq DOMAIN chunkIndex
             /\ \A c \in DOMAIN cIndex \ cBad : ReadableIn(cIndex, c)'
             /\ \A c \in cBad : \A g \in FirstGroup(cGroups, c) : g \in cTodo'
  BY <1>1, <1>6, <1>7 DEF Scanning, ReadableIn
<1>8. Repairing'
  BY <1>1, <1>2, <1>4, <1>5, <1>7 DEF Scanning, Repairing
<1> QED
  BY <1>1, <1>8 DEF RepairInv

LEMMA ReconstructStep ==
  ASSUME MaintenanceInv, RepairInv, ReconstructGroup
  PROVE  RepairInv'
<1>1. /\ UNCHANGED <<packFiles, rotten, chunkIndex, parityIndex, wJob, cPc, cIndex, cGroups,
                      cBad, cRepaired, quiet>>
      /\ cPc = "group" /\ cWrites = {} /\ Repairing
  BY DEF ReconstructGroup, storeVars, writerVars, historyVars, RepairInv
<1>2. PICK g \in cTodo :
        /\ cTodo' = cTodo \ {g}
        /\ cWrites' = IF Enough(g) THEN {w \in ChunksIn(g) : ChunkAt(w) \in GroupBad(g)} ELSE {}
  BY DEF ReconstructGroup
<1>3. g \in DOMAIN cGroups /\ cTodo' \subseteq DOMAIN cGroups
  BY <1>1, <1>2 DEF Repairing
<1>4. \A h : ChunksIn(h)' = ChunksIn(h) /\ GroupBad(h)' = GroupBad(h)
                /\ LostPositions(h)' = LostPositions(h) /\ Repairable(h)' = Repairable(h)
  BY <1>1 DEF ChunksIn, GroupBad, LostPositions, Repairable
<1>5. \A w : ChunkAt(w)' = ChunkAt(w)
  BY <1>1 DEF ChunkAt
<1>6. cWrites' = {} \/ \E h \in DOMAIN cGroups' \ cTodo' :
        cWrites' \subseteq {w \in ChunksIn(h)' : ChunkAt(w)' \in GroupBad(h)'}
  BY <1>1, <1>2, <1>3, <1>4, <1>5
<1>7. Ahead' \subseteq Ahead
  <2>1. \A w \in cWrites' : ChunkAt(w) \in cBad /\ g \in FirstGroup(cGroups, ChunkAt(w))
    BY <1>2 DEF GroupBad
  <2> QED
    BY <1>1, <1>2, <1>5, <2>1 DEF Ahead
<1>8. /\ Cardinality(Ahead') <= Cardinality(Ahead) /\ Cardinality(Ahead') \in Nat
      /\ Cardinality(Ahead) \in Nat /\ Cardinality(cBad) \in Nat
  BY <1>1, <1>7, AheadBad, FS_Subset, FS_CardinalityType
<1>9. BadTwice' <=> BadTwice
  BY <1>1 DEF BadTwice
\* The bad chunks of the group are to be written, if it has not lost too much.
<1>10. ASSUME quiet, NEW c \in cBad, g \in FirstGroup(cGroups, c),
              Repairable(g)
       PROVE  \E w \in cWrites' : ChunkAt(w) = c
  <2>1. Enough(g)
    BY <1>1, <1>3, <1>10, EnoughLeft DEF RepairInv, GroupsOK, Repairing
  <2>2. PICK i \in DOMAIN GroupChunks(cGroups[g]) : GroupChunks(cGroups[g])[i] = c
    BY <1>10 DEF FirstGroup, HasChunk
  <2>3. <<g, i>> \in ChunksIn(g) /\ ChunkAt(<<g, i>>) = c /\ c \in GroupBad(g)
    BY <1>10, <2>2 DEF ChunksIn, ChunkAt, GroupBad
  <2> QED
    BY <1>2, <2>1, <2>3
<1>11. ASSUME quiet, NEW c \in cBad, NEW h \in FirstGroup(cGroups, c)
       PROVE  \/ h \in cTodo'
              \/ \E w \in cWrites' : ChunkAt(w) = c
              \/ Readable(c)'
              \/ ~Repairable(h)
  <2>1. CASE h = g
    BY <1>10, <1>11, <2>1
  <2>2. CASE h # g
    BY <1>1, <1>2, <1>11, <2>2 DEF Repairing, Readable, ReadableIn
  <2> QED
    BY <2>1, <2>2
<1>12. quiet => \A c \in DOMAIN cIndex \ cBad : ReadableIn(cIndex, c)'
  BY <1>1 DEF Repairing, ReadableIn
<1>13. BadTwice' \/ cRepaired' + Cardinality(Ahead') <= Cardinality(cBad')
  BY <1>1, <1>8, <1>9 DEF Repairing
<1>14. Repairing'
  BY <1>1, <1>3, <1>4, <1>5, <1>6, <1>11, <1>12, <1>13 DEF Repairing
<1> QED
  BY <1>1, <1>14 DEF RepairInv

LEMMA WriteStep ==
  ASSUME MaintenanceInv, RepairInv, WriteRepaired
  PROVE  RepairInv'
<1>1. /\ UNCHANGED <<parityIndex, wJob, cPc, cIndex, cGroups, cBad, cTodo, quiet>>
      /\ cPc = "group" /\ Repairing /\ cRepaired' = cRepaired + 1
      /\ cMem = chunkIndex /\ chunkIndex' = cMem' /\ rotten' = rotten
  BY DEF WriteRepaired, writerVars, historyVars, RepairInv, MaintenanceInv, LockOK
<1>2. PICK w \in cWrites, id \in NextPackIds :
        /\ packFiles' = WithPack(id, {ChunkAt(w)})
        /\ cMem' = IF ChunkAt(w) \in DOMAIN cMem THEN [cMem EXCEPT ![ChunkAt(w)] = id] ELSE cMem
        /\ cWrites' = cWrites \ {w}
  BY DEF WriteRepaired
<1>3. /\ PacksStay /\ \A c \in DOMAIN chunkIndex : Readable(c) => Readable(c)'
      /\ id \in DOMAIN packFiles' /\ packFiles'[id] = {ChunkAt(w)}
      /\ \A c : <<id, c>> \notin rotten
  BY <1>1, <1>2, WriteRepairedStore, WithPackStays DEF MaintenanceInv
<1>4. \A h : ChunksIn(h)' = ChunksIn(h) /\ GroupBad(h)' = GroupBad(h)
                /\ LostPositions(h)' = LostPositions(h) /\ Repairable(h)' = Repairable(h)
  BY <1>1 DEF ChunksIn, GroupBad, LostPositions, Repairable
<1>5. \A v : ChunkAt(v)' = ChunkAt(v)
  BY <1>1 DEF ChunkAt
<1>6. PICK g \in DOMAIN cGroups \ cTodo :
        cWrites \subseteq {v \in ChunksIn(g) : ChunkAt(v) \in GroupBad(g)}
  BY <1>1, <1>2 DEF Repairing
<1>7. cWrites' = {} \/ \E h \in DOMAIN cGroups' \ cTodo' :
        cWrites' \subseteq {v \in ChunksIn(h)' : ChunkAt(v)' \in GroupBad(h)'}
  BY <1>1, <1>2, <1>4, <1>5, <1>6
<1> DEFINE c == ChunkAt(w)
<1>8. c \in cBad /\ g \in FirstGroup(cGroups, c) /\ c \in Ahead
  BY <1>2, <1>6 DEF GroupBad, Ahead
\* Once it is written a chunk is not written again, unless its group has it twice.
<1>9. ~BadTwice => Ahead' \subseteq Ahead \ {c}
  <2> SUFFICES ASSUME ~BadTwice PROVE Ahead' \subseteq Ahead \ {c}
    OBVIOUS
  <2>1. Ahead' \subseteq Ahead
    BY <1>1, <1>2, <1>5 DEF Ahead
  <2>2. FirstGroup(cGroups, c) \cap cTodo = {}
    BY <1>6, <1>8, OneFirstGroup DEF RepairInv, GroupsOK
  <2>3. ASSUME NEW v \in cWrites', ChunkAt(v) = c PROVE FALSE
    <3>1. v # w /\ v \in ChunksIn(g) /\ w \in ChunksIn(g)
      BY <1>2, <1>6, <2>3
    <3>2. PICK i, j \in DOMAIN GroupChunks(cGroups[g]) : v = <<g, i>> /\ w = <<g, j>>
      BY <3>1 DEF ChunksIn
    <3>3. i # j /\ GroupChunks(cGroups[g])[i] = c /\ GroupChunks(cGroups[g])[j] = c
      BY <2>3, <3>1, <3>2 DEF ChunkAt
    <3> QED
      BY <1>6, <1>8, <3>3 DEF BadTwice
  <2>4. c \notin Ahead'
    BY <1>1, <1>5, <2>2, <2>3 DEF Ahead
  <2> QED
    BY <2>1, <2>4
<1>10. BadTwice' <=> BadTwice
  BY <1>1 DEF BadTwice
<1>11. BadTwice' \/ cRepaired' + Cardinality(Ahead') <= Cardinality(cBad')
  <2> SUFFICES ASSUME ~BadTwice PROVE cRepaired + 1 + Cardinality(Ahead') <= Cardinality(cBad)
    BY <1>1, <1>10
  <2>1. /\ IsFiniteSet(Ahead) /\ Cardinality(Ahead) \in Nat /\ Cardinality(cBad) \in Nat
    BY <1>1, AheadBad
  <2>2. IsFiniteSet(Ahead \ {c}) /\ Cardinality(Ahead \ {c}) = Cardinality(Ahead) - 1
    BY <1>8, <2>1, FS_RemoveElement
  <2>3. Cardinality(Ahead') <= Cardinality(Ahead) - 1 /\ Cardinality(Ahead') \in Nat
    BY <1>9, <2>2, FS_Subset, FS_CardinalityType
  <2> QED
    BY <1>1, <2>1, <2>3 DEF Repairing
<1>12. ASSUME quiet
       PROVE  /\ cBad \subseteq DOMAIN chunkIndex'
              /\ \A d \in DOMAIN cIndex \ cBad : ReadableIn(cIndex, d)'
              /\ Readable(c)'
  <2>1. cBad \subseteq DOMAIN chunkIndex /\ DOMAIN chunkIndex' = DOMAIN chunkIndex
    BY <1>1, <1>2, <1>12 DEF Repairing
  <2>2. c \in DOMAIN chunkIndex' /\ chunkIndex'[c] = id
    BY <1>1, <1>2, <1>8, <2>1
  <2>3. Readable(c)'
    BY <1>1, <1>3, <1>5, <2>2 DEF Readable, ReadableIn
  <2>4. \A d \in DOMAIN cIndex \ cBad : ReadableIn(cIndex, d)'
    BY <1>1, <1>3, <1>12, ReadableStays DEF Repairing, ReadableIn, PacksStay
  <2> QED
    BY <2>1, <2>3, <2>4
<1>13. ASSUME quiet, NEW d \in cBad, NEW h \in FirstGroup(cGroups, d)
       PROVE  \/ h \in cTodo
              \/ \E v \in cWrites' : ChunkAt(v) = d
              \/ Readable(d)'
              \/ ~Repairable(h)
  <2>1. CASE d = c
    BY <1>5, <1>12, <1>13, <2>1
  <2>2. CASE d # c
    <3>1. \/ h \in cTodo
          \/ \E v \in cWrites : ChunkAt(v) = d
          \/ Readable(d)
          \/ ~Repairable(h)
      BY <1>1, <1>13 DEF Repairing
    <3>2. d \in DOMAIN chunkIndex
      BY <1>1, <1>13 DEF Repairing
    <3> QED
      BY <1>2, <1>3, <2>2, <3>1, <3>2
  <2> QED
    BY <2>1, <2>2
<1>14. IsFiniteSet(cBad') /\ cRepaired' \in Nat /\ cTodo' \subseteq DOMAIN cGroups'
  BY <1>1 DEF Repairing
<1>15. Repairing'
  BY <1>1, <1>4, <1>5, <1>7, <1>11, <1>12, <1>13, <1>14 DEF Repairing
<1> QED
  BY <1>1, <1>15 DEF RepairInv

LEMMA EndStep ==
  ASSUME MaintenanceInv, RepairInv, NothingBad \/ FinishRepair \/ CheckEnds
  PROVE  RepairInv'
<1>1. UNCHANGED <<parityIndex, wJob, quiet>>
  BY DEF NothingBad, FinishRepair, CheckEnds, storeVars, writerVars, historyVars
<1>2. CASE NothingBad
  <2>1. /\ cPc = "scan" /\ cPc' = "reported" /\ UNCHANGED <<cIndex, cGroups, cBad, cRepaired>>
        /\ cBad = {} /\ Scanning
    BY <1>2 DEF NothingBad, RepairEnds, RepairInv
  <2>2. cRepaired' <= Cardinality(cBad')
    BY <2>1, FS_EmptySet DEF Scanning
  <2>3. RepairComplete' /\ RepairedCounted'
    BY <2>1, <2>2 DEF RepairComplete, RepairedCounted
  <2> QED
    BY <1>1, <2>1, <2>3 DEF RepairInv
<1>3. CASE FinishRepair
  <2>1. /\ cPc = "group" /\ cPc' = "reported"
        /\ UNCHANGED <<packFiles, rotten, cIndex, cGroups, cBad, cRepaired>>
        /\ chunkIndex' = cMem /\ cTodo = {} /\ cWrites = {} /\ Repairing
    BY <1>3 DEF FinishRepair, RepairEnds, RepairInv
  <2>2. chunkIndex' = chunkIndex
    BY <2>1 DEF MaintenanceInv, LockOK
  <2>3. BadTwice \/ cRepaired <= Cardinality(cBad)
    BY <2>1, AheadBad DEF Repairing
  <2>4. RepairedCounted'
    BY <2>1, <2>3 DEF RepairedCounted, BadTwice
  <2>5. ASSUME quiet, NEW c \in cBad, NEW g \in FirstGroup(cGroups, c),
               Repairable(g)
        PROVE  Readable(c)'
    BY <2>1, <2>2, <2>5 DEF Repairing, Readable, ReadableIn
  <2>6. RepairComplete'
    BY <1>1, <2>1, <2>5 DEF RepairComplete, LostPositions, Repairable
  <2> QED
    BY <1>1, <2>1, <2>4, <2>6 DEF RepairInv
<1>4. CASE CheckEnds
  <2>1. cPc' = "idle" /\ cGroups' = <<>>
    BY <1>4 DEF CheckEnds, ForgetCheck
  <2>2. GroupsOK(<<>>)
    BY DEF GroupsOK
  <2> QED
    BY <1>1, <2>1, <2>2 DEF RepairInv, RepairComplete, RepairedCounted
<1> QED
  BY <1>2, <1>3, <1>4

\* Whoever writes does not touch what the repair has in memory, and disturbs it.
LEMMA OthersStep ==
  ASSUME MaintenanceInv, RepairInv, Writer \/ Damage
  PROVE  RepairInv'
<1>1. UNCHANGED checkVars /\ quiet' = FALSE
  BY DEF Writer, Damage, BackupWalk, SaveParityIndex, FlushNew, SaveChunkIndex,
     SaveSnapshotFile, PruneSnapshot, CompactCopy, CompactSaveIndex, CompactDeleteOld,
     WriterCrash, EndWriter, WriterSteps
<1>2. GroupsOK(<<>>)
  BY DEF GroupsOK
<1>3. GroupsOK(parityIndex') /\ GroupsOK(wJob'.groups)
  <2>1. CASE BackupWalk
    <3>1. PICK input \in BackupInputs : wJob'.groups = GroupsOf(input)
      BY <2>1 DEF BackupWalk
    <3>2. input \in Seq(DataChunks)
      BY MaintenanceAssumption
    <3> QED
      BY <2>1, <3>1, <3>2, GroupsOfOK DEF BackupWalk, storeVars, RepairInv
  <2>2. CASE SaveParityIndex
    BY <2>2 DEF SaveParityIndex, RepairInv
  <2>3. CASE FlushNew
    BY <2>3 DEF FlushNew, RepairInv, MaintenanceInv, BackupOK
  <2>4. CASE SaveChunkIndex \/ SaveSnapshotFile \/ WriterCrash \/ CompactDeleteOld
    BY <1>2, <2>4 DEF SaveChunkIndex, SaveSnapshotFile, WriterCrash, CompactDeleteOld, EndWriter,
       NoJob, storeVars, RepairInv
  <2>5. CASE PruneSnapshot \/ CompactSaveIndex \/ Damage
    BY <2>5 DEF PruneSnapshot, CompactSaveIndex, Damage, writerVars, RepairInv
  <2>6. CASE CompactCopy
    BY <1>2, <2>6 DEF CompactCopy, CompactionTo, NoJob, RepairInv
  <2> QED
    BY <2>1, <2>2, <2>3, <2>4, <2>5, <2>6 DEF Writer
<1>4. UNCHANGED <<cPc, cIndex, cGroups, cUnread, cBad, cTodo, cWrites, cRepaired>>
  BY <1>1 DEF checkVars
<1>5. /\ Ahead' = Ahead /\ (BadTwice' <=> BadTwice)
      /\ \A g : ChunksIn(g)' = ChunksIn(g) /\ GroupBad(g)' = GroupBad(g)
      /\ \A w : ChunkAt(w)' = ChunkAt(w)
  BY <1>4 DEF Ahead, BadTwice, ChunksIn, GroupBad, ChunkAt
<1>6. cPc' = "scan" => Scanning'
  BY <1>1, <1>4 DEF RepairInv, Scanning
<1>7. cPc' = "group" => Repairing'
  BY <1>1, <1>4, <1>5 DEF RepairInv, Repairing
<1>8. cPc' = "reported" => RepairComplete' /\ RepairedCounted'
  BY <1>1, <1>4 DEF RepairInv, RepairComplete, RepairedCounted
<1> QED
  BY <1>3, <1>4, <1>6, <1>7, <1>8 DEF RepairInv

LEMMA NextRepair ==
  ASSUME MaintenanceInv, VerdictInv, RepairInv, [MaintenanceNext]_maintenanceVars
  PROVE  RepairInv'
<1>1. CASE VerifyStart \/ RepairStart
  <2>1. /\ cPc' \in {"verify", "scan"} /\ UNCHANGED <<packFiles, rotten, parityIndex, wJob>>
        /\ cGroups' = parityIndex /\ cUnread' = DOMAIN cIndex' /\ cBad' = {} /\ cRepaired' = 0
        /\ cWrites' = {}
    BY <1>1 DEF VerifyStart, RepairStart, LoadIndexes, storeVars, writerVars
  <2>2. Scanning'
    BY <2>1, FS_EmptySet DEF Scanning
  <2> QED
    BY <2>1, <2>2 DEF RepairInv
<1>2. CASE VerifyQuick \/ VerifyFull \/ VerifySample \/ VerifyOneSnapshot
  <2>1. cPc' = "idle" /\ cGroups' = <<>> /\ UNCHANGED <<parityIndex, wJob>>
    BY <1>2 DEF VerifyQuick, VerifyFull, VerifySample, VerifyOneSnapshot, VerifyEnd, ForgetCheck,
       storeVars, writerVars
  <2>2. GroupsOK(<<>>)
    BY DEF GroupsOK
  <2> QED
    BY <2>1, <2>2 DEF RepairInv
<1>3. CASE UNCHANGED maintenanceVars
  <2>1. UNCHANGED <<packFiles, rotten, chunkIndex, parityIndex, wJob, cPc, cIndex, cGroups, cUnread,
                    cBad, cTodo, cWrites, cRepaired, quiet>>
    BY <1>3 DEF maintenanceVars, storeVars, writerVars, checkVars, historyVars
  <2>2. /\ \A c : Readable(c)' = Readable(c) /\ ReadableIn(cIndex, c)' = ReadableIn(cIndex, c)
        /\ \A g : LostPositions(g)' = LostPositions(g) /\ Repairable(g)' = Repairable(g)
    BY <2>1 DEF Readable, ReadableIn, LostPositions, Repairable
  <2>3. /\ Ahead' = Ahead /\ (BadTwice' <=> BadTwice)
        /\ \A g : ChunksIn(g)' = ChunksIn(g) /\ GroupBad(g)' = GroupBad(g)
        /\ \A w : ChunkAt(w)' = ChunkAt(w)
    BY <2>1 DEF Ahead, BadTwice, ChunksIn, GroupBad, ChunkAt
  <2>4. cPc = "scan" => Scanning'
    BY <2>1, <2>2 DEF RepairInv, Scanning
  <2>5. cPc = "group" => Repairing'
    BY <2>1, <2>2, <2>3 DEF RepairInv, Repairing
  <2>6. cPc = "reported" => RepairComplete' /\ RepairedCounted'
    BY <2>1, <2>2 DEF RepairInv, RepairComplete, RepairedCounted
  <2> QED
    BY <2>1, <2>4, <2>5, <2>6 DEF RepairInv
<1> QED
  BY <1>1, <1>2, <1>3, ScanStep, OpenStep, ReconstructStep, WriteStep, EndStep, OthersStep
  DEF MaintenanceNext, Verify, Repair

-----------------------------------------------------------------------------

LEMMA InitCheckInv == MaintenanceInit => SoundInv /\ VerdictInv /\ RepairInv
<1> SUFFICES ASSUME MaintenanceInit PROVE SoundInv /\ VerdictInv /\ RepairInv
  OBVIOUS
<1>1. SoundInv
  BY DEF MaintenanceInit, SoundInv, Sound, Nothing
<1>2. VerdictInv
  BY DEF MaintenanceInit, VerdictInv, VerdictSound, AlarmJustified, NoVerdict
<1>3. RepairInv
  BY DEF MaintenanceInit, RepairInv, GroupsOK, NoJob
<1> QED
  BY <1>1, <1>2, <1>3

\* The invariant of the store with that of the checks that read it.
THEOREM ChecksInvariant == MaintenanceSpec => [](MaintenanceInv /\ SoundInv /\ VerdictInv /\ RepairInv)
<1>1. MaintenanceInit => MaintenanceInv /\ SoundInv /\ VerdictInv /\ RepairInv
  BY InitMaintenanceInv, InitCheckInv
<1>2. MaintenanceInv /\ SoundInv /\ VerdictInv /\ RepairInv /\ [MaintenanceNext]_maintenanceVars
        => (MaintenanceInv /\ SoundInv /\ VerdictInv /\ RepairInv)'
  BY NextMaintenanceInv, NextSound, NextVerdict, NextRepair
<1> QED
  BY <1>1, <1>2, PTL DEF MaintenanceSpec

\* A verification that finds nothing wrong means what it says: quick, sampled,
\* full or of one snapshot, whatever the disk has lost before.
THEOREM VerdictAlwaysSound == MaintenanceSpec => []VerdictSound
<1>1. VerdictInv => VerdictSound
  BY DEF VerdictInv
<1> QED
  BY <1>1, ChecksInvariant, PTL

\* No crash of a backup, prune, compaction or repair leaves anything behind that
\* a verification would take for damage.
THEOREM AlarmAlwaysJustified == MaintenanceSpec => []AlarmJustified
<1>1. VerdictInv => AlarmJustified
  BY DEF VerdictInv
<1> QED
  BY <1>1, ChecksInvariant, PTL

\* An undisturbed repair gives back every bad chunk whose first group has lost no
\* more than its parity, for any groups and in whichever order it comes to them.
THEOREM RepairAlwaysComplete == MaintenanceSpec => []RepairComplete
<1>1. RepairInv => RepairComplete
  BY DEF RepairInv, RepairComplete
<1> QED
  BY <1>1, ChecksInvariant, PTL

\* The number of repaired chunks never exceeds that of the bad ones, disturbed or
\* not, unless a group has a bad chunk twice.
THEOREM RepairedAlwaysCounted == MaintenanceSpec => []RepairedCounted
<1>1. RepairInv => RepairedCounted
  BY DEF RepairInv, RepairedCounted
<1> QED
  BY <1>1, ChecksInvariant, PTL

==================================================================================
