-------------------------- MODULE BackupShieldSafety --------------------------
(***************************************************************************)
(* The saved index never lies and no pack file is written twice, for any   *)
(* number of processes running all commands, with crashes and failing      *)
(* writes.  The argument is the invariant HandlesConsistent: a step of one *)
(* process concerns its own handle and, only if it holds the lock, the     *)
(* packs and the index; the other processes' parts survive because at most *)
(* one process holds the lock.                                             *)
(*                                                                         *)
(* Commands advance: each step takes a command to a later stage, or leaves *)
(* it less to do of a finite list, and it does so for its own process      *)
(* only.                                                                   *)
(***************************************************************************)
EXTENDS BackupShieldTypes

\* What the invariant says of one process.
Own(p) == HandleSound(p) /\ FreshIds(p) /\ CompactSound(p)

\* Between two states: every pack stays, with its chunks.
PacksKept == \A k \in DOMAIN packs : k \in DOMAIN packs' /\ packs'[k] = packs[k]

\* Between two states: nothing of process q's own state changes.
Unmoved(q) ==
  /\ pc'[q] = pc[q]
  /\ mem'[q] = mem[q]
  /\ buf'[q] = buf[q]
  /\ nextPack'[q] = nextPack[q]
  /\ live'[q] = live[q]
  /\ old'[q] = old[q]
  /\ copies'[q] = copies[q]
  /\ moved'[q] = moved[q]

\* Between two states: p is the only process whose hold on the lock can change,
\* and it holds the lock exactly in the states of Holding.
LockFollows(p) ==
  /\ pc'[p] \in Holding <=> lock' = p
  /\ \A q \in Procs \ {p} : lock' = q <=> lock = q

-----------------------------------------------------------------------------
\* The initial state satisfies the invariant.
LEMMA InitConsistent == Init => HandlesConsistent
<1> SUFFICES ASSUME Init PROVE HandlesConsistent
  OBVIOUS
<1> USE DEF Init, RepositoryInit
<1>1. IndexSound
  BY DEF IndexSound, EmptyMap
<1>2. LockHeld
  BY RepositoryAssumption DEF LockHeld, Holding, Handling
<1>3. ASSUME NEW p \in Procs PROVE HandleSound(p) /\ FreshIds(p) /\ CompactSound(p)
  BY DEF HandleSound, FreshIds, CompactSound, Handling
<1> QED
  BY <1>1, <1>2, <1>3 DEF HandlesConsistent

-----------------------------------------------------------------------------
\* A step touches the state of its own process only, and

LEMMA StepIsLocal ==
  ASSUME TypeOK, NEW p \in Procs, Step(p) \/ Crash(p), NEW q \in Procs \ {p}
  PROVE  Unmoved(q)
<1> USE TypePieces DEF Unmoved, HandleOK, ControlOK, CompactOK, handleVars, diskVars,
        controlVars, compactVars, backupVars
<1>1. CASE OpenFails(p) \/ Crash(p)
  BY <1>1 DEF OpenFails, Crash, EndCommand, Close, ForgetAll, ForgetCompact
<1>2. CASE PruneStep(p) /\ UNCHANGED <<backupVars, compactVars>>
  <2>1. CASE PruneList(p)
    BY <1>2, <2>1 DEF PruneList
  <2>2. CASE PruneOpen(p) \/ AutoPruneOpen(p) \/ DeleteOpen(p)
    BY <1>2, <2>2 DEF PruneOpen, AutoPruneOpen, DeleteOpen, Open, Goto
  <2>3. CASE DeleteOne(p)
    BY <1>2, <2>3 DEF DeleteOne
  <2>4. CASE DeleteSave(p)
    BY <1>2, <2>4 DEF DeleteSave, EndCommand, Close, Goto
  <2> QED
    BY <1>2, <2>1, <2>2, <2>3, <2>4 DEF PruneStep
<1>3. CASE BackupStep(p) /\ UNCHANGED compactVars
  <2>1. CASE \E command, root : BackupOpen(p, command, root) \/ BackupOverLimit(p, command, root)
    BY <1>3, <2>1 DEF BackupOpen, BackupOverLimit, Open
  <2>2. CASE BackupReopen(p) \/ IncList(p) \/ IncOpen(p)
    BY <1>3, <2>2 DEF BackupReopen, IncList, IncOpen, Open, Goto
  <2>3. CASE \E f, c : StoreFile(p, f, c) \/ StoreThenSkip(p, f, c)
    BY <1>3, <2>3 DEF StoreFile, StoreThenSkip, Building, StoreChunk, StoreDuplicate,
                      StoreBuffered, StoreFlushed, WritePack
  <2>4. CASE \E f, c : FailFile(p, f, c) \/ ReuseFile(p, f) \/ SkipFile(p, f) \/ RemoveFile(p, f)
    BY <1>3, <2>4 DEF FailFile, ReuseFile, SkipFile, RemoveFile, Building, StoreChunkFails
  <2>5. CASE FinishFlush(p) \/ SysSnapshot(p)
    BY <1>3, <2>5 DEF FinishFlush, SysSnapshot, Goto, FlushPending, WritePack
  <2>6. CASE FinishIndex(p) \/ FinishSnapshot(p)
    BY <1>3, <2>6 DEF FinishIndex, FinishSnapshot, EndCommand, Close, Goto
  <2>7. CASE \E c : StoreParity(p, c)
    BY <1>3, <2>7 DEF StoreParity, FlushingGroup, StoreChunk, StoreDuplicate, StoreBuffered,
                      StoreFlushed, WritePack
  <2>8. CASE \E c : ParityFails(p, c)
    BY <1>3, <2>8 DEF ParityFails, FlushingGroup, StoreChunkFails
  <2> QED
    BY <1>3, <2>1, <2>2, <2>3, <2>4, <2>5, <2>6, <2>7, <2>8 DEF BackupStep
<1>4. CASE CompactStep(p) /\ UNCHANGED <<victims, backupVars>>
  <2>1. CASE CompactCollect(p) \/ CompactOpen(p) \/ CompactIndex(p) \/ CompactDelete(p)
    BY <1>4, <2>1 DEF CompactCollect, CompactOpen, CompactIndex, CompactDelete, Goto
  <2>2. CASE CompactWrite(p)
    BY <1>4, <2>2 DEF CompactWrite, WritePack
  <2>3. CASE CompactNothing(p) \/ CompactDone(p)
    BY <1>4, <2>3 DEF CompactNothing, CompactDone, EndCommand, Close, ForgetCompact
  <2> QED
    BY <1>4, <2>1, <2>2, <2>3 DEF CompactStep
<1> QED
  BY <1>1, <1>2, <1>3, <1>4 DEF Step

\* changes packs or the index only in a state that holds the lock.
LEMMA DiskNeedsLock ==
  ASSUME NEW p \in Procs, Step(p) \/ Crash(p), pc[p] \notin Holding
  PROVE  UNCHANGED <<packs, index>>
<1> USE DEF diskVars, Holding, Handling
<1>1. CASE OpenFails(p) \/ Crash(p)
  BY <1>1 DEF OpenFails, Crash
<1>2. CASE PruneStep(p)
  BY <1>2 DEF PruneStep, PruneList, AutoPruneOpen, PruneOpen, DeleteOpen, DeleteOne, DeleteSave
<1>3. CASE BackupStep(p)
  BY <1>3 DEF BackupStep, BackupOpen, BackupOverLimit, BackupReopen, IncList, IncOpen,
     StoreFile, StoreThenSkip, FailFile, ReuseFile, SkipFile, RemoveFile, Building,
     StoreParity, ParityFails, FlushingGroup, FinishFlush, FinishIndex, FinishSnapshot,
     SysSnapshot, Built
<1>4. CASE CompactStep(p)
  BY <1>4 DEF CompactStep, CompactCollect, CompactOpen, CompactNothing, CompactWrite,
     CompactIndex, CompactDelete, CompactDone
<1> QED
  BY <1>1, <1>2, <1>3, <1>4 DEF Step

\* So what the invariant says of the other processes survives.
LEMMA OthersKeep ==
  ASSUME TypeOK, HandlesConsistent, NEW p \in Procs, NEW q \in Procs \ {p},
         Unmoved(q), pc[p] \notin Holding => UNCHANGED <<packs, index>>
  PROVE  Own(q)'
<1> USE DEF Own, HandleSound, FreshIds, CompactSound, Stored
<1>1. CASE pc[p] \in Holding
  <2>1. lock = p /\ pc[q] \notin Holding
    BY <1>1 DEF HandlesConsistent, LockHeld
  <2> QED
    BY <2>1 DEF Unmoved, HandlesConsistent, Holding
<1>2. CASE pc[p] \notin Holding
  BY <1>2 DEF Unmoved, HandlesConsistent
<1> QED
  BY <1>1, <1>2

-----------------------------------------------------------------------------
\* The lock follows the control state.

LEMMA LockStep ==
  ASSUME TypeOK, HandlesConsistent, NEW p \in Procs, Step(p) \/ Crash(p)
  PROVE  LockFollows(p)
<1> USE TypePieces, RepositoryAssumption DEF LockFollows, ControlOK, Holding, Handling,
        HandlesConsistent, LockHeld, diskVars, handleVars, controlVars
<1>1. CASE OpenFails(p) \/ Crash(p)
  BY <1>1 DEF OpenFails, Crash, EndCommand, Close
<1>2. CASE PruneStep(p)
  <2>1. CASE PruneList(p)
    BY <2>1 DEF PruneList, Start
  <2>2. CASE PruneOpen(p) \/ AutoPruneOpen(p) \/ DeleteOpen(p)
    BY <2>2 DEF PruneOpen, AutoPruneOpen, DeleteOpen, Open, Goto, Start
  <2>3. CASE DeleteOne(p)
    BY <2>3 DEF DeleteOne
  <2>4. CASE DeleteSave(p)
    BY <2>4 DEF DeleteSave, EndCommand, Close, Goto
  <2> QED
    BY <1>2, <2>1, <2>2, <2>3, <2>4 DEF PruneStep
<1>3. CASE BackupStep(p)
  <2>1. CASE \E command, root : BackupOpen(p, command, root) \/ BackupOverLimit(p, command, root)
    BY <2>1 DEF BackupOpen, BackupOverLimit, Open, Start
  <2>2. CASE BackupReopen(p) \/ IncList(p) \/ IncOpen(p)
    BY <2>2 DEF BackupReopen, IncList, IncOpen, Open, Goto, Start
  <2>3. CASE FlushingGroup(p) \/ \E f : Building(p, f)
    BY <2>3 DEF Building, FlushingGroup
  <2>4. CASE FinishFlush(p) \/ SysSnapshot(p)
    BY <2>4 DEF FinishFlush, SysSnapshot, Goto, Built
  <2>5. CASE FinishIndex(p) \/ FinishSnapshot(p)
    BY <2>5 DEF FinishIndex, FinishSnapshot, EndCommand, Close, Goto
  <2> QED
    BY <1>3, <2>1, <2>2, <2>3, <2>4, <2>5
    DEF BackupStep, StoreFile, StoreThenSkip, FailFile, ReuseFile, SkipFile, RemoveFile,
        StoreParity, ParityFails
<1>4. CASE CompactStep(p)
  <2>1. CASE CompactCollect(p) \/ CompactOpen(p) \/ CompactIndex(p)
    BY <2>1 DEF CompactCollect, CompactOpen, CompactIndex, Goto, Start
  <2>2. CASE CompactWrite(p) \/ CompactDelete(p)
    BY <2>2 DEF CompactWrite, CompactDelete
  <2>3. CASE CompactNothing(p) \/ CompactDone(p)
    BY <2>3 DEF CompactNothing, CompactDone, EndCommand, Close
  <2> QED
    BY <1>4, <2>1, <2>2, <2>3 DEF CompactStep
<1> QED
  BY <1>1, <1>2, <1>3, <1>4 DEF Step

LEMMA LockHeldKept ==
  ASSUME TypeOK, HandlesConsistent, NEW p \in Procs, Step(p) \/ Crash(p)
  PROVE  LockHeld'
<1>1. LockFollows(p) /\ \A q \in Procs \ {p} : pc'[q] = pc[q]
  BY LockStep, StepIsLocal DEF Unmoved
<1> QED
  BY <1>1 DEF LockFollows, HandlesConsistent, LockHeld

-----------------------------------------------------------------------------
\* Writing packs.

\* A pack written under a fresh id leaves every other pack alone.
LEMMA WritePackKeeps ==
  ASSUME TypeOK, NEW p \in Procs, NEW S, WritePack(p, S),
         \A k \in DOMAIN packs : k < nextPack[p]
  PROVE  /\ PacksKept
         /\ nextPack[p] \in DOMAIN packs' /\ packs'[nextPack[p]] = S
         /\ nextPack[p] \notin DOMAIN packs
         /\ \A k \in DOMAIN packs' : k < nextPack'[p]
<1> USE TypePieces DEF HandleOK, PacksOK
<1>1. DOMAIN packs' = DOMAIN packs \cup {nextPack[p]}
  BY DEF WritePack, Put
<1>2. \A k \in DOMAIN packs' :
        packs'[k] = IF k = nextPack[p] THEN S ELSE packs[k]
  BY DEF WritePack, Put
<1>3. nextPack'[p] = nextPack[p] + 1
  BY DEF WritePack
<1>4. nextPack[p] \in Nat /\ DOMAIN packs \subseteq Nat
  OBVIOUS
<1> QED
  BY <1>1, <1>2, <1>3, <1>4 DEF PacksKept

\* Relocating the chunks of a written pack: every entry that was sound, or
\* whose chunk is in the pack, is sound now.
LEMMA RelocateSound ==
  ASSUME PacksKept, NEW idx, NEW S, NEW k,
         IsIndex(idx), k \in DOMAIN packs', packs'[k] = S,
         \A c \in DOMAIN idx : Stored(idx, c) \/ c \in S
  PROVE  \A c \in DOMAIN Relocate(idx, S, k) :
            /\ Relocate(idx, S, k)[c].pack \in DOMAIN packs'
            /\ c \in packs'[Relocate(idx, S, k)[c].pack]
<1> TAKE c \in DOMAIN Relocate(idx, S, k)
<1>1. c \in DOMAIN idx /\ idx[c] \in Meta
  BY DEF Relocate, IsIndex
<1>2. CASE c \in S
  <2>1. Relocate(idx, S, k)[c].pack = k
    BY <1>1, <1>2 DEF Relocate, Meta
  <2> QED
    BY <1>2, <2>1
<1>3. CASE c \notin S
  <2>1. Relocate(idx, S, k)[c].pack = idx[c].pack
    BY <1>1, <1>3 DEF Relocate
  <2> QED
    BY <1>1, <1>3, <2>1 DEF Stored, PacksKept
<1> QED
  BY <1>2, <1>3

\* Storing a chunk, with or without a flush, keeps the handle sound.
LEMMA StoreChunkSound ==
  ASSUME TypeOK, HandlesConsistent, NEW p \in Procs, pc[p] = "build",
         NEW c \in Chunks, StoreChunk(p, c) \/ StoreChunkFails(p, c)
  PROVE  /\ PacksKept
         /\ \A k \in DOMAIN packs' : k < nextPack'[p]
         /\ \A d \in DOMAIN mem'[p] :
               \/ mem'[p][d].pack \in DOMAIN packs' /\ d \in packs'[mem'[p][d].pack]
               \/ d \in buf'[p]
<1>1. /\ \A d \in DOMAIN mem[p] : Stored(mem[p], d) \/ d \in buf[p]
      /\ \A k \in DOMAIN packs : k < nextPack[p]
      /\ DOMAIN mem = Procs /\ IsIndex(mem[p]) /\ buf[p] \subseteq Chunks
      /\ buf \in [Procs -> SUBSET Chunks] /\ nextPack \in [Procs -> Nat]
      /\ DOMAIN packs \subseteq Nat
  BY TypePieces DEF HandlesConsistent, HandleSound, FreshIds, Handling, HandleOK, PacksOK
<1>2. CASE StoreDuplicate(p, c)
  <2>1. \A d \in DOMAIN mem[p] : AddRef(mem[p], c)[d].pack = mem[p][d].pack
    BY <1>1, <1>2 DEF StoreDuplicate, AddRef, IsIndex, Meta
  <2>2. DOMAIN AddRef(mem[p], c) = DOMAIN mem[p]
    BY DEF AddRef
  <2>3. mem'[p] = AddRef(mem[p], c) /\ UNCHANGED <<packs, buf, nextPack>>
    BY <1>1, <1>2 DEF StoreDuplicate
  <2> QED
    BY <1>1, <2>1, <2>2, <2>3 DEF Stored, PacksKept
<1>3. CASE StoreBuffered(p, c)
  BY <1>1, <1>3 DEF StoreBuffered, Put, Stored, PacksKept
<1>4. CASE StoreFlushed(p, c)
  <2> DEFINE S == buf[p] \cup {c}
             new == [refs |-> 1, pack |-> nextPack[p]]
  <2>1. WritePack(p, S) /\ mem'[p] = Put(Relocate(mem[p], S, nextPack[p]), c, new)
    BY <1>1, <1>4 DEF StoreFlushed
  <2>2. /\ PacksKept
        /\ nextPack[p] \in DOMAIN packs' /\ packs'[nextPack[p]] = S
        /\ \A k \in DOMAIN packs' : k < nextPack'[p]
    BY <1>1, <2>1, WritePackKeeps
  <2>3. \A d \in DOMAIN Relocate(mem[p], S, nextPack[p]) :
           /\ Relocate(mem[p], S, nextPack[p])[d].pack \in DOMAIN packs'
           /\ d \in packs'[Relocate(mem[p], S, nextPack[p])[d].pack]
    <3>1. \A d \in DOMAIN mem[p] : Stored(mem[p], d) \/ d \in S
      BY <1>1
    <3> HIDE DEF S
    <3> QED
      BY <1>1, <2>2, <3>1, RelocateSound
  <2>4. new.pack = nextPack[p] /\ c \in S
    OBVIOUS
  <2>5. ASSUME NEW idx, NEW d \in DOMAIN Put(idx, c, new)
        PROVE  \/ d = c /\ Put(idx, c, new)[d] = new
               \/ d # c /\ d \in DOMAIN idx /\ Put(idx, c, new)[d] = idx[d]
    BY DEF Put
  <2> HIDE DEF S, new
  <2> QED
    BY <2>1, <2>2, <2>3, <2>4, <2>5
<1>5. CASE StoreChunkFails(p, c)
  BY <1>1, <1>5 DEF StoreChunkFails, Stored, PacksKept
<1> QED
  BY <1>2, <1>3, <1>4, <1>5 DEF StoreChunk

\* After flush_pending every entry is stored.
LEMMA FlushPendingSound ==
  ASSUME TypeOK, HandlesConsistent, NEW p \in Procs, pc[p] \in Handling, FlushPending(p)
  PROVE  /\ PacksKept
         /\ \A k \in DOMAIN packs' : k < nextPack'[p]
         /\ buf'[p] = {}
         /\ \A d \in DOMAIN mem'[p] :
               mem'[p][d].pack \in DOMAIN packs' /\ d \in packs'[mem'[p][d].pack]
<1>1. /\ \A d \in DOMAIN mem[p] : Stored(mem[p], d) \/ d \in buf[p]
      /\ \A k \in DOMAIN packs : k < nextPack[p]
      /\ DOMAIN mem = Procs /\ IsIndex(mem[p])
      /\ buf \in [Procs -> SUBSET Chunks] /\ nextPack \in [Procs -> Nat]
  BY TypePieces DEF HandlesConsistent, HandleSound, FreshIds, HandleOK
<1>2. CASE buf[p] = {}
  BY <1>1, <1>2 DEF FlushPending, Stored, PacksKept
<1>3. CASE buf[p] # {}
  <2>1. /\ WritePack(p, buf[p]) /\ buf'[p] = {}
        /\ mem'[p] = Relocate(mem[p], buf[p], nextPack[p])
    BY <1>1, <1>3 DEF FlushPending
  <2>2. /\ PacksKept
        /\ nextPack[p] \in DOMAIN packs' /\ packs'[nextPack[p]] = buf[p]
        /\ \A k \in DOMAIN packs' : k < nextPack'[p]
    BY <1>1, <2>1, WritePackKeeps
  <2> QED
    BY <1>1, <2>1, <2>2, RelocateSound
<1> QED
  BY <1>2, <1>3

-----------------------------------------------------------------------------
\* What a step leaves of its own process's part, of the index and of the packs:
\* the new conjuncts of the invariant, and that no pack is overwritten.

OwnKept(p) ==
  /\ IndexSound'
  /\ Own(p)'
  /\ \A k \in DOMAIN packs \cap DOMAIN packs' : packs'[k] = packs[k]

\* The index and packs stay: then only the process's own part matters.
LEMMA DiskKept ==
  ASSUME HandlesConsistent, UNCHANGED <<packs, index>>
  PROVE  /\ IndexSound'
         /\ \A k \in DOMAIN packs \cap DOMAIN packs' : packs'[k] = packs[k]
  BY DEF HandlesConsistent, IndexSound, Stored

\* The index stays and packs are only added.
LEMMA PacksAdded ==
  ASSUME HandlesConsistent, UNCHANGED index, PacksKept
  PROVE  /\ IndexSound'
         /\ \A k \in DOMAIN packs \cap DOMAIN packs' : packs'[k] = packs[k]
  BY DEF HandlesConsistent, IndexSound, Stored, PacksKept

\* A handle that has just been opened.
LEMMA OpenSound ==
  ASSUME TypeOK, HandlesConsistent, NEW p \in Procs, Open(p),
         UNCHANGED <<packs, index, moved>>,
         pc[p] \notin Holding, pc'[p] \in {"build", "delete", "auto_delete"}
  PROVE  OwnKept(p)
<1>1. PICK m \in MaxPackId : nextPack' = [nextPack EXCEPT ![p] = m + 1]
  BY DEF Open
<1>2. mem'[p] = index /\ buf'[p] = {} /\ nextPack'[p] = m + 1
  BY <1>1, TypePieces DEF Open, HandleOK
<1>3. \A k \in DOMAIN packs : k < m + 1
  BY TypePieces, MaxPackIdNat DEF MaxPackId, PacksOK
<1>4. moved[p] = EmptyMap
  BY DEF HandlesConsistent, CompactSound, Holding
<1>5. HandleSound(p)'
  BY <1>2 DEF HandleSound, HandlesConsistent, IndexSound, Stored
<1>6. FreshIds(p)' /\ CompactSound(p)'
  BY <1>2, <1>3, <1>4 DEF FreshIds, CompactSound
<1> QED
  BY <1>5, <1>6, DiskKept DEF OwnKept, Own

\* A process that only gets ready, or has just ended.
LEMMA IdleSound ==
  ASSUME HandlesConsistent, NEW p \in Procs, UNCHANGED <<packs, index>>,
         pc'[p] \in {"idle"} \cup Opening, moved'[p] = EmptyMap
  PROVE  OwnKept(p)
<1>1. Own(p)'
  BY DEF Own, HandleSound, FreshIds, CompactSound, Handling, Opening
<1> QED
  BY <1>1, DiskKept DEF OwnKept

\* The index is saved from a handle whose buffer is empty.
LEMMA SaveIndexSound ==
  ASSUME TypeOK, HandlesConsistent, NEW p \in Procs, pc[p] \in {"index", "delete"},
         SaveIndex(p), UNCHANGED <<packs, moved>>,
         \/ pc'[p] \in {"idle", "reopen"}
         \/ pc'[p] = "snapshot" /\ UNCHANGED <<mem, buf, nextPack>>
  PROVE  OwnKept(p)
<1>1. /\ \A c \in DOMAIN mem[p] : Stored(mem[p], c)
      /\ \A k \in DOMAIN packs : k < nextPack[p]
      /\ moved[p] = EmptyMap
  BY DEF HandlesConsistent, HandleSound, FreshIds, CompactSound, Handling
<1>2. IndexSound'
  BY <1>1 DEF SaveIndex, IndexSound, Stored
<1>3. Own(p)'
  BY <1>1 DEF Own, HandleSound, FreshIds, CompactSound, Handling, Stored
<1> QED
  BY <1>2, <1>3 DEF OwnKept

-----------------------------------------------------------------------------
\* The steps, command by command.

LEMMA PruneSound ==
  ASSUME TypeOK, HandlesConsistent, NEW p \in Procs, PruneStep(p), UNCHANGED compactVars
  PROVE  OwnKept(p)
<1> USE TypePieces DEF compactVars, diskVars, handleVars, controlVars, ControlOK
<1>0. moved'[p] = moved[p] /\ (pc[p] \notin {"compact_write", "compact_delete"} => moved[p] = EmptyMap)
  BY DEF HandlesConsistent, CompactSound
<1>1. CASE PruneList(p)
  BY <1>0, <1>1, IdleSound DEF PruneList, Start, Opening
<1>2. CASE PruneOpen(p) \/ AutoPruneOpen(p) \/ DeleteOpen(p)
  BY <1>2, OpenSound DEF PruneOpen, AutoPruneOpen, DeleteOpen, Goto, Start, Holding, Handling
<1>3. CASE DeleteOne(p)
  <2>1. PICK s : mem' = [mem EXCEPT ![p] = DropRefs(@, victims[p][s].tree)]
    BY <1>3 DEF DeleteOne
  <2>2. pc[p] = "delete" /\ UNCHANGED <<packs, index, buf, nextPack, pc, moved>>
    BY <1>3 DEF DeleteOne
  <2> DEFINE t == victims[p][s].tree
  <2>3. mem'[p] = DropRefs(mem[p], t) /\ IsIndex(mem[p])
    BY <2>1 DEF HandleOK
  <2>4. \A c \in DOMAIN DropRefs(mem[p], t) :
           c \in DOMAIN mem[p] /\ DropRefs(mem[p], t)[c].pack = mem[p][c].pack
    BY <2>3 DEF DropRefs, IsIndex, Meta
  <2> HIDE DEF t
  <2>5. HandleSound(p)'
    BY <2>2, <2>3, <2>4 DEF HandleSound, Handling, HandlesConsistent, Stored
  <2>6. FreshIds(p)' /\ CompactSound(p)'
    BY <2>2 DEF FreshIds, CompactSound, HandlesConsistent
  <2> QED
    BY <2>2, <2>5, <2>6, DiskKept DEF OwnKept, Own
<1>4. CASE DeleteSave(p)
  BY <1>4, SaveIndexSound DEF DeleteSave, EndCommand, Goto
<1> QED
  BY <1>1, <1>2, <1>3, <1>4 DEF PruneStep

LEMMA BuildSound ==
  ASSUME TypeOK, HandlesConsistent, NEW p \in Procs, UNCHANGED compactVars,
         NEW f \in Files, NEW c,
         \/ /\ c \in Chunks
            /\ StoreFile(p, f, c) \/ StoreThenSkip(p, f, c) \/ FailFile(p, f, c)
         \/ ReuseFile(p, f) \/ SkipFile(p, f) \/ RemoveFile(p, f)
  PROVE  OwnKept(p)
<1> USE TypePieces DEF HandleOK
<1>1. Building(p, f)
  BY DEF StoreFile, StoreThenSkip, FailFile, ReuseFile, SkipFile, RemoveFile
<1>2. pc[p] = "build" /\ UNCHANGED <<index, pc, moved>>
  BY <1>1 DEF Building, controlVars, compactVars
<1>3. CASE c \in Chunks /\ (StoreFile(p, f, c) \/ StoreThenSkip(p, f, c) \/ FailFile(p, f, c))
  <2>1. StoreChunk(p, c) \/ StoreChunkFails(p, c)
    BY <1>3 DEF StoreFile, StoreThenSkip, FailFile
  <2>2. Own(p)' /\ PacksKept
    BY <1>2, <1>3, <2>1, StoreChunkSound
    DEF Own, HandleSound, FreshIds, CompactSound, HandlesConsistent, Stored
  <2> QED
    BY <1>2, <2>2, PacksAdded DEF OwnKept
<1>4. CASE ReuseFile(p, f)
  <2>1. PICK d : mem' = [mem EXCEPT ![p] = IF d \in DOMAIN @ THEN AddRef(@, d) ELSE @]
    BY <1>4 DEF ReuseFile
  <2>2. DOMAIN mem'[p] = DOMAIN mem[p] /\ \A e \in DOMAIN mem[p] : mem'[p][e].pack = mem[p][e].pack
    BY <2>1 DEF AddRef, IsIndex, Meta
  <2>3. UNCHANGED <<packs, buf, nextPack>>
    BY <1>4 DEF ReuseFile
  <2>4. Own(p)'
    BY <1>2, <2>2, <2>3
    DEF Own, HandleSound, FreshIds, CompactSound, HandlesConsistent, Stored
  <2> QED
    BY <1>2, <2>3, <2>4, DiskKept DEF OwnKept
<1>5. CASE SkipFile(p, f) \/ RemoveFile(p, f)
  <2>1. UNCHANGED <<packs, mem, buf, nextPack>>
    BY <1>5 DEF SkipFile, RemoveFile
  <2>2. Own(p)'
    BY <1>2, <2>1 DEF Own, HandleSound, FreshIds, CompactSound, HandlesConsistent, Stored
  <2> QED
    BY <1>2, <2>1, <2>2, DiskKept DEF OwnKept
<1> QED
  BY <1>3, <1>4, <1>5

LEMMA ParitySound ==
  ASSUME TypeOK, HandlesConsistent, NEW p \in Procs, UNCHANGED compactVars,
         NEW c \in ParityChunks, StoreParity(p, c) \/ ParityFails(p, c)
  PROVE  OwnKept(p)
<1>1. pc[p] = "build" /\ UNCHANGED <<index, pc, moved>> /\ c \in Chunks
  BY BackupAssumption DEF StoreParity, ParityFails, FlushingGroup, controlVars, compactVars
<1>2. StoreChunk(p, c) \/ StoreChunkFails(p, c)
  BY DEF StoreParity, ParityFails
<1>3. Own(p)' /\ PacksKept
  BY <1>1, <1>2, StoreChunkSound
  DEF Own, HandleSound, FreshIds, CompactSound, HandlesConsistent, Stored
<1> QED
  BY <1>1, <1>3, PacksAdded DEF OwnKept

LEMMA FinishSound ==
  ASSUME TypeOK, HandlesConsistent, NEW p \in Procs, UNCHANGED compactVars,
         FinishFlush(p) \/ FinishIndex(p) \/ FinishSnapshot(p) \/ SysSnapshot(p)
  PROVE  OwnKept(p)
<1> USE TypePieces DEF compactVars, handleVars, ControlOK
<1>1. CASE FinishFlush(p)
  <2>1. /\ pc[p] \in {"build", "flush"} /\ pc'[p] = "index"
        /\ FlushPending(p) /\ UNCHANGED <<index, moved>>
    BY <1>1 DEF FinishFlush, Built, Goto
  <2>2. Own(p)' /\ PacksKept
    BY <2>1, FlushPendingSound
    DEF Own, HandleSound, FreshIds, CompactSound, Handling, HandlesConsistent, Stored
  <2> QED
    BY <2>1, <2>2, PacksAdded DEF OwnKept
<1>2. CASE FinishIndex(p)
  BY <1>2, SaveIndexSound DEF FinishIndex, EndCommand, Goto
<1>3. CASE FinishSnapshot(p)
  <2>1. moved'[p] = EmptyMap /\ pc'[p] = "idle" /\ UNCHANGED <<packs, index>>
    BY <1>3 DEF FinishSnapshot, SaveSnapshot, EndCommand, HandlesConsistent, CompactSound
  <2> QED
    BY <2>1, IdleSound
<1>4. CASE SysSnapshot(p)
  <2>1. /\ pc[p] = "build" /\ pc'[p] = "flush"
        /\ UNCHANGED <<packs, index, mem, buf, nextPack, moved>>
    BY <1>4 DEF SysSnapshot, SaveSnapshot, Goto, Built
  <2>2. Own(p)'
    BY <2>1 DEF Own, HandleSound, FreshIds, CompactSound, Handling, HandlesConsistent, Stored
  <2> QED
    BY <2>1, <2>2, DiskKept DEF OwnKept
<1> QED
  BY <1>1, <1>2, <1>3, <1>4

LEMMA BackupSound ==
  ASSUME TypeOK, HandlesConsistent, NEW p \in Procs, BackupStep(p), UNCHANGED compactVars
  PROVE  OwnKept(p)
<1> USE TypePieces DEF compactVars, diskVars, handleVars, ControlOK
<1>1. CASE \E command, root : BackupOpen(p, command, root)
  BY <1>1, OpenSound DEF BackupOpen, Start, Holding, Handling
<1>2. CASE BackupReopen(p) \/ IncOpen(p)
  BY <1>2, OpenSound DEF BackupReopen, IncOpen, Goto, Holding, Handling
<1>3. CASE IncList(p) \/ \E command, root : BackupOverLimit(p, command, root)
  <2>1. /\ pc[p] = "idle" /\ pc'[p] \in Opening /\ UNCHANGED <<packs, index, moved>>
    BY <1>3 DEF IncList, BackupOverLimit, Start, Opening
  <2>2. moved'[p] = EmptyMap
    BY <2>1 DEF HandlesConsistent, CompactSound
  <2> QED
    BY <2>1, <2>2, IdleSound
<1> QED
  BY <1>1, <1>2, <1>3, BuildSound, ParitySound, FinishSound DEF BackupStep

\* Taking the lock to compact: every live chunk of every pack is to be copied.
LEMMA CompactOpenSound ==
  ASSUME TypeOK, HandlesConsistent, NEW p \in Procs, CompactOpen(p)
  PROVE  OwnKept(p)
<1> USE TypePieces DEF HandleOK, ControlOK, CompactOK, PacksOK
<1>1. PICK m \in MaxPackId : nextPack' = [nextPack EXCEPT ![p] = m + 1]
  BY DEF CompactOpen
<1>2. /\ UNCHANGED <<packs, index, mem, buf, live, moved>>
      /\ pc[p] = "compact_open" /\ pc'[p] = "compact_write"
      /\ nextPack'[p] = m + 1 /\ old'[p] = DOMAIN packs
      /\ copies'[p] = {kc \in (DOMAIN packs) \X live[p] : kc[2] \in packs[kc[1]]}
  BY <1>1 DEF CompactOpen, Goto, diskVars
<1>3. FreshIds(p)' /\ HandleSound(p)'
  BY <1>2, MaxPackIdNat DEF FreshIds, HandleSound, Handling, MaxPackId
<1>4. moved'[p] = EmptyMap /\ DOMAIN EmptyMap = {}
  BY <1>2 DEF HandlesConsistent, CompactSound, EmptyMap
<1>5. CompactSound(p)'
  <2>1. \A k \in DOMAIN packs : \A c \in live[p] \cap packs[k] : <<k, c>> \in copies'[p]
    BY <1>2
  <2> QED
    BY <1>2, <1>4, <2>1 DEF CompactSound
<1> QED
  BY <1>2, <1>3, <1>5, DiskKept DEF OwnKept, Own

\* Copying a batch into a new pack.
LEMMA CompactWriteSound ==
  ASSUME TypeOK, HandlesConsistent, NEW p \in Procs, CompactWrite(p)
  PROVE  OwnKept(p)
<1> USE TypePieces DEF HandleOK, ControlOK, CompactOK, PacksOK
<1>1. PICK batch \in SUBSET copies[p] :
        /\ WritePack(p, {kc[2] : kc \in batch})
        /\ moved' = [moved EXCEPT ![p] =
             [c \in DOMAIN @ \cup {kc[2] : kc \in batch} |->
                IF c \in {kc[2] : kc \in batch} THEN nextPack[p] ELSE @[c]]]
        /\ copies' = [copies EXCEPT ![p] = @ \ batch]
  BY DEF CompactWrite
<1> DEFINE S == {kc[2] : kc \in batch}
<1>2. /\ pc[p] = "compact_write"
      /\ UNCHANGED <<index, pc, mem, buf, live, old>>
  BY DEF CompactWrite, controlVars
<1>3. /\ \A k \in DOMAIN packs : k < nextPack[p]
      /\ \A c \in DOMAIN moved[p] :
           moved[p][c] \in DOMAIN packs \ old[p] /\ c \in packs[moved[p][c]]
      /\ \A k \in old[p] \cap DOMAIN packs : \A c \in live[p] \cap packs[k] :
           <<k, c>> \in copies[p] \/ c \in DOMAIN moved[p]
      /\ old[p] \subseteq DOMAIN packs
  BY <1>2 DEF HandlesConsistent, FreshIds, CompactSound
<1>4. /\ PacksKept
      /\ nextPack[p] \in DOMAIN packs' /\ packs'[nextPack[p]] = S
      /\ nextPack[p] \notin DOMAIN packs
      /\ \A k \in DOMAIN packs' : k < nextPack'[p]
  BY <1>1, <1>3, WritePackKeeps
<1>5. \A k, c : <<k, c>> \in batch => c \in S
  OBVIOUS
<1> HIDE DEF S
<1>6. /\ DOMAIN moved'[p] = DOMAIN moved[p] \cup S
      /\ \A c \in DOMAIN moved'[p] :
           moved'[p][c] = IF c \in S THEN nextPack[p] ELSE moved[p][c]
      /\ copies'[p] = copies[p] \ batch
  BY <1>1 DEF S
<1>7. \A c \in DOMAIN moved'[p] :
        moved'[p][c] \in DOMAIN packs' \ old[p] /\ c \in packs'[moved'[p][c]]
  BY <1>3, <1>4, <1>6 DEF PacksKept
<1>8. \A k \in old[p] \cap DOMAIN packs' : \A c \in live[p] \cap packs'[k] :
        <<k, c>> \in copies'[p] \/ c \in DOMAIN moved'[p]
  BY <1>3, <1>4, <1>5, <1>6 DEF PacksKept
<1>9. old[p] \subseteq DOMAIN packs'
  BY <1>3, <1>4 DEF PacksKept
<1>10. CompactSound(p)'
  BY <1>2, <1>7, <1>8, <1>9 DEF CompactSound
<1>11. HandleSound(p)' /\ FreshIds(p)'
  BY <1>2, <1>4 DEF HandleSound, FreshIds, Handling
<1> QED
  BY <1>2, <1>4, <1>10, <1>11, PacksAdded DEF OwnKept, Own

\* Saving the index that points into the new packs.
LEMMA CompactIndexSound ==
  ASSUME TypeOK, HandlesConsistent, NEW p \in Procs, CompactIndex(p)
  PROVE  OwnKept(p)
<1> USE TypePieces DEF ControlOK
<1>1. /\ pc[p] = "compact_write" /\ pc'[p] = "compact_delete" /\ copies[p] = {}
      /\ UNCHANGED <<packs, mem, buf, nextPack, old, moved>>
      /\ index' = MovedIndex(p)
  BY DEF CompactIndex, Goto, handleVars, compactVars
<1>2. ASSUME NEW c \in DOMAIN index'
      PROVE  /\ index'[c].pack \in DOMAIN packs \ old[p]
             /\ c \in packs[index'[c].pack]
  <2>1. c \in DOMAIN index /\ c \in live[p] /\ index[c] \in Meta
    BY <1>1 DEF MovedIndex, IsIndex
  <2>2. Stored(index, c)
    BY <2>1 DEF HandlesConsistent, IndexSound
  <2>3. CASE c \in DOMAIN moved[p]
    <3>1. index'[c].pack = moved[p][c]
      BY <1>1, <2>1, <2>3 DEF MovedIndex, Meta
    <3> QED
      BY <1>1, <2>3, <3>1 DEF HandlesConsistent, CompactSound
  <2>4. CASE c \notin DOMAIN moved[p]
    <3>1. index'[c] = index[c]
      BY <1>1, <2>1, <2>4 DEF MovedIndex
    <3>2. index[c].pack \notin old[p]
      BY <1>1, <2>1, <2>2, <2>4 DEF HandlesConsistent, CompactSound, Stored
    <3> QED
      BY <2>2, <3>1, <3>2 DEF Stored
  <2> QED
    BY <2>3, <2>4
<1>3. IndexSound'
  BY <1>1, <1>2 DEF IndexSound, Stored
<1>4. Own(p)'
  BY <1>1, <1>2 DEF Own, HandleSound, FreshIds, CompactSound, Handling
<1> QED
  BY <1>1, <1>3, <1>4 DEF OwnKept

\* Deleting an old pack.
LEMMA CompactDeleteSound ==
  ASSUME TypeOK, HandlesConsistent, NEW p \in Procs, CompactDelete(p)
  PROVE  OwnKept(p)
<1> USE TypePieces DEF ControlOK, CompactOK
<1>1. PICK k \in old[p] : packs' = Remove(packs, k) /\ old' = [old EXCEPT ![p] = @ \ {k}]
  BY DEF CompactDelete
<1>2. /\ pc[p] = "compact_delete" /\ UNCHANGED <<index, pc, mem, buf, nextPack, moved>>
      /\ old'[p] = old[p] \ {k}
  BY <1>1 DEF CompactDelete, handleVars, controlVars
<1>3. DOMAIN packs' = DOMAIN packs \ {k} /\ \A j \in DOMAIN packs' : packs'[j] = packs[j]
  BY <1>1 DEF Remove, Restrict
<1>4. \A c \in DOMAIN index : index[c].pack \notin old[p]
  BY <1>2 DEF HandlesConsistent, CompactSound
<1>5. IndexSound'
  BY <1>2, <1>3, <1>4 DEF HandlesConsistent, IndexSound, Stored
<1>6. Own(p)'
  BY <1>2, <1>4 DEF Own, HandleSound, FreshIds, CompactSound, Handling
<1> QED
  BY <1>3, <1>5, <1>6 DEF OwnKept

LEMMA CompactStepSound ==
  ASSUME TypeOK, HandlesConsistent, NEW p \in Procs, CompactStep(p)
  PROVE  OwnKept(p)
<1> USE TypePieces DEF ControlOK, CompactOK, diskVars
<1>1. CASE CompactCollect(p)
  <2>1. pc[p] = "idle" /\ pc'[p] = "compact_open" /\ UNCHANGED <<packs, index, moved>>
    BY <1>1 DEF CompactCollect, Start
  <2>2. moved'[p] = EmptyMap
    BY <2>1 DEF HandlesConsistent, CompactSound
  <2> QED
    BY <2>1, <2>2, IdleSound DEF Opening
<1>2. CASE CompactNothing(p) \/ CompactDone(p)
  BY <1>2, IdleSound DEF CompactNothing, CompactDone, EndCommand, ForgetCompact
<1> QED
  BY <1>1, <1>2, CompactOpenSound, CompactWriteSound, CompactIndexSound, CompactDeleteSound
  DEF CompactStep

LEMMA FailSound ==
  ASSUME TypeOK, HandlesConsistent, NEW p \in Procs, OpenFails(p) \/ Crash(p)
  PROVE  OwnKept(p)
<1>1. pc'[p] = "idle" /\ moved'[p] = EmptyMap /\ UNCHANGED <<packs, index>>
  BY TypePieces DEF OpenFails, Crash, EndCommand, ForgetAll, ForgetCompact, diskVars,
     ControlOK, CompactOK
<1> QED
  BY <1>1, IdleSound

-----------------------------------------------------------------------------
\* A step of a process, of whichever command, keeps the invariant and
\* overwrites no pack.
LEMMA StepConsistent ==
  ASSUME TypeOK, HandlesConsistent, NEW p \in Procs, Step(p) \/ Crash(p)
  PROVE  /\ HandlesConsistent'
         /\ \A k \in DOMAIN packs \cap DOMAIN packs' : packs'[k] = packs[k]
<1>1. OwnKept(p)
  BY PruneSound, BackupSound, CompactStepSound, FailSound DEF Step
<1>2. \A q \in Procs \ {p} : Own(q)'
  BY OthersKeep, StepIsLocal, DiskNeedsLock
<1>3. LockHeld'
  BY LockHeldKept
<1> QED
  BY <1>1, <1>2, <1>3 DEF OwnKept, Own, HandlesConsistent

LEMMA NextConsistent ==
  TypeOK /\ HandlesConsistent /\ [Next]_vars => HandlesConsistent'
<1> SUFFICES ASSUME TypeOK, HandlesConsistent, [Next]_vars PROVE HandlesConsistent'
  OBVIOUS
<1>1. CASE Next
  BY <1>1, StepConsistent DEF Next
<1>2. CASE UNCHANGED vars
  BY <1>2 DEF vars, repositoryVars, diskVars, handleVars, controlVars, backupVars,
     compactVars, HandlesConsistent, IndexSound, LockHeld, HandleSound, FreshIds,
     CompactSound, Stored
<1> QED
  BY <1>1, <1>2

\* The handles of all processes, the lock, the packs and the saved index fit
\* together in every state.
THEOREM HandlesAlwaysConsistent == Spec => []HandlesConsistent
  BY InitConsistent, NextConsistent, TypeCorrect, PTL DEF Spec

\* The saved index never lies: whatever commands run concurrently, wherever they
\* crash and whichever pack writes fail, each entry of chunk_index.json names a
\* pack file that holds the chunk.
THEOREM IndexAlwaysSound == Spec => []IndexSound
<1>1. HandlesConsistent => IndexSound
  BY DEF HandlesConsistent
<1> QED
  BY <1>1, HandlesAlwaysConsistent, PTL

\* No command ever writes a pack file under the id of one that exists.
THEOREM PacksAlwaysWriteOnce == Spec => PacksWriteOnce
<1> DEFINE Once == \A k \in DOMAIN packs \cap DOMAIN packs' : packs'[k] = packs[k]
<1>1. TypeOK /\ HandlesConsistent /\ [Next]_vars => [Once]_packs
  <2> SUFFICES ASSUME TypeOK, HandlesConsistent, [Next]_vars PROVE [Once]_packs
    OBVIOUS
  <2>1. CASE Next
    BY <2>1, StepConsistent DEF Next
  <2>2. CASE UNCHANGED vars
    BY <2>2 DEF vars, repositoryVars, diskVars
  <2> QED
    BY <2>1, <2>2
<1> QED
  BY <1>1, TypeCorrect, HandlesAlwaysConsistent, PTL DEF Spec, PacksWriteOnce

-----------------------------------------------------------------------------
\* The order of the stages.
LEMMA StageOrder ==
  /\ Stage("idle") = 0
  /\ Stage("snapshot") = 1 /\ Stage("auto_delete") = 1 /\ Stage("compact_delete") = 1
  /\ Stage("index") = 2 /\ Stage("compact_write") = 2
  /\ Stage("flush") = 3 /\ Stage("compact_open") = 3
  /\ Stage("build") = 4
  /\ Stage("reopen") = 5 /\ Stage("inc_open") = 5
  /\ Stage("delete") = 6
  /\ Stage("prune_open") = 7 /\ Stage("auto_prune") = 7
  BY DEF Stage

LEMMA OnlyIdleIsLast ==
  ASSUME NEW label \in Labels \ {"idle"}
  PROVE  Stage("idle") < Stage(label)
  BY StageOrder DEF Labels, Opening

\* A step changes the lists of its own process only.
LEMMA ListsAreLocal ==
  ASSUME TypeOK, NEW p \in Procs, Step(p) \/ Crash(p), NEW q \in Procs \ {p}
  PROVE  todo'[q] = todo[q] /\ victims'[q] = victims[q] /\ group'[q] = group[q]
<1> USE TypePieces DEF VictimsOK, BackupOK, backupVars
<1>1. CASE OpenFails(p) \/ Crash(p)
  BY <1>1 DEF OpenFails, Crash, ForgetAll, ForgetVictims, ForgetBackup
<1>2. CASE PruneStep(p) /\ UNCHANGED <<backupVars, compactVars>>
  BY <1>2 DEF PruneStep, PruneList, AutoPruneOpen, PruneOpen, DeleteOpen, DeleteOne, DeleteSave
<1>3. CASE BackupStep(p) /\ UNCHANGED compactVars
  <2>1. CASE \E command, root : BackupOpen(p, command, root) \/ BackupOverLimit(p, command, root)
    BY <1>3, <2>1 DEF BackupOpen, BackupOverLimit
  <2>2. CASE BackupReopen(p) \/ IncList(p) \/ IncOpen(p)
    BY <1>3, <2>2 DEF BackupReopen, IncList, IncOpen
  <2>3. CASE \E f, c : StoreFile(p, f, c) \/ StoreThenSkip(p, f, c)
    BY <1>3, <2>3 DEF StoreFile, StoreThenSkip, Building, JoinGroup
  <2>4. CASE \E f, c : FailFile(p, f, c) \/ ReuseFile(p, f) \/ SkipFile(p, f) \/ RemoveFile(p, f)
    BY <1>3, <2>4 DEF FailFile, ReuseFile, SkipFile, RemoveFile, Building
  <2>5. CASE \E c : StoreParity(p, c) \/ ParityFails(p, c)
    BY <1>3, <2>5 DEF StoreParity, ParityFails, FlushingGroup
  <2>6. CASE FinishFlush(p) \/ SysSnapshot(p) \/ FinishIndex(p) \/ FinishSnapshot(p)
    BY <1>3, <2>6 DEF FinishFlush, SysSnapshot, FinishIndex, FinishSnapshot, ForgetBackup
  <2> QED
    BY <1>3, <2>1, <2>2, <2>3, <2>4, <2>5, <2>6 DEF BackupStep
<1>4. CASE CompactStep(p) /\ UNCHANGED <<victims, backupVars>>
  BY <1>4
<1> QED
  BY <1>1, <1>2, <1>3, <1>4 DEF Step

LEMMA WorkIsLocal ==
  ASSUME TypeOK, NEW p \in Procs, Step(p) \/ Crash(p), NEW q \in Procs \ {p}
  PROVE  pc'[q] = pc[q] /\ Work(q)' = Work(q) /\ group'[q] = group[q]
<1>1. Unmoved(q)
  BY StepIsLocal
<1>2. todo'[q] = todo[q] /\ victims'[q] = victims[q] /\ group'[q] = group[q]
  BY ListsAreLocal
<1> QED
  BY <1>1, <1>2 DEF Unmoved, Work

-----------------------------------------------------------------------------
\* Every step of a command takes it to a later stage or leaves it less to do.

LEMMA PruneAdvances ==
  ASSUME TypeOK, NEW p \in Procs, PruneStep(p)
  PROVE  (pc[p] = "idle" /\ started' = started + 1) \/ Advances(p)
<1> USE TypePieces DEF ControlOK
<1>1. CASE PruneList(p) \/ AutoPruneOpen(p)
  BY <1>1 DEF PruneList, AutoPruneOpen, Start
<1>2. CASE PruneOpen(p) \/ DeleteOpen(p)
  <2>1. pc[p] \in {"prune_open", "auto_prune"} /\ pc'[p] = "delete"
    BY <1>2 DEF PruneOpen, DeleteOpen, Goto
  <2> QED
    BY <2>1, StageOrder DEF Advances
<1>3. CASE DeleteOne(p)
  <2>1. PICK s \in DOMAIN victims[p] : victims' = [victims EXCEPT ![p] = Remove(@, s)]
    BY <1>3 DEF DeleteOne, NewestFirst, OldestFirst
  <2>2. DOMAIN victims'[p] = DOMAIN victims[p] \ {s}
    BY <2>1 DEF VictimsOK, Remove, Restrict
  <2>3. pc[p] = "delete" /\ pc' = pc
    BY <1>3 DEF DeleteOne, controlVars
  <2>4. Work(p) = DOMAIN victims[p] /\ Work(p)' = DOMAIN victims'[p]
    BY <2>3 DEF Work
  <2> QED
    BY <2>1, <2>2, <2>3, <2>4 DEF Advances
<1>4. CASE DeleteSave(p)
  <2>1. pc[p] = "delete" /\ pc'[p] \in {"idle", "reopen"}
    BY <1>4 DEF DeleteSave, EndCommand, Goto
  <2> QED
    BY <2>1, StageOrder DEF Advances
<1> QED
  BY <1>1, <1>2, <1>3, <1>4 DEF PruneStep

LEMMA BackupAdvances ==
  ASSUME TypeOK, NEW p \in Procs, BackupStep(p)
  PROVE  (pc[p] = "idle" /\ started' = started + 1) \/ Advances(p)
<1> USE TypePieces DEF ControlOK
<1>1. CASE \/ \E command, root : BackupOpen(p, command, root) \/ BackupOverLimit(p, command, root)
           \/ IncList(p)
  BY <1>1 DEF BackupOpen, BackupOverLimit, IncList, Start
<1>2. CASE BackupReopen(p) \/ IncOpen(p)
  <2>1. pc[p] \in {"reopen", "inc_open"} /\ pc'[p] = "build"
    BY <1>2 DEF BackupReopen, IncOpen, Goto
  <2> QED
    BY <2>1, StageOrder DEF Advances
<1>3. CASE \E f : Building(p, f)
  <2>1. PICK f : Building(p, f)
    BY <1>3
  <2>2. pc[p] = "build" /\ pc' = pc /\ f \in todo[p] /\ todo'[p] = todo[p] \ {f}
    BY <2>1 DEF Building, controlVars, BackupOK
  <2>3. Work(p) = todo[p] /\ Work(p)' = todo'[p]
    BY <2>2 DEF Work
  <2> QED
    BY <2>2, <2>3 DEF Advances
<1>7. CASE FlushingGroup(p) /\ \E c : StoreParity(p, c) \/ ParityFails(p, c)
  <2>1. pc[p] = "build" /\ pc' = pc /\ todo' = todo /\ group[p].due > 0
    BY <1>7 DEF FlushingGroup, controlVars
  <2>2. group'[p].due < group[p].due
    <3>1. group[p] \in Groups /\ DOMAIN group = Procs
      BY DEF BackupOK
    <3> QED
      BY <1>7, <2>1, <3>1 DEF StoreParity, ParityFails, NoGroup, Groups
  <2>3. Work(p) = todo[p] /\ Work(p)' = todo'[p]
    BY <2>1 DEF Work
  <2> QED
    BY <2>1, <2>2, <2>3 DEF Advances
<1>4. CASE FinishFlush(p)
  <2>1. pc[p] \in {"build", "flush"} /\ pc'[p] = "index"
    BY <1>4 DEF FinishFlush, Built, Goto
  <2> QED
    BY <2>1, StageOrder DEF Advances
<1>5. CASE FinishIndex(p)
  <2>1. pc[p] = "index" /\ pc'[p] \in {"idle", "snapshot"}
    BY <1>5 DEF FinishIndex, EndCommand, Goto
  <2> QED
    BY <2>1, StageOrder DEF Advances
<1>6. CASE FinishSnapshot(p) \/ SysSnapshot(p)
  <2>1. \/ pc[p] = "snapshot" /\ pc'[p] = "idle"
        \/ pc[p] = "build" /\ pc'[p] = "flush"
    BY <1>6 DEF FinishSnapshot, SysSnapshot, Built, EndCommand, Goto
  <2> QED
    BY <2>1, StageOrder DEF Advances
<1> QED
  BY <1>1, <1>2, <1>3, <1>4, <1>5, <1>6, <1>7 DEF BackupStep, StoreFile, StoreThenSkip,
     FailFile, ReuseFile, SkipFile, RemoveFile, StoreParity, ParityFails

LEMMA CompactAdvances ==
  ASSUME TypeOK, NEW p \in Procs, CompactStep(p)
  PROVE  (pc[p] = "idle" /\ started' = started + 1) \/ Advances(p)
<1> USE TypePieces DEF ControlOK, CompactOK
<1>1. CASE CompactCollect(p)
  BY <1>1 DEF CompactCollect, Start
<1>2. CASE CompactOpen(p) \/ CompactIndex(p)
  <2>1. \/ pc[p] = "compact_open" /\ pc'[p] = "compact_write"
        \/ pc[p] = "compact_write" /\ pc'[p] = "compact_delete"
    BY <1>2 DEF CompactOpen, CompactIndex, Goto
  <2> QED
    BY <2>1, StageOrder DEF Advances
<1>3. CASE CompactNothing(p) \/ CompactDone(p)
  <2>1. pc[p] \in {"compact_open", "compact_delete"} /\ pc'[p] = "idle"
    BY <1>3 DEF CompactNothing, CompactDone, EndCommand
  <2> QED
    BY <2>1, StageOrder DEF Advances
<1>4. CASE CompactWrite(p)
  <2>1. PICK batch \in (SUBSET copies[p]) \ {{}} : copies' = [copies EXCEPT ![p] = @ \ batch]
    BY <1>4 DEF CompactWrite
  <2>2. pc[p] = "compact_write" /\ pc' = pc /\ copies'[p] = copies[p] \ batch
    BY <1>4, <2>1 DEF CompactWrite, controlVars
  <2>3. Work(p) = copies[p] /\ Work(p)' = copies'[p]
    BY <2>2 DEF Work
  <2> QED
    BY <2>2, <2>3 DEF Advances
<1>5. CASE CompactDelete(p)
  <2>1. PICK k \in old[p] : old' = [old EXCEPT ![p] = @ \ {k}]
    BY <1>5 DEF CompactDelete
  <2>2. pc[p] = "compact_delete" /\ pc' = pc /\ old'[p] = old[p] \ {k}
    BY <1>5, <2>1 DEF CompactDelete, controlVars
  <2>3. Work(p) = old[p] /\ Work(p)' = old'[p]
    BY <2>2 DEF Work
  <2> QED
    BY <2>2, <2>3 DEF Advances
<1> QED
  BY <1>1, <1>2, <1>3, <1>4, <1>5 DEF CompactStep

LEMMA StepAdvances ==
  ASSUME TypeOK, NEW p \in Procs, Step(p) \/ Crash(p)
  PROVE  (pc[p] = "idle" /\ started' = started + 1) \/ Advances(p)
<1>1. CASE OpenFails(p) \/ Crash(p)
  <2>1. pc[p] \in Labels \ {"idle"} /\ pc'[p] = "idle"
    BY <1>1, TypePieces DEF OpenFails, Crash, EndCommand, ControlOK, Opening
  <2> QED
    BY <2>1, OnlyIdleIsLast DEF Advances
<1> QED
  BY <1>1, PruneAdvances, BackupAdvances, CompactAdvances DEF Step

\* No command goes round in circles.
THEOREM CommandsAlwaysAdvance == Spec => CommandsAdvance
<1> DEFINE Forward ==
      \E p \in Procs :
        /\ (pc[p] = "idle" /\ started' = started + 1) \/ Advances(p)
        /\ \A q \in Procs \ {p} :
             pc'[q] = pc[q] /\ Work(q)' = Work(q) /\ group'[q] = group[q]
<1>1. TypeOK /\ [Next]_vars => [Forward]_vars
  BY StepAdvances, WorkIsLocal DEF Next
<1> QED
  BY <1>1, TypeCorrect, PTL DEF Spec, CommandsAdvance

-----------------------------------------------------------------------------
\* The lists are finite, so that a command has finitely many steps.

\* What the lists are made of.
Finite ==
  /\ IsFiniteSet(DOMAIN packs)
  /\ \A p \in Procs : /\ IsFiniteSet(live[p])
                      /\ IsFiniteSet(old[p])
                      /\ IsFiniteSet(copies[p])


\* A snapshot tree has finitely many chunks, and there are finitely many.
LEMMA ReferencedFinite == ASSUME TypeOK PROVE IsFiniteSet(Referenced)
<1> DEFINE used == [s \in DOMAIN snaps |-> ChunksOf(snaps[s].tree)]
           sets == {used[s] : s \in DOMAIN snaps}
<1>1. IsFiniteSet(DOMAIN snaps)
  <2>1. clock \in Nat /\ DOMAIN snaps \in SUBSET (1 .. clock)
    BY TypePieces DEF SnapsOK, IsSnapshots
  <2>2. IsFiniteSet(1 .. clock)
    BY <2>1, FS_Interval
  <2> QED
    BY <2>1, <2>2, FS_Subset
<1>2. ASSUME NEW s \in DOMAIN snaps PROVE IsFiniteSet(used[s])
  <2> DEFINE t == snaps[s].tree
  <2>1. DOMAIN t \in SUBSET Files
    BY TypePieces DEF SnapsOK, IsSnapshots, Tree
  <2>2. IsFiniteSet(DOMAIN t)
    BY <2>1, FS_Subset, RepositoryAssumption
  <2>3. [f \in DOMAIN t |-> t[f]] \in Surjection(DOMAIN t, ChunksOf(t))
    BY DEF ChunksOf, Surjection
  <2>4. IsFiniteSet(ChunksOf(t))
    BY <2>2, <2>3, FS_Surjection
  <2> QED
    BY <2>4
<1>3. used \in Surjection(DOMAIN snaps, sets)
  BY DEF Surjection
<1>4. IsFiniteSet(sets)
  BY <1>1, <1>3, FS_Surjection
<1>5. \A S \in sets : IsFiniteSet(S)
  BY <1>2
<1>6. IsFiniteSet(UNION sets)
  BY <1>4, <1>5, FS_UNION
<1>7. UNION sets = Referenced
  BY DEF Referenced
<1> QED
  BY <1>6, <1>7

\* A step adds one pack at most.
LEMMA OnePackAdded ==
  ASSUME NEW p \in Procs, Step(p) \/ Crash(p)
  PROVE  DOMAIN packs' \subseteq DOMAIN packs \cup {nextPack[p]}
<1> USE DEF diskVars, handleVars, WritePack, Put
<1>1. CASE OpenFails(p) \/ Crash(p)
  BY <1>1 DEF OpenFails, Crash
<1>2. CASE PruneStep(p)
  BY <1>2 DEF PruneStep, PruneList, AutoPruneOpen, PruneOpen, DeleteOpen, DeleteOne, DeleteSave
<1>3. CASE BackupStep(p)
  <2>1. CASE \E f, c : StoreFile(p, f, c) \/ StoreThenSkip(p, f, c) \/ FailFile(p, f, c)
    BY <2>1 DEF StoreFile, StoreThenSkip, FailFile, StoreChunk, StoreDuplicate, StoreBuffered,
       StoreFlushed, StoreChunkFails
  <2>2. CASE FinishFlush(p)
    BY <2>2 DEF FinishFlush, FlushPending
  <2>3. CASE \E c : StoreParity(p, c) \/ ParityFails(p, c)
    BY <2>3 DEF StoreParity, ParityFails, StoreChunk, StoreDuplicate, StoreBuffered,
       StoreFlushed, StoreChunkFails
  <2> QED
    BY <1>3, <2>1, <2>2, <2>3 DEF BackupStep, BackupOpen, BackupOverLimit, BackupReopen, IncList,
       IncOpen, ReuseFile, SkipFile, RemoveFile, FinishIndex, FinishSnapshot, SysSnapshot,
       SaveSnapshot
<1>4. CASE CompactStep(p)
  <2>1. CASE CompactDelete(p)
    BY <2>1 DEF CompactDelete, Remove, Restrict
  <2>2. CASE CompactWrite(p)
    BY <2>2 DEF CompactWrite
  <2> QED
    BY <1>4, <2>1, <2>2 DEF CompactStep, CompactCollect, CompactOpen, CompactNothing,
       CompactIndex, CompactDone
<1> QED
  BY <1>1, <1>2, <1>3, <1>4 DEF Step

\* The sets a compaction collects are finite.
LEMMA CompactListsFinite ==
  ASSUME TypeOK, Finite, NEW p \in Procs, Step(p) \/ Crash(p)
  PROVE  IsFiniteSet(live'[p]) /\ IsFiniteSet(old'[p]) /\ IsFiniteSet(copies'[p])
<1> USE TypePieces DEF CompactOK, Finite, compactVars
<1>0. IsFiniteSet({})
  BY FS_EmptySet
<1>1. CASE UNCHANGED compactVars
  BY <1>1
<1>2. CASE ForgetCompact(p)
  BY <1>0, <1>2 DEF ForgetCompact
<1>3. CASE CompactCollect(p)
  BY <1>3, ReferencedFinite DEF CompactCollect
<1>4. CASE CompactOpen(p)
  <2>1. /\ UNCHANGED live /\ old'[p] = DOMAIN packs
        /\ copies'[p] = {kc \in (DOMAIN packs) \X live[p] : kc[2] \in packs[kc[1]]}
    BY <1>4 DEF CompactOpen
  <2>2. IsFiniteSet((DOMAIN packs) \X live[p])
    BY FS_Product
  <2>3. copies'[p] \in SUBSET ((DOMAIN packs) \X live[p])
    BY <2>1
  <2>4. IsFiniteSet(copies'[p])
    BY <2>2, <2>3, FS_Subset
  <2> QED
    BY <2>1, <2>4
<1>5. CASE CompactWrite(p) \/ CompactIndex(p) \/ CompactDelete(p)
  <2>1. /\ UNCHANGED live /\ old'[p] \in SUBSET old[p] /\ copies'[p] \in SUBSET copies[p]
    BY <1>5 DEF CompactWrite, CompactIndex, CompactDelete
  <2> QED
    BY <2>1, FS_Subset
<1> QED
  BY <1>1, <1>2, <1>3, <1>4, <1>5
  DEF Step, OpenFails, Crash, ForgetAll, CompactStep, CompactNothing, CompactDone

LEMMA NextFinite == TypeOK /\ Finite /\ [Next]_vars => Finite'
<1> SUFFICES ASSUME TypeOK, Finite, [Next]_vars PROVE Finite'
  OBVIOUS
<1>1. CASE Next
  <2>1. PICK p \in Procs : Step(p) \/ Crash(p)
    BY <1>1 DEF Next
  <2>2. IsFiniteSet(DOMAIN packs \cup {nextPack[p]})
    BY FS_AddElement, Zenon DEF Finite
  <2>3. DOMAIN packs' \in SUBSET (DOMAIN packs \cup {nextPack[p]})
    BY <2>1, OnePackAdded
  <2>4. IsFiniteSet(DOMAIN packs')
    BY <2>2, <2>3, FS_Subset
  <2>5. ASSUME NEW q \in Procs
        PROVE  IsFiniteSet(live'[q]) /\ IsFiniteSet(old'[q]) /\ IsFiniteSet(copies'[q])
    <3>1. CASE q = p
      BY <2>1, <3>1, CompactListsFinite
    <3>2. CASE q # p
      <4>1. Unmoved(q)
        BY <2>1, <3>2, StepIsLocal
      <4> QED
        BY <4>1 DEF Unmoved, Finite
    <3> QED
      BY <3>1, <3>2
  <2> QED
    BY <2>4, <2>5 DEF Finite
<1>2. CASE UNCHANGED vars
  BY <1>2 DEF vars, repositoryVars, diskVars, compactVars, Finite
<1> QED
  BY <1>1, <1>2

\* What a stage has left to do is finite, so that a command that advances with
\* every step takes finitely many.
THEOREM WorkAlwaysFinite == Spec => [](\A p \in Procs : IsFiniteSet(Work(p)))
<1>1. Init => Finite
  BY FS_EmptySet DEF Init, RepositoryInit, Finite, EmptyMap
<1>2. TypeOK /\ Finite => \A p \in Procs : IsFiniteSet(Work(p))
  <2> SUFFICES ASSUME TypeOK, Finite, NEW p \in Procs PROVE IsFiniteSet(Work(p))
    OBVIOUS
  <2>1. IsFiniteSet(todo[p])
    <3>1. todo[p] \in SUBSET Files
      BY TypePieces DEF BackupOK
    <3> QED
      BY <3>1, FS_Subset, RepositoryAssumption
  <2>2. IsFiniteSet(DOMAIN victims[p])
    <3>1. clock \in Nat /\ DOMAIN victims[p] \in SUBSET (1 .. clock)
      BY TypePieces DEF VictimsOK, SnapsOK, IsSnapshots
    <3>2. IsFiniteSet(1 .. clock)
      BY <3>1, FS_Interval
    <3> QED
      BY <3>1, <3>2, FS_Subset
  <2>3. IsFiniteSet({})
    BY FS_EmptySet
  <2> QED
    BY <2>1, <2>2, <2>3 DEF Work, Finite
<1> QED
  BY <1>1, <1>2, NextFinite, TypeCorrect, PTL DEF Spec

=============================================================================
