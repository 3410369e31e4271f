--------------------------- MODULE BackupShieldTypes ---------------------------
(***************************************************************************)
(* Type correctness of BackupShield, for any number of processes, files,   *)
(* chunks and commands: Spec => []TypeOK.                                  *)
(***************************************************************************)
EXTENDS BackupShield, FiniteSetTheorems, TLAPS

-----------------------------------------------------------------------------
\* What the operators on indexes, trees and snapshots return.

\* The empty map is an index, a tree and a set of snapshots.
LEMMA EmptyMapTypes ==
  IsIndex(EmptyMap) /\ (\A n \in Nat : IsSnapshots(EmptyMap, n)) /\ Tree(EmptyMap)
  BY DEF EmptyMap, IsIndex, IsSnapshots, Tree

\* Adding or replacing one entry keeps an index an index (upsert).
LEMMA PutIndex ==
  ASSUME NEW idx, IsIndex(idx), NEW c \in Chunks, NEW m \in Meta
  PROVE  IsIndex(Put(idx, c, m))
  BY DEF IsIndex, Put

\* Counting a further reference keeps an index an index.
LEMMA AddRefIndex ==
  ASSUME NEW idx, IsIndex(idx), NEW c \in DOMAIN idx
  PROVE  IsIndex(AddRef(idx, c))
  BY DEF IsIndex, AddRef, Meta

\* Moving entries to another pack keeps an index an index.
LEMMA RelocateIndex ==
  ASSUME NEW idx, IsIndex(idx), NEW S, NEW k \in Nat
  PROVE  IsIndex(Relocate(idx, S, k))
  BY DEF IsIndex, Relocate, Meta

\* The number of uses of a chunk is a natural number, for a finite source.
LEMMA UsesNat ==
  ASSUME NEW t, Tree(t), NEW c
  PROVE  Uses(t, c) \in Nat
<1>1. {f \in DOMAIN t : t[f] = c} \in SUBSET Files
  BY DEF Tree
<1>2. IsFiniteSet({f \in DOMAIN t : t[f] = c})
  BY <1>1, RepositoryAssumption, FS_Subset
<1> QED
  BY <1>2, FS_CardinalityType DEF Uses

\* Deleting a snapshot's references keeps an index an index: no count goes
\* below zero.
LEMMA DropRefsIndex ==
  ASSUME NEW idx, IsIndex(idx), NEW t, Tree(t)
  PROVE  IsIndex(DropRefs(idx, t))
<1> DEFINE Dead == {c \in DOMAIN idx : Uses(t, c) > 0 /\ idx[c].refs <= Uses(t, c)}
<1>1. ASSUME NEW c \in DOMAIN idx \ Dead
      PROVE  [idx[c] EXCEPT !.refs = @ - Uses(t, c)] \in Meta
  <2>1. Uses(t, c) \in Nat
    BY UsesNat
  <2>2. idx[c] \in Meta
    BY DEF IsIndex
  <2>3. idx[c].refs - Uses(t, c) \in Nat
    BY <2>1, <2>2 DEF Meta
  <2> QED
    BY <2>2, <2>3 DEF Meta
<1>2. DOMAIN DropRefs(idx, t) = DOMAIN idx \ Dead
  BY DEF DropRefs
<1>3. \A c \in DOMAIN idx \ Dead :
         DropRefs(idx, t)[c] = [idx[c] EXCEPT !.refs = @ - Uses(t, c)]
  BY DEF DropRefs
<1>4. DropRefs(idx, t) = [c \in DOMAIN idx \ Dead |->
                            [idx[c] EXCEPT !.refs = @ - Uses(t, c)]]
  BY DEF DropRefs
<1>5. DropRefs(idx, t) \in [DOMAIN idx \ Dead -> Meta]
  BY <1>1, <1>4
<1>6. DOMAIN idx \ Dead \subseteq Chunks
  BY DEF IsIndex
<1> QED
  BY <1>2, <1>5, <1>6 DEF IsIndex

\* Putting a file into a tree, and taking one out.
LEMMA PutTree ==
  ASSUME NEW t, Tree(t), NEW f \in Files, NEW c \in Chunks
  PROVE  Tree(Put(t, f, c))
  BY DEF Tree, Put

LEMMA RemoveTree ==
  ASSUME NEW t, Tree(t), NEW f
  PROVE  Tree(Remove(t, f))
  BY DEF Tree, Remove, Restrict

\* Any selection of snapshots is a set of snapshots, and removing one is one.
LEMMA RestrictSnapshots ==
  ASSUME NEW n \in Nat, NEW S, IsSnapshots(S, n), NEW V, V \subseteq DOMAIN S
  PROVE  IsSnapshots(Restrict(S, V), n)
  BY DEF IsSnapshots, Restrict

LEMMA RemoveSnapshots ==
  ASSUME NEW n \in Nat, NEW S, IsSnapshots(S, n), NEW s
  PROVE  IsSnapshots(Remove(S, s), n)
  BY RestrictSnapshots DEF Remove

\* The saved snapshot is named with the next time.
LEMMA PutSnapshots ==
  ASSUME NEW n \in Nat, NEW S, IsSnapshots(S, n),
         NEW r \in Files \cup {DirRoot}, NEW t, Tree(t)
  PROVE  IsSnapshots(Put(S, n + 1, [root |-> r, tree |-> t]), n + 1)
  BY DEF IsSnapshots, Put

\* Older snapshots stay snapshots when time goes on.
LEMMA LaterSnapshots ==
  ASSUME NEW n \in Nat, NEW S, IsSnapshots(S, n)
  PROVE  IsSnapshots(S, n + 1)
  BY DEF IsSnapshots

\* The pack writer starts numbering with a natural number.
LEMMA MaxPackIdNat ==
  ASSUME TypeOK, NEW m \in MaxPackId
  PROVE  m \in Nat
  BY DEF TypeOK, RepositoryTypeOK, MaxPackId

-----------------------------------------------------------------------------
\* The pieces of TypeOK a step changes together.

HandleOK ==
  /\ DOMAIN mem = Procs
  /\ \A p \in Procs : IsIndex(mem[p])
  /\ buf \in [Procs -> SUBSET Chunks]
  /\ nextPack \in [Procs -> Nat]

ControlOK ==
  /\ lock \in Procs \cup {NoProc}
  /\ pc \in [Procs -> Labels]
  /\ cmd \in [Procs -> AllCommands \cup {"none"}]
  /\ started \in Nat

PacksOK ==
  /\ DOMAIN packs \subseteq Nat
  /\ packs \in [DOMAIN packs -> SUBSET Chunks]

SnapsOK == clock \in Nat /\ IsSnapshots(snaps, clock)

VictimsOK ==
  /\ DOMAIN victims = Procs
  /\ \A p \in Procs : IsSnapshots(victims[p], clock)

\* What a parity buffer may be.
Groups == [filled : 0 .. EccDataShards - 1, due : 0 .. EccParityShards, kept : BOOLEAN]

BackupOK ==
  /\ src \in [Procs -> Files \cup {DirRoot}]
  /\ DOMAIN tree = Procs
  /\ \A p \in Procs : Tree(tree[p])
  /\ todo \in [Procs -> SUBSET Files]
  /\ group \in [Procs -> Groups]

CompactOK ==
  /\ live \in [Procs -> SUBSET Chunks]
  /\ old \in [Procs -> SUBSET Nat]
  /\ copies \in [Procs -> SUBSET (Nat \X Chunks)]
  /\ DOMAIN moved = Procs
  /\ \A p \in Procs : /\ DOMAIN moved[p] \subseteq Chunks
                      /\ moved[p] \in [DOMAIN moved[p] -> Nat]

\* TypeOK is the conjunction of the pieces.
LEMMA TypePieces ==
  TypeOK <=> /\ HandleOK /\ ControlOK /\ PacksOK /\ IsIndex(index)
             /\ SnapsOK /\ VictimsOK /\ BackupOK /\ CompactOK
  BY DEF TypeOK, RepositoryTypeOK, HandleOK, ControlOK, PacksOK, SnapsOK,
         VictimsOK, BackupOK, CompactOK, Groups

\* So after a step.
LEMMA TypePiecesNext ==
  ASSUME HandleOK', ControlOK', PacksOK', IsIndex(index)',
         SnapsOK', VictimsOK', BackupOK', CompactOK'
  PROVE  TypeOK'
  BY DEF TypeOK, RepositoryTypeOK, HandleOK, ControlOK, PacksOK, SnapsOK,
         VictimsOK, BackupOK, CompactOK, Groups

\* An empty parity buffer is one; so is one with a chunk more, and one with a
\* parity chunk less to store.
LEMMA NoGroupType == NoGroup \in Groups
  BY BackupAssumption DEF NoGroup, Groups

LEMMA JoinGroupTypes ==
  ASSUME TypeOK, NEW p \in Procs, NEW kept \in BOOLEAN, JoinGroup(p, kept)
  PROVE  group' \in [Procs -> Groups]
<1>1. group[p] \in Groups
  BY TypePieces DEF BackupOK
<1> DEFINE next == IF group[p].filled + 1 < EccDataShards
                   THEN [filled |-> group[p].filled + 1, due |-> 0, kept |-> TRUE]
                   ELSE [filled |-> 0, due |-> EccParityShards, kept |-> kept]
<1>2. next \in Groups
  BY <1>1, BackupAssumption DEF Groups
<1>3. group' = [group EXCEPT ![p] = next]
  BY DEF JoinGroup
<1> HIDE DEF next
<1> QED
  BY <1>2, <1>3, TypePieces DEF BackupOK

LEMMA LessDueTypes ==
  ASSUME NEW g \in Groups, g.due > 0
  PROVE  [g EXCEPT !.due = g.due - 1] \in Groups
  BY BackupAssumption DEF Groups

\* The initial state is well typed.
LEMMA InitTypes == Init => TypeOK
<1> SUFFICES ASSUME Init PROVE TypeOK
  OBVIOUS
<1> USE DEF Init, RepositoryInit
<1>1. HandleOK
  BY EmptyMapTypes DEF HandleOK
<1>2. ControlOK
  BY DEF ControlOK, Labels
<1>3. PacksOK
  BY DEF PacksOK, EmptyMap
<1>4. IsIndex(index)
  BY EmptyMapTypes
<1>5. SnapsOK /\ VictimsOK
  BY EmptyMapTypes DEF SnapsOK, VictimsOK
<1>6. BackupOK
  BY EmptyMapTypes, NoGroupType DEF BackupOK
<1>7. CompactOK
  BY DEF CompactOK, EmptyMap
<1> QED
  BY <1>1, <1>2, <1>3, <1>4, <1>5, <1>6, <1>7, TypePieces

-----------------------------------------------------------------------------
\* What the helper operations do to the handle and the packs.

LEMMA OpenTypes ==
  ASSUME TypeOK, NEW p \in Procs, Open(p)
  PROVE  HandleOK' /\ lock' \in Procs \cup {NoProc}
<1>1. PICK m \in MaxPackId : nextPack' = [nextPack EXCEPT ![p] = m + 1]
  BY DEF Open
<1>2. m + 1 \in Nat
  BY MaxPackIdNat
<1> QED
  BY <1>1, <1>2, TypePieces DEF Open, HandleOK, ControlOK

LEMMA CloseTypes ==
  ASSUME TypeOK, NEW p \in Procs, Close(p)
  PROVE  HandleOK' /\ lock' \in Procs \cup {NoProc}
  BY TypePieces, EmptyMapTypes DEF Close, HandleOK, ControlOK

LEMMA EndCommandTypes ==
  ASSUME TypeOK, NEW p \in Procs, EndCommand(p)
  PROVE  HandleOK' /\ ControlOK'
  BY CloseTypes, TypePieces DEF EndCommand, ControlOK, Labels

LEMMA WritePackTypes ==
  ASSUME TypeOK, NEW p \in Procs, NEW S \in SUBSET Chunks, WritePack(p, S)
  PROVE  PacksOK' /\ nextPack' \in [Procs -> Nat]
  BY TypePieces DEF WritePack, PacksOK, HandleOK, Put

\* Storing one chunk.
LEMMA StoreChunkTypes ==
  ASSUME TypeOK, NEW p \in Procs, NEW c \in Chunks, StoreChunk(p, c)
  PROVE  HandleOK' /\ PacksOK'
<1> DEFINE fresh(k) == [refs |-> 1, pack |-> k]
<1> USE TypePieces DEF HandleOK
<1>1. CASE StoreDuplicate(p, c)
  BY <1>1, AddRefIndex DEF StoreDuplicate, PacksOK
<1>2. CASE StoreBuffered(p, c)
  <2>1. IsIndex(Put(mem[p], c, fresh(Pending)))
    BY PutIndex DEF Meta, Pending
  <2> QED
    BY <1>2, <2>1 DEF StoreBuffered, PacksOK
<1>3. CASE StoreFlushed(p, c)
  <2> DEFINE moved1 == Relocate(mem[p], buf[p] \cup {c}, nextPack[p])
  <2>1. WritePack(p, buf[p] \cup {c})
    BY <1>3 DEF StoreFlushed
  <2>2. PacksOK' /\ nextPack' \in [Procs -> Nat]
    BY <2>1, WritePackTypes
  <2>3. IsIndex(moved1)
    BY RelocateIndex
  <2>4. IsIndex(Put(moved1, c, fresh(nextPack[p])))
    <3>1. fresh(nextPack[p]) \in Meta
      BY DEF Meta
    <3> HIDE DEF fresh, moved1
    <3> QED
      BY <2>3, <3>1, PutIndex
  <2> QED
    BY <1>3, <2>2, <2>4 DEF StoreFlushed
<1> QED
  BY <1>1, <1>2, <1>3 DEF StoreChunk

\* Failing to store one.
LEMMA StoreChunkFailsTypes ==
  ASSUME TypeOK, NEW p \in Procs, NEW c \in Chunks, StoreChunkFails(p, c)
  PROVE  HandleOK' /\ PacksOK'
  BY TypePieces DEF StoreChunkFails, HandleOK, PacksOK

\* Flushing what is left.
LEMMA FlushPendingTypes ==
  ASSUME TypeOK, NEW p \in Procs, FlushPending(p)
  PROVE  HandleOK' /\ PacksOK'
<1> USE TypePieces DEF HandleOK
<1>1. CASE buf[p] = {}
  BY <1>1 DEF FlushPending, PacksOK
<1>2. CASE buf[p] # {}
  <2>1. PacksOK' /\ nextPack' \in [Procs -> Nat]
    BY <1>2, WritePackTypes DEF FlushPending
  <2>2. IsIndex(Relocate(mem[p], buf[p], nextPack[p]))
    BY RelocateIndex
  <2> QED
    BY <1>2, <2>1, <2>2 DEF FlushPending
<1> QED
  BY <1>1, <1>2

\* Moving on to another label keeps the control state well typed.
LEMMA GotoTypes ==
  ASSUME TypeOK, NEW p \in Procs, NEW label \in Labels, Goto(p, label),
         lock' \in Procs \cup {NoProc}
  PROVE  ControlOK'
  BY TypePieces DEF Goto, ControlOK

\* So does starting a command.
LEMMA StartTypes ==
  ASSUME TypeOK, NEW p \in Procs, NEW label \in Labels, NEW command,
         Start(p, command), pc' = [pc EXCEPT ![p] = label],
         lock' \in Procs \cup {NoProc}
  PROVE  ControlOK'
  BY TypePieces, RepositoryAssumption DEF Start, ControlOK

LEMMA ForgetBackupTypes ==
  ASSUME TypeOK, NEW p \in Procs, ForgetBackup(p)
  PROVE  BackupOK'
  BY TypePieces, EmptyMapTypes, NoGroupType DEF ForgetBackup, BackupOK

LEMMA ForgetCompactTypes ==
  ASSUME TypeOK, NEW p \in Procs, ForgetCompact(p)
  PROVE  CompactOK'
  BY TypePieces DEF ForgetCompact, CompactOK, EmptyMap

-----------------------------------------------------------------------------
\* Every step keeps the types: the prune command and automatic pruning,

LEMMA PruneTypes ==
  ASSUME TypeOK, NEW p \in Procs, PruneStep(p), UNCHANGED <<backupVars, compactVars>>
  PROVE  TypeOK'
<1> USE TypePieces, TypePiecesNext DEF backupVars, compactVars, diskVars, handleVars, controlVars
<1>1. BackupOK' /\ CompactOK'
  BY DEF BackupOK, CompactOK
<1>2. CASE PruneList(p)
  <2> USE <1>2 DEF PruneList
  <2>1. ControlOK'
    BY StartTypes DEF ControlOK, Labels, Opening
  <2>2. HandleOK' /\ PacksOK' /\ IsIndex(index)' /\ SnapsOK'
    BY DEF HandleOK, PacksOK, SnapsOK
  <2>3. VictimsOK'
    BY RestrictSnapshots DEF VictimsOK, SnapsOK, GivenUp
  <2> QED
    BY <1>1, <2>1, <2>2, <2>3
<1>3. CASE PruneOpen(p)
  <2> USE <1>3 DEF PruneOpen
  <2>1. HandleOK' /\ ControlOK'
    BY OpenTypes, GotoTypes DEF Labels
  <2>2. PacksOK' /\ IsIndex(index)' /\ SnapsOK' /\ VictimsOK'
    BY DEF PacksOK, SnapsOK, VictimsOK
  <2> QED
    BY <1>1, <2>1, <2>2
<1>7. CASE AutoPruneOpen(p)
  <2> USE <1>7 DEF AutoPruneOpen
  <2>1. HandleOK' /\ ControlOK'
    BY OpenTypes, StartTypes DEF Labels
  <2>2. PacksOK' /\ IsIndex(index)' /\ SnapsOK' /\ VictimsOK'
    BY DEF PacksOK, SnapsOK, VictimsOK
  <2> QED
    BY <1>1, <2>1, <2>2
<1>4. CASE DeleteOpen(p)
  <2> USE <1>4 DEF DeleteOpen
  <2>1. HandleOK' /\ ControlOK'
    BY OpenTypes, GotoTypes DEF Labels
  <2>2. PacksOK' /\ IsIndex(index)' /\ SnapsOK'
    BY DEF PacksOK, SnapsOK
  <2>3. VictimsOK'
    BY RestrictSnapshots DEF VictimsOK, SnapsOK
  <2> QED
    BY <1>1, <2>1, <2>2, <2>3
<1>5. CASE DeleteOne(p)
  <2>1. PICK s \in DOMAIN victims[p] :
          /\ mem' = [mem EXCEPT ![p] = DropRefs(@, victims[p][s].tree)]
          /\ snaps' = Remove(snaps, s)
          /\ victims' = [victims EXCEPT ![p] = Remove(@, s)]
    BY <1>5 DEF DeleteOne, NewestFirst, OldestFirst
  <2>2. UNCHANGED <<packs, index, clock, buf, nextPack, lock, pc, cmd, started>>
    BY <1>5 DEF DeleteOne
  <2>3. Tree(victims[p][s].tree)
    BY DEF VictimsOK, IsSnapshots
  <2>4. HandleOK'
    BY <2>1, <2>2, <2>3, DropRefsIndex DEF HandleOK
  <2>5. SnapsOK' /\ VictimsOK'
    BY <2>1, <2>2, RemoveSnapshots DEF SnapsOK, VictimsOK
  <2>6. ControlOK' /\ PacksOK' /\ IsIndex(index)'
    BY <2>2 DEF ControlOK, PacksOK
  <2> QED
    BY <1>1, <2>4, <2>5, <2>6
<1>6. CASE DeleteSave(p)
  <2> USE <1>6 DEF DeleteSave
  <2>1. HandleOK' /\ ControlOK'
    BY EndCommandTypes, CloseTypes, GotoTypes DEF Labels, Opening
  <2>2. IsIndex(index)'
    BY DEF SaveIndex, HandleOK
  <2>3. PacksOK' /\ SnapsOK' /\ VictimsOK'
    BY DEF PacksOK, SnapsOK, VictimsOK
  <2> QED
    BY <1>1, <2>1, <2>2, <2>3
<1> QED
  BY <1>2, <1>3, <1>4, <1>5, <1>6, <1>7 DEF PruneStep

\* the three backup commands,

LEMMA BackupStartTypes ==
  ASSUME TypeOK, NEW p \in Procs, UNCHANGED compactVars,
         NEW command \in {"full", "sys"}, NEW root \in RootsOf(command),
         BackupOpen(p, command, root) \/ BackupOverLimit(p, command, root)
  PROVE  TypeOK'
<1> USE TypePieces, TypePiecesNext DEF compactVars, diskVars, handleVars
<1>1. root \in Files \cup {DirRoot} /\ FilesUnder(root) \subseteq Files
  BY BackupAssumption DEF RootsOf, FilesUnder
<1>2. PacksOK' /\ IsIndex(index)' /\ SnapsOK' /\ CompactOK'
  BY DEF BackupOpen, BackupOverLimit, PacksOK, SnapsOK, CompactOK
<1>3. CASE BackupOpen(p, command, root)
  <2> USE <1>3 DEF BackupOpen
  <2>1. HandleOK' /\ ControlOK'
    BY OpenTypes, StartTypes DEF Labels
  <2>2. VictimsOK' /\ BackupOK'
    BY <1>1 DEF VictimsOK, BackupOK
  <2> QED
    BY <1>2, <2>1, <2>2
<1>4. CASE BackupOverLimit(p, command, root)
  <2> USE <1>4 DEF BackupOverLimit
  <2>1. ControlOK'
    BY StartTypes DEF ControlOK, Labels, Opening
  <2>2. HandleOK' /\ BackupOK'
    BY <1>1 DEF HandleOK, BackupOK
  <2>3. VictimsOK'
    BY RestrictSnapshots DEF VictimsOK, SnapsOK, OverLimit
  <2> QED
    BY <1>2, <2>1, <2>2, <2>3
<1> QED
  BY <1>3, <1>4

LEMMA BackupResumeTypes ==
  ASSUME TypeOK, NEW p \in Procs, UNCHANGED compactVars,
         BackupReopen(p) \/ IncList(p) \/ IncOpen(p)
  PROVE  TypeOK'
<1> USE TypePieces, TypePiecesNext DEF compactVars, diskVars, handleVars
<1>1. PacksOK' /\ IsIndex(index)' /\ SnapsOK' /\ VictimsOK' /\ CompactOK'
  BY DEF BackupReopen, IncList, IncOpen, PacksOK, SnapsOK, VictimsOK, CompactOK
<1>2. CASE BackupReopen(p)
  <2> USE <1>2 DEF BackupReopen
  <2>1. HandleOK' /\ ControlOK'
    BY OpenTypes, GotoTypes DEF Labels
  <2>2. BackupOK'
    BY DEF BackupOK, FilesUnder
  <2> QED
    BY <1>1, <2>1, <2>2
<1>3. CASE IncList(p)
  <2> USE <1>3 DEF IncList
  <2>1. HandleOK' /\ ControlOK'
    BY StartTypes DEF HandleOK, ControlOK, Labels, Opening
  <2>2. BackupOK'
    BY DEF BackupOK, SnapsOK, IsSnapshots, Newest
  <2> QED
    BY <1>1, <2>1, <2>2
<1>4. CASE IncOpen(p)
  <2> USE <1>4 DEF IncOpen
  <2>1. HandleOK' /\ ControlOK'
    BY OpenTypes, GotoTypes DEF Labels
  <2>2. BackupOK'
    BY DEF BackupOK
  <2> QED
    BY <1>1, <2>1, <2>2
<1> QED
  BY <1>2, <1>3, <1>4

LEMMA BuildTypes ==
  ASSUME TypeOK, NEW p \in Procs, UNCHANGED compactVars,
         NEW f \in Files, NEW c,
         \/ /\ c \in Chunks
            /\ StoreFile(p, f, c) \/ StoreThenSkip(p, f, c) \/ FailFile(p, f, c)
         \/ ReuseFile(p, f) \/ SkipFile(p, f) \/ RemoveFile(p, f)
  PROVE  TypeOK'
<1> USE TypePieces, TypePiecesNext DEF compactVars, controlVars
<1>1. Building(p, f)
  BY DEF StoreFile, StoreThenSkip, FailFile, ReuseFile, SkipFile, RemoveFile
<1>2. /\ ControlOK' /\ IsIndex(index)' /\ SnapsOK' /\ VictimsOK' /\ CompactOK'
      /\ src' = src /\ todo' \in [Procs -> SUBSET Files]
  BY <1>1 DEF Building, ControlOK, SnapsOK, VictimsOK, CompactOK, BackupOK
<1>3. CASE c \in Chunks /\ StoreFile(p, f, c)
  <2>1. HandleOK' /\ PacksOK' /\ group' \in [Procs -> Groups]
    BY <1>3, StoreChunkTypes, JoinGroupTypes DEF StoreFile
  <2>2. BackupOK'
    BY <1>2, <1>3, <2>1, PutTree DEF StoreFile, BackupOK
  <2> QED
    BY <1>2, <2>1, <2>2
<1>4. CASE c \in Chunks /\ (StoreThenSkip(p, f, c) \/ FailFile(p, f, c))
  <2>1. HandleOK' /\ PacksOK' /\ group' \in [Procs -> Groups]
    BY <1>4, StoreChunkTypes, StoreChunkFailsTypes, JoinGroupTypes
    DEF StoreThenSkip, FailFile, BackupOK
  <2>2. BackupOK'
    BY <1>2, <1>4, <2>1 DEF StoreThenSkip, FailFile, BackupOK
  <2> QED
    BY <1>2, <2>1, <2>2
<1>5. CASE ReuseFile(p, f)
  <2>1. PICK s \in DOMAIN snaps :
          LET d == snaps[s].tree[f]
          IN  /\ f \in DOMAIN snaps[s].tree
              /\ tree' = [tree EXCEPT ![p] = Put(@, f, d)]
              /\ mem' = [mem EXCEPT ![p] = IF d \in DOMAIN @ THEN AddRef(@, d) ELSE @]
    BY <1>5 DEF ReuseFile, Newest
  <2>2. snaps[s].tree[f] \in Chunks
    BY <2>1 DEF SnapsOK, IsSnapshots, Tree
  <2>3. HandleOK'
    BY <1>5, <2>1, AddRefIndex DEF ReuseFile, HandleOK
  <2>4. PacksOK'
    BY <1>5 DEF ReuseFile, PacksOK
  <2>5. BackupOK'
    BY <1>2, <1>5, <2>1, <2>2, PutTree DEF BackupOK, ReuseFile
  <2> QED
    BY <1>2, <2>3, <2>4, <2>5
<1>6. CASE SkipFile(p, f) \/ RemoveFile(p, f)
  <2>1. HandleOK' /\ PacksOK'
    BY <1>6 DEF SkipFile, RemoveFile, HandleOK, PacksOK
  <2>2. BackupOK'
    BY <1>2, <1>6, RemoveTree DEF SkipFile, RemoveFile, BackupOK
  <2> QED
    BY <1>2, <2>1, <2>2
<1> QED
  BY <1>3, <1>4, <1>5, <1>6

\* The parity of a full group.
LEMMA ParityTypes ==
  ASSUME TypeOK, NEW p \in Procs, UNCHANGED compactVars,
         NEW c \in ParityChunks, StoreParity(p, c) \/ ParityFails(p, c)
  PROVE  TypeOK'
<1> USE TypePieces, TypePiecesNext DEF compactVars, controlVars
<1>1. FlushingGroup(p) /\ c \in Chunks
  BY BackupAssumption DEF StoreParity, ParityFails
<1>2. /\ ControlOK' /\ IsIndex(index)' /\ SnapsOK' /\ VictimsOK' /\ CompactOK'
      /\ UNCHANGED <<src, tree, todo>>
  BY <1>1 DEF FlushingGroup, ControlOK, SnapsOK, VictimsOK, CompactOK
<1>3. HandleOK' /\ PacksOK'
  BY <1>1, StoreChunkTypes, StoreChunkFailsTypes DEF StoreParity, ParityFails
<1>4. group' \in [Procs -> Groups]
  <2>1. group[p] \in Groups /\ group[p].due > 0
    BY <1>1 DEF BackupOK, FlushingGroup
  <2>2. \E g \in Groups : group' = [group EXCEPT ![p] = g]
    BY <2>1, LessDueTypes, NoGroupType DEF StoreParity, ParityFails
  <2> QED
    BY <2>2 DEF BackupOK
<1>5. BackupOK'
  BY <1>2, <1>4 DEF BackupOK
<1> QED
  BY <1>2, <1>3, <1>5

\* Saving the snapshot that was built.
LEMMA SaveSnapshotTypes ==
  ASSUME TypeOK, NEW p \in Procs, SaveSnapshot(p), UNCHANGED victims
  PROVE  SnapsOK' /\ VictimsOK' /\ PacksOK' /\ IsIndex(index)'
<1> USE TypePieces DEF SaveSnapshot, NewSnapshot
<1>1. SnapsOK'
  BY PutSnapshots DEF SnapsOK, BackupOK
<1>2. VictimsOK'
  BY LaterSnapshots DEF VictimsOK, SnapsOK
<1>3. PacksOK' /\ IsIndex(index)'
  BY DEF PacksOK
<1> QED
  BY <1>1, <1>2, <1>3

LEMMA FinishTypes ==
  ASSUME TypeOK, NEW p \in Procs, UNCHANGED compactVars,
         FinishFlush(p) \/ FinishIndex(p) \/ FinishSnapshot(p) \/ SysSnapshot(p)
  PROVE  TypeOK'
<1> USE TypePieces, TypePiecesNext DEF compactVars, backupVars, handleVars
<1>1. CompactOK'
  BY DEF CompactOK
<1>2. CASE FinishFlush(p)
  <2> USE <1>2 DEF FinishFlush
  <2>1. HandleOK' /\ PacksOK'
    BY FlushPendingTypes
  <2>2. ControlOK'
    BY GotoTypes DEF ControlOK, Labels
  <2>3. IsIndex(index)' /\ SnapsOK' /\ VictimsOK' /\ BackupOK'
    BY DEF SnapsOK, VictimsOK, BackupOK
  <2> QED
    BY <1>1, <2>1, <2>2, <2>3
<1>3. CASE FinishIndex(p)
  <2> USE <1>3 DEF FinishIndex
  <2>1. HandleOK' /\ ControlOK'
    BY EndCommandTypes, GotoTypes DEF HandleOK, ControlOK, Labels
  <2>2. IsIndex(index)'
    BY DEF SaveIndex, HandleOK
  <2>3. BackupOK'
    BY ForgetBackupTypes DEF BackupOK
  <2>4. PacksOK' /\ SnapsOK' /\ VictimsOK'
    BY DEF PacksOK, SnapsOK, VictimsOK
  <2> QED
    BY <1>1, <2>1, <2>2, <2>3, <2>4
<1>4. CASE FinishSnapshot(p)
  <2> USE <1>4 DEF FinishSnapshot
  <2> QED
    BY <1>1, SaveSnapshotTypes, EndCommandTypes, ForgetBackupTypes
<1>5. CASE SysSnapshot(p)
  <2> USE <1>5 DEF SysSnapshot
  <2>1. HandleOK' /\ ControlOK' /\ BackupOK'
    BY GotoTypes DEF HandleOK, ControlOK, BackupOK, Labels
  <2> QED
    BY <1>1, <2>1, SaveSnapshotTypes
<1> QED
  BY <1>2, <1>3, <1>4, <1>5

LEMMA BackupTypes ==
  ASSUME TypeOK, NEW p \in Procs, BackupStep(p), UNCHANGED compactVars
  PROVE  TypeOK'
  BY BackupStartTypes, BackupResumeTypes, BuildTypes, ParityTypes, FinishTypes DEF BackupStep

\* the compact command,

LEMMA CompactTypes ==
  ASSUME TypeOK, NEW p \in Procs, CompactStep(p), UNCHANGED <<victims, backupVars>>
  PROVE  TypeOK'
<1> USE TypePieces, TypePiecesNext DEF backupVars, diskVars, handleVars, controlVars
<1>1. BackupOK'
  BY DEF BackupOK
<1>2. CASE CompactCollect(p)
  <2> USE <1>2 DEF CompactCollect
  <2>1. ControlOK'
    BY StartTypes DEF ControlOK, Labels, Opening
  <2>2. CompactOK'
    BY DEF CompactOK, Referenced, ChunksOf, SnapsOK, IsSnapshots, Tree
  <2>3. HandleOK' /\ PacksOK' /\ IsIndex(index)' /\ SnapsOK' /\ VictimsOK'
    BY DEF HandleOK, PacksOK, SnapsOK, VictimsOK
  <2> QED
    BY <1>1, <2>1, <2>2, <2>3
<1>3. CASE CompactOpen(p)
  <2> USE <1>3 DEF CompactOpen
  <2>1. ControlOK'
    BY GotoTypes DEF Labels
  <2>2. HandleOK'
    BY MaxPackIdNat DEF HandleOK
  <2>3. CompactOK'
    BY DEF CompactOK, PacksOK
  <2>4. PacksOK' /\ IsIndex(index)' /\ SnapsOK' /\ VictimsOK'
    BY DEF PacksOK, SnapsOK, VictimsOK
  <2> QED
    BY <1>1, <2>1, <2>2, <2>3, <2>4
<1>4. CASE CompactNothing(p) \/ CompactDone(p)
  <2>1. EndCommand(p) /\ ForgetCompact(p) /\ UNCHANGED diskVars
    BY <1>4 DEF CompactNothing, CompactDone
  <2>2. PacksOK' /\ IsIndex(index)' /\ SnapsOK' /\ VictimsOK'
    BY <2>1 DEF PacksOK, SnapsOK, VictimsOK
  <2> QED
    BY <1>1, <2>1, <2>2, EndCommandTypes, ForgetCompactTypes
<1>5. CASE CompactWrite(p)
  <2>1. PICK batch \in SUBSET copies[p] :
          /\ WritePack(p, {kc[2] : kc \in batch})
          /\ moved' = [moved EXCEPT ![p] =
               [c \in DOMAIN @ \cup {kc[2] : kc \in batch} |->
                  IF c \in {kc[2] : kc \in batch} THEN nextPack[p] ELSE @[c]]]
          /\ copies' = [copies EXCEPT ![p] = @ \ batch]
    BY <1>5 DEF CompactWrite
  <2> DEFINE chunks == {kc[2] : kc \in batch}
  <2>2. UNCHANGED <<index, snaps, clock, lock, pc, cmd, started, mem, buf, live, old>>
    BY <1>5 DEF CompactWrite
  <2>3. chunks \in SUBSET Chunks
    BY DEF CompactOK
  <2> HIDE DEF chunks
  <2>4. PacksOK' /\ nextPack' \in [Procs -> Nat]
    BY <2>1, <2>3, WritePackTypes DEF chunks
  <2>5. HandleOK'
    BY <2>2, <2>4 DEF HandleOK
  <2>6. moved' = [moved EXCEPT ![p] = [c \in DOMAIN moved[p] \cup chunks |->
                    IF c \in chunks THEN nextPack[p] ELSE moved[p][c]]]
    BY <2>1 DEF chunks, CompactOK
  <2>7. CompactOK'
    BY <2>1, <2>2, <2>3, <2>6 DEF CompactOK, HandleOK
  <2>8. ControlOK' /\ IsIndex(index)' /\ SnapsOK' /\ VictimsOK'
    BY <2>2 DEF ControlOK, SnapsOK, VictimsOK
  <2> QED
    BY <1>1, <2>4, <2>5, <2>7, <2>8
<1>6. CASE CompactIndex(p)
  <2> USE <1>6 DEF CompactIndex
  <2>1. \A c \in DOMAIN MovedIndex(p) : MovedIndex(p)[c] \in Meta
    BY DEF MovedIndex, CompactOK, IsIndex, Meta
  <2>2. IsIndex(index)'
    BY <2>1 DEF MovedIndex, IsIndex
  <2>3. ControlOK'
    BY GotoTypes DEF ControlOK, Labels
  <2>4. HandleOK' /\ PacksOK' /\ SnapsOK' /\ VictimsOK' /\ CompactOK'
    BY DEF HandleOK, PacksOK, SnapsOK, VictimsOK, CompactOK, compactVars
  <2> QED
    BY <1>1, <2>2, <2>3, <2>4
<1>7. CASE CompactDelete(p)
  <2>1. PICK k \in old[p] : /\ packs' = Remove(packs, k)
                            /\ old' = [old EXCEPT ![p] = @ \ {k}]
    BY <1>7 DEF CompactDelete
  <2>2. UNCHANGED <<index, snaps, clock, mem, buf, nextPack, lock, pc, cmd, started,
                    live, copies, moved>>
    BY <1>7 DEF CompactDelete
  <2>3. PacksOK'
    BY <2>1 DEF PacksOK, Remove, Restrict
  <2>4. CompactOK'
    BY <2>1, <2>2 DEF CompactOK
  <2>5. HandleOK' /\ ControlOK' /\ IsIndex(index)' /\ SnapsOK' /\ VictimsOK'
    BY <2>2 DEF HandleOK, ControlOK, SnapsOK, VictimsOK
  <2> QED
    BY <1>1, <2>3, <2>4, <2>5
<1> QED
  BY <1>2, <1>3, <1>4, <1>5, <1>6, <1>7 DEF CompactStep

\* and commands that fail or crash.
LEMMA FailTypes ==
  ASSUME TypeOK, NEW p \in Procs, OpenFails(p) \/ Crash(p)
  PROVE  TypeOK'
<1> USE TypePieces, TypePiecesNext DEF diskVars
<1>1. EndCommand(p) /\ ForgetAll(p) /\ UNCHANGED diskVars
  BY DEF OpenFails, Crash
<1>2. HandleOK' /\ ControlOK'
  BY <1>1, EndCommandTypes
<1>3. BackupOK' /\ CompactOK'
  BY <1>1, ForgetBackupTypes, ForgetCompactTypes DEF ForgetAll
<1>4. VictimsOK'
  BY <1>1, EmptyMapTypes DEF ForgetAll, ForgetVictims, VictimsOK, SnapsOK
<1>5. PacksOK' /\ IsIndex(index)' /\ SnapsOK'
  BY <1>1 DEF PacksOK, SnapsOK
<1> QED
  BY <1>2, <1>3, <1>4, <1>5

\* A step changes no type.
LEMMA NextTypes == TypeOK /\ [Next]_vars => TypeOK'
<1> SUFFICES ASSUME TypeOK, [Next]_vars PROVE TypeOK'
  OBVIOUS
<1>1. CASE Next
  <2>1. PICK p \in Procs : Step(p) \/ Crash(p)
    BY <1>1 DEF Next
  <2> QED
    BY <2>1, PruneTypes, BackupTypes, CompactTypes, FailTypes DEF Step
<1>2. CASE UNCHANGED vars
  BY <1>2, TypePieces, TypePiecesNext
  DEF vars, repositoryVars, diskVars, handleVars, controlVars, backupVars,
      compactVars, HandleOK, ControlOK, PacksOK, SnapsOK, VictimsOK, BackupOK, CompactOK
<1> QED
  BY <1>1, <1>2

\* Type correctness: in every behaviour of any number of processes, whatever
\* commands they run and however they crash, the index holds natural counts,
\* snapshots hold files and chunks, and no snapshot is later than the clock.
THEOREM TypeCorrect == Spec => []TypeOK
  BY InitTypes, NextTypes, PTL DEF Spec

=============================================================================
