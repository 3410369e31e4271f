------------------------- MODULE BackupShieldRestorable -------------------------
(***************************************************************************)
(* Saved snapshots stay restorable, and the repository implements the      *)
(* abstract snapshot store, in every use of it that does not meet one of   *)
(* the disagreements the violated runs show: full backups, with their      *)
(* automatic pruning, by any number of processes; or these together with   *)
(* prune and compact by one.  Crashes and failing writes are included.     *)
(*                                                                         *)
(* The argument counts references.  The saved counts cover what the        *)
(* snapshots on disk refer to; the counts in memory cover that and the     *)
(* tree that is being built, or what is left of the snapshots that are     *)
(* being deleted.                                                          *)
(*                                                                         *)
(* Two more theorems need no count: automatic pruning leaves min_snapshots *)
(* however many processes list at once, and a compaction that ran alone    *)
(* reclaims everything.  The last one counts again: where nothing fails,   *)
(* and also with system backups, the counts are exact.                     *)
(***************************************************************************)
EXTENDS BackupShieldSafety

\* The uses the theorems are about.
CoveredUse ==
  /\ Commands \subseteq {"full", "prune", "auto", "compact"}
  /\ Commands \subseteq {"full", "auto"} \/ \A p, q \in Procs : p = q

\* The counts of an index cover the snapshots on disk and one tree more.
Covers(idx, t) ==
  \A c \in Chunks : Occurrences(c) + Uses(t, c) > 0 =>
    c \in DOMAIN idx /\ idx[c].refs >= Occurrences(c) + Uses(t, c)

\* What a process is still to delete is on disk as it was when it was listed.
VictimsThere(p) ==
  \A s \in DOMAIN victims[p] : s \in DOMAIN snaps /\ snaps[s] = victims[p][s]

\* What a process knows of the references while it has the repository open, and
\* which commands may be in which state.
RefsKnown(p) ==
  /\ cmd[p] \in Commands \cup {"none"}
  /\ pc[p] \notin {"flush", "inc_open"}
  /\ pc[p] = "prune_open" => cmd[p] = "prune"
  /\ pc[p] \in {"compact_open", "compact_write"} => cmd[p] = "compact"
  /\ pc[p] \in {"build", "index"} => Covers(mem[p], tree[p])
  /\ pc[p] = "snapshot" => Covers(index, tree[p])
  /\ pc[p] = "delete" => Covers(mem[p], EmptyMap)
  /\ pc[p] \notin {"build", "index", "snapshot"} => tree[p] = EmptyMap
  /\ pc[p] \in {"prune_open", "delete"} => VictimsThere(p)
  /\ pc[p] \in {"compact_open", "compact_write"} => Referenced \subseteq live[p]

\* The inductive invariant behind RefsCover.
RefsInv == RefsCover /\ \A p \in Procs : RefsKnown(p)

-----------------------------------------------------------------------------
\* Counting.  The places where a map of snapshots holds a chunk, and those one
\* tree adds.

Holders(S, c) ==
  {sf \in (DOMAIN S) \X Files : sf[2] \in DOMAIN S[sf[1]].tree /\ S[sf[1]].tree[sf[2]] = c}

FilesWith(t, c) == {f \in DOMAIN t : t[f] = c}

Column(s, t, c) == {s} \X FilesWith(t, c)

LEMMA FilesWithFinite ==
  ASSUME NEW t, Tree(t), NEW c
  PROVE  /\ IsFiniteSet(FilesWith(t, c)) /\ FilesWith(t, c) \subseteq Files
         /\ Cardinality(FilesWith(t, c)) = Uses(t, c)
<1>1. FilesWith(t, c) \in SUBSET Files
  BY DEF FilesWith, Tree
<1>2. IsFiniteSet(FilesWith(t, c))
  BY <1>1, RepositoryAssumption, FS_Subset
<1> QED
  BY <1>1, <1>2 DEF FilesWith, Uses

LEMMA HoldersFinite ==
  ASSUME NEW n \in Nat, NEW S, IsSnapshots(S, n), NEW c
  PROVE  IsFiniteSet(Holders(S, c)) /\ Cardinality(Holders(S, c)) \in Nat
<1>1. IsFiniteSet(1 .. n)
  BY FS_Interval
<1>2. IsFiniteSet(DOMAIN S)
  BY <1>1, FS_Subset DEF IsSnapshots
<1>3. IsFiniteSet((DOMAIN S) \X Files)
  BY <1>2, FS_Product, RepositoryAssumption
<1>4. Holders(S, c) \in SUBSET ((DOMAIN S) \X Files)
  BY DEF Holders
<1> QED
  BY <1>3, <1>4, FS_Subset, FS_CardinalityType

\* A snapshot holds a chunk as often as its tree uses it.
LEMMA ColumnSize ==
  ASSUME NEW s, NEW t, Tree(t), NEW c
  PROVE  IsFiniteSet(Column(s, t, c)) /\ Cardinality(Column(s, t, c)) = Uses(t, c)
<1>1. /\ IsFiniteSet(FilesWith(t, c))
      /\ Cardinality(FilesWith(t, c)) = Uses(t, c)
  BY FilesWithFinite
<1>2. IsFiniteSet({s}) /\ Cardinality({s}) = 1
  BY FS_Singleton
<1>3. Uses(t, c) \in Nat
  BY UsesNat
<1>4. /\ IsFiniteSet({s} \X FilesWith(t, c))
      /\ Cardinality({s} \X FilesWith(t, c)) = 1 * Cardinality(FilesWith(t, c))
  BY <1>1, <1>2, FS_Product
<1> QED
  BY <1>1, <1>3, <1>4 DEF Column

\* Deleting a snapshot takes away what its tree uses, no more and no less.
LEMMA DeleteCount ==
  ASSUME NEW n \in Nat, NEW S, IsSnapshots(S, n), NEW s \in DOMAIN S, NEW c
  PROVE  Cardinality(Holders(S, c)) =
           Cardinality(Holders(Remove(S, s), c)) + Uses(S[s].tree, c)
<1> DEFINE H == Holders(Remove(S, s), c)
           K == Column(s, S[s].tree, c)
<1>1. Tree(S[s].tree) /\ IsSnapshots(Remove(S, s), n)
  BY RemoveSnapshots DEF IsSnapshots
<1>2. DOMAIN Remove(S, s) = DOMAIN S \ {s} /\ \A r \in DOMAIN S \ {s} : Remove(S, s)[r] = S[r]
  BY DEF Remove, Restrict
<1>3. IsFiniteSet(H) /\ Cardinality(H) \in Nat
  BY <1>1, HoldersFinite
<1>4. IsFiniteSet(K) /\ Cardinality(K) = Uses(S[s].tree, c) /\ Uses(S[s].tree, c) \in Nat
  BY <1>1, ColumnSize, UsesNat
<1>5. H \cap K = {}
  BY <1>2 DEF Holders, Column
<1>6. Holders(S, c) = H \cup K
  <2>1. ASSUME NEW x \in Holders(S, c) PROVE x \in H \cup K
    <3>1. PICK r \in DOMAIN S, f \in Files : x = <<r, f>>
      BY DEF Holders
    <3>2. f \in DOMAIN S[r].tree /\ S[r].tree[f] = c
      BY <3>1 DEF Holders
    <3>3. CASE r = s
      BY <3>1, <3>2, <3>3 DEF Column, FilesWith
    <3>4. CASE r # s
      BY <1>2, <3>1, <3>2, <3>4 DEF Holders
    <3> QED
      BY <3>3, <3>4
  <2>2. H \subseteq Holders(S, c)
    BY <1>2 DEF Holders
  <2>3. K \subseteq Holders(S, c)
    BY <1>1 DEF Holders, Column, FilesWith, Tree
  <2> QED
    BY <2>1, <2>2, <2>3
<1> HIDE DEF H, K
<1>7. Cardinality(H \cup K) = Cardinality(H) + Cardinality(K) - Cardinality(H \cap K)
  BY <1>3, <1>4, FS_Union
<1>8. Cardinality(H \cap K) = 0
  BY <1>5, FS_EmptySet
<1> QED
  BY <1>3, <1>4, <1>6, <1>7, <1>8 DEF H

\* Saving one adds what its tree uses.
LEMMA SaveCount ==
  ASSUME NEW n \in Nat, NEW S, IsSnapshots(S, n),
         NEW r \in Files \cup {DirRoot}, NEW t, Tree(t), NEW c
  PROVE  Cardinality(Holders(Put(S, n + 1, [root |-> r, tree |-> t]), c)) =
           Cardinality(Holders(S, c)) + Uses(t, c)
<1> DEFINE T == Put(S, n + 1, [root |-> r, tree |-> t])
<1>1. IsSnapshots(T, n + 1)
  BY PutSnapshots
<1>2. n + 1 \notin DOMAIN S
  BY DEF IsSnapshots
<1>3. n + 1 \in DOMAIN T /\ T[n + 1] = [root |-> r, tree |-> t]
  BY DEF Put
<1>4. DOMAIN Remove(T, n + 1) = DOMAIN S /\ \A s \in DOMAIN S : Remove(T, n + 1)[s] = S[s]
  BY <1>2 DEF Put, Remove, Restrict
<1> HIDE DEF T
<1>5. Holders(Remove(T, n + 1), c) = Holders(S, c)
  BY <1>4 DEF Holders
<1>6. Cardinality(Holders(T, c)) = Cardinality(Holders(Remove(T, n + 1), c)) + Uses(T[n + 1].tree, c)
  BY <1>1, <1>3, DeleteCount
<1> QED
  BY <1>3, <1>5, <1>6 DEF T

\* Putting a file into a tree adds one use of its chunk at most.
LEMMA PutUses ==
  ASSUME NEW t, Tree(t), NEW f \in Files, NEW c \in Chunks, NEW d
  PROVE  Uses(Put(t, f, c), d) <= Uses(t, d) + (IF d = c THEN 1 ELSE 0)
<1> DEFINE T == Put(t, f, c)
<1>1. Tree(T)
  BY PutTree
<1>2. DOMAIN T = DOMAIN t \cup {f} /\ \A g \in DOMAIN T : T[g] = IF g = f THEN c ELSE t[g]
  BY DEF Put
<1> HIDE DEF T
<1>3. /\ IsFiniteSet(FilesWith(t, d)) /\ Cardinality(FilesWith(t, d)) = Uses(t, d)
      /\ IsFiniteSet(FilesWith(T, d)) /\ Cardinality(FilesWith(T, d)) = Uses(T, d)
      /\ Uses(t, d) \in Nat /\ Uses(T, d) \in Nat
  BY <1>1, FilesWithFinite, UsesNat
<1>4. CASE d = c
  <2>1. FilesWith(T, d) \subseteq FilesWith(t, d) \cup {f}
    BY <1>2 DEF FilesWith
  <2>2. /\ IsFiniteSet(FilesWith(t, d) \cup {f})
        /\ Cardinality(FilesWith(t, d) \cup {f}) <= Uses(t, d) + 1
    <3>1. /\ IsFiniteSet(FilesWith(t, d) \cup {f})
          /\ Cardinality(FilesWith(t, d) \cup {f}) =
               IF f \in FilesWith(t, d) THEN Uses(t, d) ELSE Uses(t, d) + 1
      BY <1>3, FS_AddElement, Zenon
    <3> QED
      BY <1>3, <3>1
  <2>3. Cardinality(FilesWith(t, d) \cup {f}) \in Nat
    BY <2>2, FS_CardinalityType
  <2>4. Cardinality(FilesWith(T, d)) <= Cardinality(FilesWith(t, d) \cup {f})
    BY <2>1, <2>2, FS_Subset
  <2> QED
    BY <1>3, <1>4, <2>2, <2>3, <2>4 DEF T
<1>5. CASE d # c
  <2>1. FilesWith(T, d) \subseteq FilesWith(t, d)
    BY <1>2, <1>5 DEF FilesWith
  <2>2. Cardinality(FilesWith(T, d)) <= Cardinality(FilesWith(t, d))
    BY <1>3, <2>1, FS_Subset
  <2> QED
    BY <1>3, <1>5, <2>2 DEF T
<1> QED
  BY <1>4, <1>5

\* The empty tree uses nothing.
LEMMA NoUses ==
  ASSUME NEW c
  PROVE  Uses(EmptyMap, c) = 0
<1>1. {f \in DOMAIN EmptyMap : EmptyMap[f] = c} = {}
  BY DEF EmptyMap
<1> QED
  BY <1>1, FS_EmptySet DEF Uses

\* Occurrences counts the holders of the snapshots on disk.
LEMMA OccurrencesNat ==
  ASSUME TypeOK, NEW c
  PROVE  Occurrences(c) = Cardinality(Holders(snaps, c)) /\ Occurrences(c) \in Nat
<1>1. Occurrences(c) = Cardinality(Holders(snaps, c))
  BY DEF Occurrences, Holders
<1>2. Cardinality(Holders(snaps, c)) \in Nat
  BY TypePieces, HoldersFinite DEF SnapsOK
<1> QED
  BY <1>1, <1>2

\* A chunk some snapshot holds occurs.
LEMMA HeldOccurs ==
  ASSUME TypeOK, NEW s \in DOMAIN snaps, NEW f \in DOMAIN snaps[s].tree
  PROVE  snaps[s].tree[f] \in Chunks /\ Occurrences(snaps[s].tree[f]) > 0
<1> DEFINE c == snaps[s].tree[f]
<1>1. Tree(snaps[s].tree) /\ f \in Files /\ c \in Chunks
  BY TypePieces DEF SnapsOK, IsSnapshots, Tree
<1>2. <<s, f>> \in Holders(snaps, c)
  BY <1>1 DEF Holders
<1>3. IsFiniteSet(Holders(snaps, c)) /\ Cardinality(Holders(snaps, c)) \in Nat
  BY TypePieces, HoldersFinite DEF SnapsOK
<1> HIDE DEF c
<1>4. Cardinality(Holders(snaps, c)) # 0
  BY <1>2, <1>3, FS_EmptySet
<1> QED
  BY <1>1, <1>3, <1>4, OccurrencesNat DEF c

\* A chunk that occurs is one a snapshot refers to.
LEMMA OccursReferenced ==
  ASSUME TypeOK, NEW c, Occurrences(c) > 0
  PROVE  c \in Referenced
<1>1. Cardinality(Holders(snaps, c)) # 0
  BY OccurrencesNat
<1>2. Holders(snaps, c) # {}
  BY <1>1, FS_EmptySet
<1>3. PICK x \in Holders(snaps, c) : TRUE
  BY <1>2
<1>4. PICK s \in DOMAIN snaps, f \in Files : x = <<s, f>>
  BY <1>3 DEF Holders
<1>5. f \in DOMAIN snaps[s].tree /\ snaps[s].tree[f] = c
  BY <1>3, <1>4 DEF Holders
<1> QED
  BY <1>5 DEF Referenced, ChunksOf

-----------------------------------------------------------------------------
\* Other processes.

\* A step changes the command, the tree and the victims of its own process only,
LEMMA OthersPlans ==
  ASSUME TypeOK, NEW p \in Procs, Step(p) \/ Crash(p), NEW q \in Procs \ {p}
  PROVE  /\ cmd'[q] = cmd[q] /\ victims'[q] = victims[q]
         /\ tree'[q] = tree[q] /\ todo'[q] = todo[q]
<1> USE TypePieces DEF ControlOK, BackupOK, VictimsOK, handleVars, diskVars,
        controlVars, compactVars, backupVars
<1>1. CASE OpenFails(p) \/ Crash(p)
  BY <1>1 DEF OpenFails, Crash, EndCommand, ForgetAll, ForgetBackup, ForgetVictims
<1>2. CASE PruneStep(p) /\ UNCHANGED <<backupVars, compactVars>>
  <2>1. CASE PruneList(p)
    BY <1>2, <2>1 DEF PruneList, Start
  <2>2. CASE PruneOpen(p) \/ AutoPruneOpen(p) \/ DeleteOpen(p)
    BY <1>2, <2>2 DEF PruneOpen, AutoPruneOpen, DeleteOpen, Goto, Start
  <2>3. CASE DeleteOne(p)
    BY <1>2, <2>3 DEF DeleteOne
  <2>4. CASE DeleteSave(p)
    BY <1>2, <2>4 DEF DeleteSave, EndCommand, Goto
  <2> QED
    BY <1>2, <2>1, <2>2, <2>3, <2>4 DEF PruneStep
<1>3. CASE BackupStep(p) /\ UNCHANGED compactVars
  <2>1. CASE \E command, root : BackupOpen(p, command, root) \/ BackupOverLimit(p, command, root)
    BY <1>3, <2>1 DEF BackupOpen, BackupOverLimit, Start
  <2>2. CASE BackupReopen(p) \/ IncList(p) \/ IncOpen(p)
    BY <1>3, <2>2 DEF BackupReopen, IncList, IncOpen, Goto, Start
  <2>3. CASE \E f, c : StoreFile(p, f, c) \/ StoreThenSkip(p, f, c)
    BY <1>3, <2>3 DEF StoreFile, StoreThenSkip, Building
  <2>4. CASE \E f, c : \/ FailFile(p, f, c) \/ ReuseFile(p, f) \/ SkipFile(p, f)
                       \/ RemoveFile(p, f) \/ StoreParity(p, c) \/ ParityFails(p, c)
    BY <1>3, <2>4 DEF FailFile, ReuseFile, SkipFile, RemoveFile, Building,
       StoreParity, ParityFails, FlushingGroup
  <2>5. CASE FinishFlush(p) \/ SysSnapshot(p)
    BY <1>3, <2>5 DEF FinishFlush, SysSnapshot, Goto
  <2>6. CASE FinishIndex(p) \/ FinishSnapshot(p)
    BY <1>3, <2>6 DEF FinishIndex, FinishSnapshot, EndCommand, Goto, ForgetBackup
  <2> QED
    BY <1>3, <2>1, <2>2, <2>3, <2>4, <2>5, <2>6 DEF BackupStep
<1>4. CASE CompactStep(p) /\ UNCHANGED <<victims, backupVars>>
  BY <1>4 DEF CompactStep, CompactCollect, CompactOpen, CompactNothing, CompactWrite,
     CompactIndex, CompactDelete, CompactDone, EndCommand, Goto, Start
<1> QED
  BY <1>1, <1>2, <1>3, <1>4 DEF Step

\* and the snapshots only while it holds the lock.
LEMMA SnapsNeedLock ==
  ASSUME NEW p \in Procs, Step(p) \/ Crash(p), pc[p] \notin Holding
  PROVE  UNCHANGED snaps
<1> USE DEF diskVars, Holding, Handling
<1>1. CASE OpenFails(p) \/ Crash(p)
  BY <1>1 DEF OpenFails, Crash
<1>2. CASE PruneStep(p)
  BY <1>2 DEF PruneStep, PruneList, AutoPruneOpen, PruneOpen, DeleteOpen, DeleteOne, DeleteSave
<1>3. CASE BackupStep(p)
  BY <1>3 DEF BackupStep, BackupOpen, BackupOverLimit, BackupReopen, IncList, IncOpen,
     StoreFile, StoreThenSkip, FailFile, ReuseFile, SkipFile, RemoveFile, Building,
     StoreParity, ParityFails, FlushingGroup,
     FinishFlush, FinishIndex, FinishSnapshot, SysSnapshot, Built
<1>4. CASE CompactStep(p)
  BY <1>4 DEF CompactStep, CompactCollect, CompactOpen, CompactNothing, CompactWrite,
     CompactIndex, CompactDelete, CompactDone
<1> QED
  BY <1>1, <1>2, <1>3, <1>4 DEF Step

\* So what the others know stays true: while one process holds the lock the
\* others have nothing open, and if they hold a list of what to delete or to
\* keep, then there is no other process.
LEMMA OthersKnow ==
  ASSUME TypeOK, HandlesConsistent, CoveredUse, NEW p \in Procs, Step(p) \/ Crash(p),
         NEW q \in Procs \ {p}, RefsKnown(q)
  PROVE  RefsKnown(q)'
<1>1. /\ Unmoved(q)
      /\ cmd'[q] = cmd[q] /\ tree'[q] = tree[q] /\ victims'[q] = victims[q]
  BY StepIsLocal, OthersPlans
<1>2. CASE pc[p] \in Holding
  <2>1. pc[q] \notin Holding
    BY <1>2 DEF HandlesConsistent, LockHeld
  <2>2. pc[q] \notin {"prune_open", "compact_open"}
    BY DEF CoveredUse, RefsKnown
  <2> QED
    BY <1>1, <2>1, <2>2 DEF RefsKnown, Unmoved, Holding, Handling
<1>3. CASE pc[p] \notin Holding
  <2>1. UNCHANGED <<index, snaps>>
    BY <1>3, DiskNeedsLock, SnapsNeedLock
  <2> QED
    BY <1>1, <2>1 DEF RefsKnown, Unmoved, Covers, VictimsThere, Referenced, Occurrences
<1> QED
  BY <1>2, <1>3

-----------------------------------------------------------------------------
\* The process that takes the step: what it leaves of the invariant.

RefsKept(p) == RefsCover' /\ RefsKnown(p)'

\* The saved counts cover the snapshots, if the snapshots and the index stay.
LEMMA CoverStays ==
  ASSUME RefsCover, UNCHANGED <<index, snaps>>
  PROVE  RefsCover'
  BY DEF RefsCover, Occurrences

\* A handle that has just loaded the index knows of every reference.
LEMMA LoadedCovers ==
  ASSUME TypeOK, RefsCover
  PROVE  Covers(index, EmptyMap)
<1>1. \A c : Uses(EmptyMap, c) = 0 /\ Occurrences(c) \in Nat
  BY NoUses, OccurrencesNat
<1> QED
  BY <1>1 DEF RefsCover, Covers

\* Counts that cover the snapshots and a tree can be saved.
LEMMA CoversEnough ==
  ASSUME TypeOK, NEW idx, IsIndex(idx), NEW t, Tree(t), Covers(idx, t),
         index' = idx, UNCHANGED snaps
  PROVE  RefsCover'
<1>1. \A c : Occurrences(c)' = Occurrences(c)
  BY DEF Occurrences
<1>2. ASSUME NEW c \in Chunks, Occurrences(c) > 0
      PROVE  c \in DOMAIN idx /\ idx[c].refs >= Occurrences(c)
  <2>1. Uses(t, c) \in Nat /\ Occurrences(c) \in Nat
    BY UsesNat, OccurrencesNat
  <2>2. c \in DOMAIN idx /\ idx[c].refs >= Occurrences(c) + Uses(t, c)
    BY <1>2, <2>1 DEF Covers
  <2>3. idx[c].refs \in Nat
    BY <2>2 DEF IsIndex, Meta
  <2> QED
    BY <2>1, <2>2, <2>3
<1> QED
  BY <1>1, <1>2 DEF RefsCover

\* A command that is over knows nothing.
LEMMA IdleKnown ==
  ASSUME NEW p \in Procs, pc'[p] = "idle", cmd'[p] = "none", tree'[p] = EmptyMap
  PROVE  RefsKnown(p)'
  BY DEF RefsKnown

LEMMA EndKnown ==
  ASSUME TypeOK, NEW p \in Procs, EndCommand(p), tree'[p] = EmptyMap
  PROVE  RefsKnown(p)'
<1>1. pc'[p] = "idle" /\ cmd'[p] = "none"
  BY TypePieces DEF EndCommand, ControlOK
<1> QED
  BY <1>1, IdleKnown

-----------------------------------------------------------------------------
\* Deleting snapshots.

LEMMA DeleteOneRefs ==
  ASSUME TypeOK, RefsInv, NEW p \in Procs, DeleteOne(p), UNCHANGED backupVars
  PROVE  RefsKept(p)
<1> USE TypePieces DEF HandleOK, SnapsOK, VictimsOK
<1>1. PICK s \in DOMAIN victims[p] :
        /\ mem' = [mem EXCEPT ![p] = DropRefs(@, victims[p][s].tree)]
        /\ snaps' = Remove(snaps, s)
        /\ victims' = [victims EXCEPT ![p] = Remove(@, s)]
  BY DEF DeleteOne, NewestFirst, OldestFirst
<1>2. pc[p] = "delete" /\ UNCHANGED <<index, clock, pc, cmd, tree>>
  BY DEF DeleteOne, controlVars, backupVars
<1> DEFINE t == snaps[s].tree
<1>3. s \in DOMAIN snaps /\ snaps[s] = victims[p][s] /\ Tree(t)
  BY <1>2 DEF RefsInv, RefsKnown, VictimsThere, IsSnapshots
<1>4. mem'[p] = DropRefs(mem[p], t) /\ IsIndex(mem[p]) /\ Covers(mem[p], EmptyMap)
  BY <1>1, <1>2, <1>3 DEF RefsInv, RefsKnown
<1>5. ASSUME NEW c PROVE Occurrences(c) = Occurrences(c)' + Uses(t, c) /\ Occurrences(c)' \in Nat
  <2>1. Cardinality(Holders(snaps, c)) = Cardinality(Holders(Remove(snaps, s), c)) + Uses(t, c)
    BY <1>3, DeleteCount
  <2>2. Cardinality(Holders(Remove(snaps, s), c)) \in Nat
    BY RemoveSnapshots, HoldersFinite
  <2>3. Occurrences(c)' = Cardinality(Holders(Remove(snaps, s), c))
    BY <1>1 DEF Occurrences, Holders
  <2> QED
    BY <2>1, <2>2, <2>3, OccurrencesNat
<1> HIDE DEF t
<1>6. ASSUME NEW c \in Chunks, Occurrences(c)' > 0
      PROVE  /\ c \in DOMAIN index /\ index[c].refs >= Occurrences(c)'
             /\ c \in DOMAIN mem'[p] /\ mem'[p][c].refs >= Occurrences(c)'
  <2>1. Uses(t, c) \in Nat /\ Uses(EmptyMap, c) = 0 /\ Occurrences(c) \in Nat
    BY <1>3, UsesNat, NoUses, OccurrencesNat
  <2>2. Occurrences(c) >= Occurrences(c)' /\ Occurrences(c) > 0
    BY <1>5, <1>6, <2>1
  <2>3. c \in DOMAIN index /\ index[c].refs >= Occurrences(c) /\ index[c].refs \in Nat
    BY <2>2 DEF RefsInv, RefsCover, IsIndex, Meta
  <2>4. c \in DOMAIN mem[p] /\ mem[p][c].refs >= Occurrences(c)
    BY <1>4, <2>1, <2>2 DEF Covers
  <2>5. mem[p][c] \in Meta /\ mem[p][c].refs \in Nat
    BY <1>4, <2>4 DEF IsIndex, Meta
  <2>6. mem[p][c].refs - Uses(t, c) >= Occurrences(c)' /\ ~(mem[p][c].refs <= Uses(t, c))
    BY <1>5, <1>6, <2>1, <2>4, <2>5
  <2>7. c \in DOMAIN mem'[p] /\ mem'[p][c].refs = mem[p][c].refs - Uses(t, c)
    BY <1>4, <2>4, <2>5, <2>6 DEF DropRefs, Meta
  <2>8. index[c].refs >= Occurrences(c)'
    BY <1>5, <2>1, <2>2, <2>3
  <2> QED
    BY <2>3, <2>6, <2>7, <2>8
<1>7. RefsCover'
  BY <1>2, <1>6 DEF RefsCover
<1>8. Covers(mem[p], EmptyMap)'
  <2>1. \A c : Uses(EmptyMap, c) = 0
    BY NoUses
  <2>2. EmptyMap' = EmptyMap
    BY DEF EmptyMap
  <2> QED
    BY <1>5, <1>6, <2>1, <2>2 DEF Covers
<1>9. VictimsThere(p)'
  <2>1. /\ DOMAIN victims'[p] = DOMAIN victims[p] \ {s}
        /\ \A r \in DOMAIN victims'[p] : victims'[p][r] = victims[p][r]
    BY <1>1 DEF Remove, Restrict
  <2>2. /\ DOMAIN snaps' = DOMAIN snaps \ {s}
        /\ \A r \in DOMAIN snaps' : snaps'[r] = snaps[r]
    BY <1>1 DEF Remove, Restrict
  <2> QED
    BY <1>2, <2>1, <2>2 DEF RefsInv, RefsKnown, VictimsThere
<1>10. RefsKnown(p)'
  BY <1>2, <1>8, <1>9 DEF RefsInv, RefsKnown
<1> QED
  BY <1>7, <1>10 DEF RefsKept

\* The prune command and automatic pruning.
LEMMA PruneRefs ==
  ASSUME TypeOK, RefsInv, CoveredUse, NEW p \in Procs, PruneStep(p), UNCHANGED backupVars
  PROVE  RefsKept(p)
<1> USE TypePieces DEF HandleOK, ControlOK, VictimsOK, RefsInv, diskVars, handleVars, backupVars
<1>0. tree'[p] = tree[p] /\ (pc[p] \notin {"build", "index", "snapshot"} => tree[p] = EmptyMap)
  BY DEF RefsKnown
<1>1. CASE PruneList(p)
  <2>1. /\ pc[p] = "idle" /\ pc'[p] = "prune_open" /\ cmd'[p] = "prune"
        /\ "prune" \in Commands /\ UNCHANGED <<index, snaps>>
    BY <1>1 DEF PruneList, Start
  <2>2. VictimsThere(p)'
    BY <1>1, <2>1 DEF PruneList, GivenUp, VictimsThere, Restrict
  <2>3. RefsKnown(p)'
    BY <1>0, <2>1, <2>2 DEF RefsKnown
  <2> QED
    BY <2>1, <2>3, CoverStays DEF RefsKept
<1>2. CASE PruneOpen(p)
  <2>1. /\ pc[p] = "prune_open" /\ pc'[p] = "delete" /\ cmd'[p] = cmd[p]
        /\ mem'[p] = index /\ UNCHANGED <<index, snaps, victims>>
    BY <1>2 DEF PruneOpen, Open, Goto
  <2>2. Covers(mem[p], EmptyMap)'
    BY <2>1, LoadedCovers DEF Covers, EmptyMap, Occurrences
  <2>3. RefsKnown(p)'
    BY <1>0, <2>1, <2>2 DEF RefsKnown, VictimsThere
  <2> QED
    BY <2>1, <2>3, CoverStays DEF RefsKept
<1>3. CASE AutoPruneOpen(p)
  <2>1. /\ pc[p] = "idle" /\ pc'[p] = "auto_delete" /\ cmd'[p] \in Commands
        /\ UNCHANGED <<index, snaps>>
    BY <1>3 DEF AutoPruneOpen, Start
  <2>2. RefsKnown(p)'
    BY <1>0, <2>1 DEF RefsKnown
  <2> QED
    BY <2>1, <2>2, CoverStays DEF RefsKept
<1>4. CASE DeleteOpen(p)
  <2>1. /\ pc[p] = "auto_prune" /\ pc'[p] = "delete" /\ cmd'[p] = cmd[p]
        /\ mem'[p] = index /\ UNCHANGED <<index, snaps>>
    BY <1>4 DEF DeleteOpen, Open, Goto
  <2>2. Covers(mem[p], EmptyMap)'
    BY <2>1, LoadedCovers DEF Covers, EmptyMap, Occurrences
  <2>3. VictimsThere(p)'
    BY <1>4, <2>1 DEF DeleteOpen, VictimsThere, Restrict
  <2>4. RefsKnown(p)'
    BY <1>0, <2>1, <2>2, <2>3 DEF RefsKnown
  <2> QED
    BY <2>1, <2>4, CoverStays DEF RefsKept
<1>5. CASE DeleteSave(p)
  <2>1. pc[p] = "delete" /\ index' = mem[p] /\ UNCHANGED snaps
    BY <1>5 DEF DeleteSave, SaveIndex
  <2>2. RefsCover'
    BY <2>1, CoversEnough, EmptyMapTypes DEF RefsKnown
  <2>3. CASE EndCommand(p)
    BY <1>0, <2>1, <2>2, <2>3, EndKnown DEF RefsKept
  <2>4. CASE Goto(p, "reopen")
    <3>1. pc'[p] = "reopen" /\ cmd'[p] = cmd[p]
      BY <2>4 DEF Goto
    <3> QED
      BY <1>0, <2>1, <2>2, <3>1 DEF RefsKept, RefsKnown
  <2> QED
    BY <1>5, <2>3, <2>4 DEF DeleteSave
<1> QED
  BY <1>1, <1>2, <1>3, <1>4, <1>5, DeleteOneRefs DEF PruneStep

-----------------------------------------------------------------------------
\* Building a tree.

\* The count of chunk c went up by one, and no other changed.
Counted(old1, new1, c) ==
  /\ DOMAIN new1 = DOMAIN old1 \cup {c}
  /\ \A d \in DOMAIN old1 : new1[d].refs = old1[d].refs + IF d = c THEN 1 ELSE 0
  /\ c \notin DOMAIN old1 => new1[c].refs = 1

\* Then they cover the tree with a file that holds c, and the tree without it.
LEMMA CountedCovers ==
  ASSUME TypeOK, NEW t, Tree(t), NEW idx, IsIndex(idx), Covers(idx, t),
         NEW idx2, IsIndex(idx2), NEW c \in Chunks, Counted(idx, idx2, c)
  PROVE  /\ Covers(idx2, t)
         /\ \A f \in Files : Covers(idx2, Put(t, f, c))
<1>1. ASSUME NEW n \in Nat, NEW d \in Chunks,
             n <= Uses(t, d) + (IF d = c THEN 1 ELSE 0), Occurrences(d) + n > 0
      PROVE  d \in DOMAIN idx2 /\ idx2[d].refs >= Occurrences(d) + n
  <2>1. Uses(t, d) \in Nat /\ Occurrences(d) \in Nat
    BY UsesNat, OccurrencesNat
  <2>2. CASE Occurrences(d) + Uses(t, d) > 0
    <3>1. d \in DOMAIN idx /\ idx[d].refs >= Occurrences(d) + Uses(t, d)
      BY <2>2 DEF Covers
    <3>2. idx[d].refs \in Nat
      BY <3>1 DEF IsIndex, Meta
    <3>3. d \in DOMAIN idx2 /\ idx2[d].refs = idx[d].refs + IF d = c THEN 1 ELSE 0
      BY <3>1 DEF Counted
    <3>4. CASE d = c
      BY <1>1, <2>1, <3>1, <3>2, <3>3, <3>4
    <3>5. CASE d # c
      BY <1>1, <2>1, <3>1, <3>2, <3>3, <3>5
    <3> QED
      BY <3>4, <3>5
  <2>3. CASE ~(Occurrences(d) + Uses(t, d) > 0)
    <3>1. Occurrences(d) = 0 /\ d = c /\ n = 1
      BY <1>1, <2>1, <2>3
    <3>2. d \in DOMAIN idx2 /\ idx2[d].refs >= 1
      BY <3>1 DEF Counted, IsIndex, Meta
    <3> QED
      BY <3>1, <3>2
  <2> QED
    BY <2>2, <2>3
<1>2. Covers(idx2, t)
  <2>1. \A d : Uses(t, d) \in Nat /\ Uses(t, d) <= Uses(t, d) + (IF d = c THEN 1 ELSE 0)
    BY UsesNat
  <2> QED
    BY <1>1, <2>1 DEF Covers
<1>3. ASSUME NEW f \in Files PROVE Covers(idx2, Put(t, f, c))
  <2>1. \A d : /\ Uses(Put(t, f, c), d) \in Nat
               /\ Uses(Put(t, f, c), d) <= Uses(t, d) + (IF d = c THEN 1 ELSE 0)
    BY PutTree, UsesNat, PutUses
  <2> QED
    BY <1>1, <2>1 DEF Covers
<1> QED
  BY <1>2, <1>3

\* Relocating entries changes no count.
LEMMA RelocateRefs ==
  ASSUME NEW idx, IsIndex(idx), NEW S, NEW k
  PROVE  /\ DOMAIN Relocate(idx, S, k) = DOMAIN idx
         /\ \A d \in DOMAIN idx : Relocate(idx, S, k)[d].refs = idx[d].refs
  BY DEF Relocate, IsIndex, Meta

\* Storing a chunk counts it once.
LEMMA StoreChunkCounted ==
  ASSUME TypeOK, NEW p \in Procs, NEW c \in Chunks, StoreChunk(p, c)
  PROVE  IsIndex(mem'[p]) /\ Counted(mem[p], mem'[p], c)
<1>1. DOMAIN mem = Procs /\ IsIndex(mem[p])
  BY TypePieces DEF HandleOK
<1>2. \A d \in DOMAIN mem[p] : mem[p][d] \in Meta /\ mem[p][d].refs \in Nat
  BY <1>1 DEF IsIndex, Meta
<1>3. IsIndex(mem'[p])
  BY StoreChunkTypes DEF HandleOK
<1>4. CASE StoreDuplicate(p, c)
  BY <1>1, <1>2, <1>3, <1>4 DEF StoreDuplicate, AddRef, Meta, Counted
<1>5. CASE StoreBuffered(p, c)
  BY <1>1, <1>2, <1>3, <1>5 DEF StoreBuffered, Put, Counted
<1>6. CASE StoreFlushed(p, c)
  <2> DEFINE idx == Relocate(mem[p], buf[p] \cup {c}, nextPack[p])
  <2>1. c \notin DOMAIN mem[p] /\ mem'[p] = Put(idx, c, [refs |-> 1, pack |-> nextPack[p]])
    BY <1>1, <1>6 DEF StoreFlushed
  <2>2. DOMAIN idx = DOMAIN mem[p] /\ \A d \in DOMAIN idx : idx[d].refs = mem[p][d].refs
    BY <1>1, RelocateRefs
  <2> HIDE DEF idx
  <2> QED
    BY <1>2, <1>3, <2>1, <2>2 DEF Put, Counted
<1> QED
  BY <1>3, <1>4, <1>5, <1>6 DEF StoreChunk

\* Looking at a file of the source.
LEMMA BuildRefs ==
  ASSUME TypeOK, RefsInv, CoveredUse, NEW p \in Procs, NEW f \in Files, NEW c,
         \/ /\ c \in Chunks
            /\ StoreFile(p, f, c) \/ StoreThenSkip(p, f, c) \/ FailFile(p, f, c)
         \/ ReuseFile(p, f) \/ SkipFile(p, f) \/ RemoveFile(p, f)
  PROVE  RefsKept(p)
<1> USE TypePieces DEF HandleOK, BackupOK, RefsInv
<1>1. Building(p, f)
  BY DEF StoreFile, StoreThenSkip, FailFile, ReuseFile, SkipFile, RemoveFile
<1>2. pc[p] = "build" /\ UNCHANGED <<index, snaps, pc, cmd>>
  BY <1>1 DEF Building, controlVars
<1>3. cmd[p] # "inc" /\ Covers(mem[p], tree[p]) /\ IsIndex(mem[p]) /\ Tree(tree[p])
  BY <1>2 DEF RefsKnown, CoveredUse
<1>4. Covers(mem'[p], tree'[p])
  <2>1. CASE c \in Chunks /\ StoreFile(p, f, c)
    <3>1. StoreChunk(p, c) /\ tree'[p] = Put(tree[p], f, c)
      BY <2>1 DEF StoreFile
    <3>2. IsIndex(mem'[p]) /\ Counted(mem[p], mem'[p], c)
      BY <2>1, <3>1, StoreChunkCounted
    <3> QED
      BY <1>3, <2>1, <3>1, <3>2, CountedCovers
  <2>2. CASE c \in Chunks /\ StoreThenSkip(p, f, c)
    <3>1. StoreChunk(p, c) /\ tree'[p] = tree[p]
      BY <2>2 DEF StoreThenSkip
    <3>2. IsIndex(mem'[p]) /\ Counted(mem[p], mem'[p], c)
      BY <2>2, <3>1, StoreChunkCounted
    <3> QED
      BY <1>3, <2>2, <3>1, <3>2, CountedCovers
  <2>3. CASE FailFile(p, f, c)
    BY <1>3, <2>3 DEF FailFile, StoreChunkFails
  <2>4. CASE ReuseFile(p, f)
    <3>1. PICK s \in Newest :
            /\ f \in DOMAIN snaps[s].tree
            /\ tree' = [tree EXCEPT ![p] = Put(@, f, snaps[s].tree[f])]
            /\ mem' = [mem EXCEPT ![p] =
                 IF snaps[s].tree[f] \in DOMAIN @ THEN AddRef(@, snaps[s].tree[f]) ELSE @]
      BY <2>4 DEF ReuseFile
    <3> DEFINE d == snaps[s].tree[f]
    <3>2. d \in Chunks /\ Occurrences(d) > 0
      BY <3>1, HeldOccurs DEF Newest
    <3>3. d \in DOMAIN mem[p]
      <4>1. Uses(tree[p], d) \in Nat /\ Occurrences(d) \in Nat
        BY <1>3, UsesNat, OccurrencesNat
      <4>2. Occurrences(d) + Uses(tree[p], d) > 0
        BY <3>2, <4>1
      <4> QED
        BY <1>3, <3>2, <4>2 DEF Covers
    <3>4. mem'[p] = AddRef(mem[p], d) /\ tree'[p] = Put(tree[p], f, d)
      BY <3>1, <3>3
    <3> HIDE DEF d
    <3>5. \A e \in DOMAIN mem[p] : mem[p][e] \in Meta /\ mem[p][e].refs \in Nat
      BY <1>3 DEF IsIndex, Meta
    <3>6. Counted(mem[p], mem'[p], d)
      BY <3>3, <3>4, <3>5 DEF AddRef, Meta, Counted
    <3>7. IsIndex(mem'[p])
      BY <1>3, <3>3, <3>4, AddRefIndex
    <3> QED
      BY <1>3, <3>2, <3>4, <3>6, <3>7, CountedCovers
  <2>5. CASE SkipFile(p, f) \/ RemoveFile(p, f)
    BY <1>3, <2>5 DEF SkipFile, RemoveFile
  <2> QED
    BY <2>1, <2>2, <2>3, <2>4, <2>5
<1>5. Covers(mem[p], tree[p])'
  BY <1>2, <1>4 DEF Covers, Occurrences
<1>6. RefsKnown(p)'
  BY <1>2, <1>5 DEF RefsKnown
<1> QED
  BY <1>2, <1>6, CoverStays DEF RefsKept

\* Storing parity only counts more.
LEMMA ParityRefs ==
  ASSUME TypeOK, RefsInv, NEW p \in Procs, NEW c \in ParityChunks,
         StoreParity(p, c) \/ ParityFails(p, c)
  PROVE  RefsKept(p)
<1> USE TypePieces DEF HandleOK, BackupOK, RefsInv
<1>1. /\ pc[p] = "build" /\ UNCHANGED <<index, snaps, pc, cmd, tree>>
      /\ c \in Chunks
  BY BackupAssumption DEF StoreParity, ParityFails, FlushingGroup, controlVars
<1>2. Covers(mem'[p], tree'[p])
  <2>1. Covers(mem[p], tree[p]) /\ IsIndex(mem[p]) /\ Tree(tree[p])
    BY <1>1 DEF RefsKnown
  <2>2. CASE StoreParity(p, c)
    <3>1. IsIndex(mem'[p]) /\ Counted(mem[p], mem'[p], c)
      BY <1>1, <2>2, StoreChunkCounted DEF StoreParity
    <3> QED
      BY <1>1, <2>1, <3>1, CountedCovers
  <2>3. CASE ParityFails(p, c)
    BY <1>1, <2>1, <2>3 DEF ParityFails, StoreChunkFails
  <2> QED
    BY <2>2, <2>3
<1>3. Covers(mem[p], tree[p])'
  BY <1>1, <1>2 DEF Covers, Occurrences
<1>4. RefsKnown(p)'
  BY <1>1, <1>3 DEF RefsKnown
<1> QED
  BY <1>1, <1>4, CoverStays DEF RefsKept

-----------------------------------------------------------------------------
\* Starting and finishing a backup.

LEMMA BackupStartRefs ==
  ASSUME TypeOK, RefsInv, CoveredUse, NEW p \in Procs, NEW command, NEW root,
         \/ BackupOpen(p, command, root)
         \/ BackupOverLimit(p, command, root)
         \/ BackupReopen(p)
  PROVE  RefsKept(p)
<1> USE TypePieces DEF HandleOK, ControlOK, RefsInv, diskVars, handleVars
<1>1. UNCHANGED <<index, snaps, tree>>
  BY DEF BackupOpen, BackupOverLimit, BackupReopen
<1>2. tree[p] = EmptyMap
  BY DEF RefsKnown, BackupOpen, BackupOverLimit, BackupReopen, Start
<1>3. CASE BackupOpen(p, command, root) \/ BackupReopen(p)
  <2>1. pc'[p] = "build" /\ cmd'[p] \in Commands \cup {"none"} /\ mem'[p] = index
    BY <1>3 DEF BackupOpen, BackupReopen, Open, Start, Goto, RefsKnown
  <2>2. Covers(mem[p], tree[p])'
    BY <1>1, <1>2, <2>1, LoadedCovers DEF Covers, Occurrences
  <2>3. RefsKnown(p)'
    BY <2>1, <2>2 DEF RefsKnown
  <2> QED
    BY <1>1, <2>3, CoverStays DEF RefsKept
<1>4. CASE BackupOverLimit(p, command, root)
  <2>1. pc'[p] = "auto_prune" /\ cmd'[p] \in Commands
    BY <1>4 DEF BackupOverLimit, Start
  <2>2. RefsKnown(p)'
    BY <1>1, <1>2, <2>1 DEF RefsKnown
  <2> QED
    BY <1>1, <2>2, CoverStays DEF RefsKept
<1> QED
  BY <1>3, <1>4

\* Flushing changes no count.
LEMMA FlushRefs ==
  ASSUME TypeOK, NEW p \in Procs, FlushPending(p)
  PROVE  /\ DOMAIN mem'[p] = DOMAIN mem[p]
         /\ \A d \in DOMAIN mem[p] : mem'[p][d].refs = mem[p][d].refs
<1> USE TypePieces DEF HandleOK
<1>1. CASE buf[p] = {}
  BY <1>1 DEF FlushPending
<1>2. CASE buf[p] # {}
  <2>1. mem'[p] = Relocate(mem[p], buf[p], nextPack[p])
    BY <1>2 DEF FlushPending
  <2> QED
    BY <2>1, RelocateRefs
<1> QED
  BY <1>1, <1>2

\* Saving the snapshot: the saved index already covers it.
LEMMA FinishSnapshotRefs ==
  ASSUME TypeOK, RefsInv, NEW p \in Procs, FinishSnapshot(p)
  PROVE  RefsKept(p)
<1> USE TypePieces DEF BackupOK, SnapsOK, RefsInv
<1>1. /\ pc[p] = "snapshot" /\ EndCommand(p) /\ tree'[p] = EmptyMap /\ index' = index
      /\ snaps' = Put(snaps, clock + 1, [root |-> src[p], tree |-> tree[p]])
  BY DEF FinishSnapshot, SaveSnapshot, NewSnapshot, ForgetBackup
<1>2. Tree(tree[p]) /\ src[p] \in Files \cup {DirRoot} /\ Covers(index, tree[p])
  BY <1>1 DEF RefsKnown
<1>3. ASSUME NEW c PROVE Occurrences(c)' = Occurrences(c) + Uses(tree[p], c)
  <2>1. Cardinality(Holders(snaps', c)) = Cardinality(Holders(snaps, c)) + Uses(tree[p], c)
    BY <1>1, <1>2, SaveCount
  <2>2. Occurrences(c)' = Cardinality(Holders(snaps', c))
    BY DEF Occurrences, Holders
  <2> QED
    BY <2>1, <2>2, OccurrencesNat
<1>4. RefsCover'
  BY <1>1, <1>2, <1>3 DEF RefsCover, Covers
<1> QED
  BY <1>1, <1>4, EndKnown DEF RefsKept

LEMMA FinishRefs ==
  ASSUME TypeOK, RefsInv, CoveredUse, NEW p \in Procs,
         FinishFlush(p) \/ FinishIndex(p) \/ FinishSnapshot(p) \/ SysSnapshot(p)
  PROVE  RefsKept(p)
<1> USE TypePieces DEF HandleOK, ControlOK, BackupOK, RefsInv
<1>1. cmd[p] # "sys"
  BY DEF RefsKnown, CoveredUse
<1>2. CASE FinishFlush(p)
  <2>1. /\ pc[p] = "build" /\ pc'[p] = "index" /\ FlushPending(p)
        /\ UNCHANGED <<index, snaps, cmd, tree>>
    BY <1>1, <1>2 DEF FinishFlush, Goto, Built, RefsKnown, backupVars
  <2>2. Covers(mem[p], tree[p])
    BY <2>1 DEF RefsKnown
  <2>3. Covers(mem[p], tree[p])'
    BY <2>1, <2>2, FlushRefs DEF Covers, Occurrences
  <2>4. RefsKnown(p)'
    BY <2>1, <2>3 DEF RefsKnown
  <2> QED
    BY <2>1, <2>4, CoverStays DEF RefsKept
<1>3. CASE FinishIndex(p)
  <2>1. /\ pc[p] = "index" /\ pc'[p] = "snapshot"
        /\ index' = mem[p] /\ UNCHANGED <<snaps, cmd, tree>>
    BY <1>1, <1>3 DEF FinishIndex, SaveIndex, Goto, backupVars
  <2>2. Covers(mem[p], tree[p]) /\ Tree(tree[p]) /\ IsIndex(mem[p])
    BY <2>1 DEF RefsKnown
  <2>3. RefsCover'
    BY <2>1, <2>2, CoversEnough
  <2>4. Covers(index, tree[p])'
    BY <2>1, <2>2 DEF Covers, Occurrences
  <2>5. RefsKnown(p)'
    BY <2>1, <2>4 DEF RefsKnown
  <2> QED
    BY <2>3, <2>5 DEF RefsKept
<1> QED
  BY <1>1, <1>2, <1>3, FinishSnapshotRefs DEF SysSnapshot

LEMMA BackupRefs ==
  ASSUME TypeOK, RefsInv, CoveredUse, NEW p \in Procs, BackupStep(p)
  PROVE  RefsKept(p)
<1>1. ~IncList(p) /\ ~IncOpen(p)
  BY DEF IncList, IncOpen, Start, RefsInv, RefsKnown, CoveredUse
<1> QED
  BY <1>1, BackupStartRefs, BuildRefs, ParityRefs, FinishRefs DEF BackupStep

-----------------------------------------------------------------------------
\* Compacting.  The list of live chunks is current: there is nobody else.

LEMMA CompactRefs ==
  ASSUME TypeOK, RefsInv, CoveredUse, NEW p \in Procs, CompactStep(p),
         UNCHANGED <<victims, backupVars>>
  PROVE  RefsKept(p)
<1> USE TypePieces DEF HandleOK, ControlOK, CompactOK, RefsInv, diskVars, backupVars
<1>1. snaps' = snaps /\ tree'[p] = tree[p]
  BY DEF CompactStep, CompactCollect, CompactOpen, CompactNothing, CompactWrite,
     CompactIndex, CompactDelete, CompactDone
<1>2. pc[p] \notin {"build", "index", "snapshot"} /\ tree[p] = EmptyMap
  BY DEF RefsKnown, CompactStep, CompactCollect, CompactOpen, CompactNothing, CompactWrite,
     CompactIndex, CompactDelete, CompactDone, Start
<1>3. CASE CompactCollect(p)
  <2>1. /\ pc'[p] = "compact_open" /\ cmd'[p] = "compact" /\ "compact" \in Commands
        /\ live'[p] = Referenced /\ index' = index
    BY <1>3 DEF CompactCollect, Start
  <2>2. RefsKnown(p)'
    BY <1>1, <1>2, <2>1 DEF RefsKnown, Referenced
  <2> QED
    BY <1>1, <2>1, <2>2, CoverStays DEF RefsKept
<1>4. CASE CompactOpen(p) \/ CompactWrite(p)
  <2>1. /\ pc[p] \in {"compact_open", "compact_write"} /\ pc'[p] = "compact_write"
        /\ UNCHANGED <<index, cmd, live>>
    BY <1>4 DEF CompactOpen, CompactWrite, Goto, controlVars
  <2>2. RefsKnown(p)'
    BY <1>1, <1>2, <2>1 DEF RefsKnown, Referenced
  <2> QED
    BY <1>1, <2>1, <2>2, CoverStays DEF RefsKept
<1>5. CASE CompactIndex(p)
  <2>1. /\ pc[p] = "compact_write" /\ pc'[p] = "compact_delete" /\ cmd' = cmd
        /\ index' = MovedIndex(p) /\ Referenced \subseteq live[p]
    BY <1>5 DEF CompactIndex, Goto, RefsKnown
  <2>2. \A c \in DOMAIN index : index[c] \in Meta
    BY DEF IsIndex
  <2>3. /\ DOMAIN index' = DOMAIN index \cap live[p]
        /\ \A c \in DOMAIN index' : index'[c].refs = index[c].refs
    BY <2>1, <2>2 DEF MovedIndex, Meta
  <2>4. RefsCover'
    BY <1>1, <2>1, <2>3, OccursReferenced DEF RefsCover, Occurrences
  <2>5. RefsKnown(p)'
    BY <1>1, <1>2, <2>1 DEF RefsKnown
  <2> QED
    BY <2>4, <2>5 DEF RefsKept
<1>6. CASE CompactDelete(p)
  <2>1. pc[p] = "compact_delete" /\ UNCHANGED <<index, pc, cmd>>
    BY <1>6 DEF CompactDelete, controlVars
  <2>2. RefsKnown(p)'
    BY <1>1, <1>2, <2>1 DEF RefsKnown
  <2> QED
    BY <1>1, <2>1, <2>2, CoverStays DEF RefsKept
<1>7. CASE CompactNothing(p) \/ CompactDone(p)
  <2>1. EndCommand(p) /\ index' = index
    BY <1>7 DEF CompactNothing, CompactDone
  <2> QED
    BY <1>1, <1>2, <2>1, EndKnown, CoverStays DEF RefsKept
<1> QED
  BY <1>3, <1>4, <1>5, <1>6, <1>7 DEF CompactStep

LEMMA FailRefs ==
  ASSUME TypeOK, RefsInv, NEW p \in Procs, OpenFails(p) \/ Crash(p)
  PROVE  RefsKept(p)
<1>1. EndCommand(p) /\ tree'[p] = EmptyMap /\ UNCHANGED <<index, snaps>>
  BY TypePieces DEF OpenFails, Crash, ForgetAll, ForgetBackup, diskVars, BackupOK
<1> QED
  BY <1>1, EndKnown, CoverStays DEF RefsKept, RefsInv

-----------------------------------------------------------------------------
\* The invariant, and what follows from it.

LEMMA InitRefs == Init => RefsInv
<1> SUFFICES ASSUME Init PROVE RefsInv
  OBVIOUS
<1>1. TypeOK
  BY InitTypes
<1>2. \A p \in Procs : RefsKnown(p)
  BY DEF Init, RepositoryInit, RefsKnown
<1>3. \A c : Holders(snaps, c) = {}
  BY DEF Init, RepositoryInit, EmptyMap, Holders
<1>4. \A c : Occurrences(c) = 0
  BY <1>1, <1>3, OccurrencesNat, FS_EmptySet
<1> QED
  BY <1>2, <1>4 DEF RefsInv, RefsCover

LEMMA NextRefs ==
  ASSUME CoveredUse
  PROVE  TypeOK /\ HandlesConsistent /\ RefsInv /\ [Next]_vars => RefsInv'
<1> SUFFICES ASSUME TypeOK, HandlesConsistent, RefsInv, [Next]_vars PROVE RefsInv'
  OBVIOUS
<1>1. ASSUME NEW p \in Procs, Step(p) \/ Crash(p) PROVE RefsInv'
  <2>1. RefsKept(p)
    BY <1>1, PruneRefs, BackupRefs, CompactRefs, FailRefs DEF Step
  <2>2. \A q \in Procs \ {p} : RefsKnown(q)'
    BY <1>1, OthersKnow DEF RefsInv
  <2> QED
    BY <2>1, <2>2 DEF RefsKept, RefsInv
<1>2. CASE UNCHANGED vars
  BY <1>2 DEF vars, repositoryVars, diskVars, handleVars, controlVars, backupVars,
     compactVars, RefsInv, RefsCover, RefsKnown, Covers, VictimsThere, Occurrences, Referenced
<1> QED
  BY <1>1, <1>2 DEF Next

\* The saved reference counts never fall below the references that exist, in
\* either covered use, whatever the processes interleave, crash or fail to write.
THEOREM RefsAlwaysCover ==
  ASSUME CoveredUse
  PROVE  Spec => []RefsCover
<1>1. RefsInv => RefsCover
  BY DEF RefsInv
<1> QED
  BY <1>1, InitRefs, NextRefs, TypeCorrect, HandlesAlwaysConsistent, PTL DEF Spec

LEMMA CoverRestores ==
  TypeOK /\ IndexSound /\ RefsCover => SnapshotsRestorable
<1> SUFFICES ASSUME TypeOK, IndexSound, RefsCover,
                    NEW s \in DOMAIN snaps, NEW f \in DOMAIN snaps[s].tree
             PROVE  snaps[s].tree[f] \in DOMAIN index /\ Stored(index, snaps[s].tree[f])
  BY DEF SnapshotsRestorable, Restorable, ChunksOf
<1> QED
  BY HeldOccurs DEF RefsCover, IndexSound

\* So every snapshot on disk can be restored in full, at every moment: each
\* chunk of its tree is in the saved index, and the pack that is named holds it.
THEOREM SnapshotsAlwaysRestorable ==
  ASSUME CoveredUse
  PROVE  Spec => []SnapshotsRestorable
  BY CoverRestores, TypeCorrect, IndexAlwaysSound, RefsAlwaysCover, PTL

-----------------------------------------------------------------------------
\* The abstract store.  A step saves one snapshot under the next name, deletes
\* one, or leaves the snapshots alone.

SavesOne ==
  \E p \in Procs : /\ clock' = clock + 1
                   /\ snaps' = Put(snaps, clock + 1, NewSnapshot(p))

DeletesOne(p) ==
  /\ DeleteOne(p)
  /\ clock' = clock
  /\ \E s \in DOMAIN victims[p] : snaps' = Remove(snaps, s)

LEMMA SnapsFollow ==
  ASSUME NEW p \in Procs, Step(p) \/ Crash(p)
  PROVE  SavesOne \/ DeletesOne(p) \/ UNCHANGED <<snaps, clock>>
<1> USE DEF diskVars
<1>1. CASE OpenFails(p) \/ Crash(p)
  BY <1>1 DEF OpenFails, Crash
<1>2. CASE PruneStep(p)
  <2>1. CASE DeleteOne(p)
    BY <2>1 DEF DeletesOne, DeleteOne, NewestFirst, OldestFirst
  <2> QED
    BY <1>2, <2>1 DEF PruneStep, PruneList, AutoPruneOpen, PruneOpen, DeleteOpen, DeleteSave
<1>3. CASE BackupStep(p)
  <2>1. CASE FinishSnapshot(p) \/ SysSnapshot(p)
    BY <2>1 DEF FinishSnapshot, SysSnapshot, SaveSnapshot, SavesOne
  <2> QED
    BY <1>3, <2>1 DEF BackupStep, BackupOpen, BackupOverLimit, BackupReopen, IncList, IncOpen,
       StoreFile, StoreThenSkip, FailFile, ReuseFile, SkipFile, RemoveFile, Building,
       StoreParity, ParityFails, FlushingGroup, FinishFlush, FinishIndex
<1>4. CASE CompactStep(p)
  BY <1>4 DEF CompactStep, CompactCollect, CompactOpen, CompactNothing, CompactWrite,
     CompactIndex, CompactDelete, CompactDone
<1> QED
  BY <1>1, <1>2, <1>3, <1>4 DEF Step

\* While every snapshot is restorable, restoring yields what was saved.
LEMMA RestoredTrees ==
  TypeOK /\ SnapshotsRestorable => Restored = [s \in DOMAIN snaps |-> snaps[s].tree]
<1> SUFFICES ASSUME TypeOK, SnapshotsRestorable
             PROVE  Restored = [s \in DOMAIN snaps |-> snaps[s].tree]
  OBVIOUS
<1>1. ASSUME NEW s \in DOMAIN snaps
      PROVE  [f \in DOMAIN snaps[s].tree |-> Read(snaps[s].tree[f])] = snaps[s].tree
  <2>1. \A f \in DOMAIN snaps[s].tree : Read(snaps[s].tree[f]) = snaps[s].tree[f]
    BY DEF SnapshotsRestorable, Restorable, ChunksOf, Read
  <2>2. Tree(snaps[s].tree)
    BY TypePieces DEF SnapsOK, IsSnapshots
  <2> QED
    BY <2>1, <2>2 DEF Tree
<1> QED
  BY <1>1 DEF Restored

LEMMA InitStore == Init => Store!Init
  BY DEF Init, RepositoryInit, EmptyMap, Store!Init, Restored

LEMMA NextStore ==
  ASSUME TypeOK, TypeOK', SnapshotsRestorable, SnapshotsRestorable', [Next]_vars
  PROVE  [Store!Next]_<<Restored, clock>>
<1> USE TypePieces DEF SnapsOK
<1> DEFINE before == [s \in DOMAIN snaps |-> snaps[s].tree]
           after == [s \in DOMAIN snaps' |-> snaps'[s].tree]
<1>1. Restored = before
  BY RestoredTrees
<1>2. Restored' = after
  <2>1. (TypeOK /\ SnapshotsRestorable => Restored = before)'
    BY RestoredTrees, PTL
  <2> QED
    BY <2>1
<1>3. CASE UNCHANGED <<snaps, clock>>
  BY <1>1, <1>2, <1>3
<1>4. CASE SavesOne
  <2>1. PICK p \in Procs : /\ clock' = clock + 1
                           /\ snaps' = Put(snaps, clock + 1, NewSnapshot(p))
    BY <1>4 DEF SavesOne
  <2>2. /\ DOMAIN after = DOMAIN before \cup {clock'}
        /\ after[clock'] = tree[p]
    BY <2>1 DEF Put, NewSnapshot
  <2>3. \A s \in DOMAIN before : after[s] = before[s]
    BY <2>1 DEF Put, IsSnapshots
  <2>4. tree[p] \in UNION {[F -> Chunks] : F \in SUBSET Files}
    BY DEF BackupOK, Tree
  <2>5. after = [s \in DOMAIN after |-> after[s]]
    OBVIOUS
  <2> HIDE DEF before, after
  <2> QED
    BY <1>1, <1>2, <2>1, <2>2, <2>3, <2>4, <2>5 DEF Store!Next, Store!Save
<1>5. ASSUME NEW p \in Procs, DeletesOne(p)
      PROVE  [Store!Next]_<<Restored, clock>>
  <2>1. PICK s \in DOMAIN victims[p] : clock' = clock /\ snaps' = Remove(snaps, s)
    BY <1>5 DEF DeletesOne
  <2>2. CASE s \in DOMAIN snaps
    <3>1. after = [t \in DOMAIN before \ {s} |-> before[t]]
      BY <2>1 DEF Remove, Restrict
    <3> HIDE DEF after
    <3>2. s \in DOMAIN before
      BY <2>2
    <3> QED
      BY <1>1, <1>2, <2>1, <3>1, <3>2 DEF Store!Next, Store!Delete
  <2>3. CASE s \notin DOMAIN snaps
    <3>1. after = before
      BY <2>1, <2>3 DEF Remove, Restrict
    <3> QED
      BY <1>1, <1>2, <2>1, <3>1
  <2> QED
    BY <2>2, <2>3
<1>6. CASE Next
  BY <1>3, <1>4, <1>5, <1>6, SnapsFollow DEF Next
<1>7. CASE UNCHANGED vars
  BY <1>3, <1>7 DEF vars, repositoryVars, diskVars
<1> QED
  BY <1>6, <1>7

\* The repository implements the abstract snapshot store: a saved snapshot has a
\* later name than every other, and until it is deleted a restore yields exactly
\* the tree it was saved with.
THEOREM ImplementsStore ==
  ASSUME CoveredUse
  PROVE  Spec => StoreSpec
<1>1. TypeOK /\ TypeOK' /\ SnapshotsRestorable /\ SnapshotsRestorable' /\ [Next]_vars
        => [Store!Next]_<<Restored, clock>>
  BY NextStore
<1> QED
  BY <1>1, InitStore, TypeCorrect, SnapshotsAlwaysRestorable, PTL DEF Spec, StoreSpec, Store!Spec

-----------------------------------------------------------------------------
\* Automatic pruning keeps min_snapshots, however many backups list what to
\* delete at the same time: all the lists leave the same newest ones alone.

Listed == {q \in Procs : DOMAIN victims[q] # {}}

\* These snapshots are newer than everything on any list.
Spared(K) ==
  /\ K \subseteq DOMAIN snaps
  /\ Cardinality(K) = MinSnaps
  /\ \A q \in Procs : \A v \in DOMAIN victims[q], k \in K : v < k

KeepInv == Listed # {} => \E K : Spared(K)

\* Between two states: p's list only gets shorter.
ListShrinks(p) == DOMAIN victims'[p] \subseteq DOMAIN victims[p]

\* Between two states: p makes a list of what is over the limit.
ListsNew(p) == UNCHANGED snaps /\ \E V \in OverLimit : DOMAIN victims'[p] \subseteq V

LEMMA SnapsFinite ==
  ASSUME TypeOK
  PROVE  /\ IsFiniteSet(DOMAIN snaps)
         /\ Cardinality(DOMAIN snaps) \in Nat
         /\ DOMAIN snaps \subseteq Nat
<1>1. clock \in Nat /\ DOMAIN snaps \subseteq 1 .. clock
  BY TypePieces DEF SnapsOK, IsSnapshots
<1>2. IsFiniteSet(1 .. clock)
  BY <1>1, FS_Interval
<1> QED
  BY <1>1, <1>2, FS_Subset, FS_CardinalityType

\* A new list leaves the newest MinSnaps alone, and no older list reaches them:
\* it would have to spare MinSnaps snapshots that are newer still.
LEMMA ListSpares ==
  ASSUME TypeOK, KeepInv, NEW V \in OverLimit
  PROVE  \A q \in Procs : \A v \in DOMAIN victims[q], k \in DOMAIN snaps \ V : v < k
<1> SUFFICES ASSUME NEW q \in Procs, NEW v \in DOMAIN victims[q], NEW k \in DOMAIN snaps \ V, ~(v < k)
             PROVE  FALSE
  OBVIOUS
<1> DEFINE K1 == DOMAIN snaps \ V
<1>1. PICK K : Spared(K)
  BY DEF KeepInv, Listed
<1>2. v \in Nat /\ DOMAIN snaps \subseteq Nat /\ IsFiniteSet(DOMAIN snaps)
  BY SnapsFinite, TypePieces DEF VictimsOK, SnapsOK, IsSnapshots
<1>3. K \subseteq DOMAIN snaps /\ Cardinality(K) = MinSnaps /\ \A j \in K : v < j
  BY <1>1 DEF Spared
<1>4. K \subseteq K1 \ {k}
  <2>1. \A u \in V, j \in K1 : u < j /\ u \in Nat
    BY <1>2 DEF OverLimit
  <2> QED
    BY <1>2, <1>3, <2>1
<1>5. IsFiniteSet(K1) /\ Cardinality(K1) = MinSnaps /\ k \in K1
  <2>1. IsFiniteSet(K1)
    BY <1>2, FS_Subset
  <2> QED
    BY <2>1 DEF OverLimit
<1> HIDE DEF K1
<1>6. IsFiniteSet(K1 \ {k}) /\ Cardinality(K1 \ {k}) = MinSnaps - 1
  BY <1>5, FS_RemoveElement
<1>7. Cardinality(K) <= Cardinality(K1 \ {k})
  BY <1>4, <1>6, FS_Subset
<1> QED
  BY <1>3, <1>6, <1>7, BackupAssumption

LEMMA ListFollows ==
  ASSUME TypeOK, "prune" \notin Commands, NEW p \in Procs, Step(p) \/ Crash(p)
  PROVE  ListShrinks(p) \/ ListsNew(p)
<1> USE TypePieces DEF VictimsOK, ListShrinks, diskVars
<1>1. CASE OpenFails(p) \/ Crash(p)
  BY <1>1 DEF OpenFails, Crash, ForgetAll, ForgetVictims, EmptyMap
<1>2. CASE PruneStep(p)
  <2>1. ~PruneList(p)
    BY DEF PruneList, Start
  <2>2. CASE DeleteOpen(p)
    BY <2>2 DEF DeleteOpen, Restrict
  <2>3. CASE DeleteOne(p)
    BY <2>3 DEF DeleteOne, Remove, Restrict
  <2> QED
    BY <1>2, <2>1, <2>2, <2>3 DEF PruneStep, AutoPruneOpen, PruneOpen, DeleteSave
<1>3. CASE BackupStep(p)
  <2>1. CASE \E command, root : BackupOverLimit(p, command, root)
    <3>1. PICK V \in OverLimit : victims' = [victims EXCEPT ![p] = Restrict(snaps, V)]
      BY <2>1 DEF BackupOverLimit
    <3>2. DOMAIN victims'[p] = V
      BY <3>1 DEF Restrict
    <3> QED
      BY <2>1, <3>2 DEF ListsNew, BackupOverLimit
  <2> QED
    BY <1>3, <2>1 DEF BackupStep, BackupOpen, BackupReopen, IncList, IncOpen,
       StoreFile, StoreThenSkip, FailFile, ReuseFile, SkipFile, RemoveFile, Building,
       StoreParity, ParityFails, FlushingGroup,
       FinishFlush, FinishIndex, FinishSnapshot, SysSnapshot
<1>4. CASE CompactStep(p) /\ UNCHANGED victims
  BY <1>4
<1> QED
  BY <1>1, <1>2, <1>3, <1>4 DEF Step

LEMMA KeepStep ==
  ASSUME TypeOK, KeepInv, "prune" \notin Commands, NEW p \in Procs, Step(p) \/ Crash(p)
  PROVE  /\ KeepInv'
         /\ Cardinality(DOMAIN snaps) >= MinSnaps => Cardinality(DOMAIN snaps') >= MinSnaps
<1>1. \A q \in Procs \ {p} : victims'[q] = victims[q]
  BY OthersPlans
<1>2. IsFiniteSet(DOMAIN snaps) /\ Cardinality(DOMAIN snaps) \in Nat /\ MinSnaps \in Nat
  BY SnapsFinite, BackupAssumption
<1>3. CASE ListsNew(p)
  <2>1. PICK V \in OverLimit : snaps' = snaps /\ DOMAIN victims'[p] \subseteq V
    BY <1>3 DEF ListsNew
  <2>6. PICK K : K = DOMAIN snaps \ V
    OBVIOUS
  <2>2. K \subseteq DOMAIN snaps' /\ Cardinality(K) = MinSnaps
    BY <2>1, <2>6 DEF OverLimit
  <2>3. \A v \in DOMAIN victims'[p], k \in K : v < k
    BY <2>1, <2>6 DEF OverLimit
  <2>4. \A q \in Procs : \A v \in DOMAIN victims'[q], k \in K : v < k
    BY <1>1, <2>3, <2>6, ListSpares
  <2>5. Spared(K)'
    BY <2>2, <2>4 DEF Spared
  <2> QED
    BY <2>1, <2>5 DEF KeepInv
<1>4. CASE ListShrinks(p) /\ ~DeletesOne(p)
  <2>1. DOMAIN snaps \subseteq DOMAIN snaps' /\ IsFiniteSet(DOMAIN snaps')
    <3>1. CASE SavesOne
      <4>1. DOMAIN snaps' = DOMAIN snaps \cup {clock + 1}
        BY <3>1 DEF SavesOne, Put
      <4> QED
        BY <1>2, <4>1, FS_AddElement
    <3>2. CASE UNCHANGED <<snaps, clock>>
      BY <1>2, <3>2
    <3> QED
      BY <1>4, <3>1, <3>2, SnapsFollow
  <2>2. Cardinality(DOMAIN snaps) <= Cardinality(DOMAIN snaps') /\ Cardinality(DOMAIN snaps') \in Nat
    BY <2>1, FS_Subset, FS_CardinalityType
  <2>3. ASSUME NEW K, Spared(K) PROVE Spared(K)'
    BY <1>1, <1>4, <2>1, <2>3 DEF Spared, ListShrinks
  <2>4. Listed' # {} => Listed # {}
    BY <1>1, <1>4 DEF Listed, ListShrinks
  <2> QED
    BY <1>2, <2>2, <2>3, <2>4 DEF KeepInv
<1>5. CASE ListShrinks(p) /\ DeletesOne(p)
  <2>1. PICK s \in DOMAIN victims[p] : snaps' = Remove(snaps, s)
    BY <1>5 DEF DeletesOne
  <2>2. PICK K : Spared(K)
    BY <2>1 DEF KeepInv, Listed
  <2>3. DOMAIN snaps' = DOMAIN snaps \ {s}
    BY <2>1 DEF Remove, Restrict
  <2>4. s \notin K
    <3>1. s \in Nat
      BY TypePieces DEF VictimsOK, SnapsOK, IsSnapshots
    <3> QED
      BY <2>1, <2>2, <3>1 DEF Spared
  <2>5. K \subseteq DOMAIN snaps' /\ Spared(K)'
    BY <1>1, <1>5, <2>2, <2>3, <2>4 DEF Spared, ListShrinks
  <2>6. IsFiniteSet(DOMAIN snaps')
    BY <1>2, <2>3, FS_Subset
  <2>7. Cardinality(K) <= Cardinality(DOMAIN snaps')
    BY <2>5, <2>6, FS_Subset
  <2> QED
    BY <2>2, <2>5, <2>7 DEF KeepInv, Spared
<1> QED
  BY <1>3, <1>4, <1>5, ListFollows

\* However many processes back up, incrementally or not, and compact at the same
\* time, automatic pruning never takes the repository below min_snapshots: only
\* the prune command, whose policy counts days, may.
THEOREM AlwaysKeepsMinSnaps ==
  ASSUME "prune" \notin Commands
  PROVE  Spec => KeepsMinSnaps
<1> DEFINE Keeps == Cardinality(DOMAIN snaps) >= MinSnaps => Cardinality(DOMAIN snaps') >= MinSnaps
<1>1. Init => KeepInv
  BY DEF Init, EmptyMap, KeepInv, Listed
<1>2. TypeOK /\ KeepInv /\ [Next]_vars => KeepInv' /\ [Keeps]_vars
  <2> SUFFICES ASSUME TypeOK, KeepInv, [Next]_vars PROVE KeepInv' /\ [Keeps]_vars
    OBVIOUS
  <2>1. CASE Next
    BY <2>1, KeepStep DEF Next
  <2>2. CASE UNCHANGED vars
    BY <2>2 DEF vars, repositoryVars, diskVars, KeepInv, Listed, Spared
  <2> QED
    BY <2>1, <2>2
<1> QED
  BY <1>1, <1>2, TypeCorrect, PTL DEF Spec, KeepsMinSnaps

-----------------------------------------------------------------------------
\* A compaction that nobody else's command runs beside reclaims everything.

Compacting == {"compact_open", "compact_write", "compact_delete"}

ReclaimInv(p) ==
  /\ pc[p] \in Compacting => live[p] = Referenced
  /\ pc[p] \in {"compact_write", "compact_delete"} =>
       \A k \in DOMAIN packs \ old[p] : packs[k] \subseteq live[p]
  /\ pc[p] = "compact_write" => \A kc \in copies[p] : kc[2] \in live[p]
  /\ pc[p] = "compact_delete" => DOMAIN index \subseteq live[p]

\* Only compact gets a process into these states.
LEMMA OnlyCompactCompacts ==
  ASSUME TypeOK, NEW p \in Procs, PruneStep(p) \/ BackupStep(p) \/ OpenFails(p) \/ Crash(p)
  PROVE  pc'[p] \notin Compacting
<1> USE TypePieces DEF ControlOK, Compacting
<1>1. CASE OpenFails(p) \/ Crash(p)
  BY <1>1 DEF OpenFails, Crash, EndCommand
<1>2. CASE PruneStep(p)
  BY <1>2 DEF PruneStep, PruneList, AutoPruneOpen, PruneOpen, DeleteOpen, DeleteOne, DeleteSave,
     EndCommand, Goto, controlVars
<1>3. CASE BackupStep(p)
  <2>1. CASE FlushingGroup(p) \/ \E f \in Files : Building(p, f)
    BY <2>1 DEF FlushingGroup, Building, controlVars
  <2> QED
    BY <1>3, <2>1 DEF BackupStep, BackupOpen, BackupOverLimit, BackupReopen, IncList, IncOpen,
       StoreFile, StoreThenSkip, FailFile, ReuseFile, SkipFile, RemoveFile,
       StoreParity, ParityFails,
       FinishFlush, FinishIndex, FinishSnapshot, SysSnapshot, Goto, EndCommand
<1> QED
  BY <1>1, <1>2, <1>3

LEMMA CompactStepReclaims ==
  ASSUME TypeOK, NEW p \in Procs, ReclaimInv(p), CompactStep(p)
  PROVE  ReclaimInv(p)'
<1> USE TypePieces DEF ControlOK, CompactOK, PacksOK, HandleOK, Compacting, diskVars
<1>1. Referenced' = Referenced
  BY DEF Referenced, CompactStep, CompactCollect, CompactOpen, CompactNothing, CompactWrite,
     CompactIndex, CompactDelete, CompactDone
<1>2. CASE CompactCollect(p)
  BY <1>1, <1>2 DEF CompactCollect, ReclaimInv
<1>3. CASE CompactOpen(p)
  <2>1. /\ pc[p] = "compact_open" /\ pc'[p] = "compact_write" /\ UNCHANGED <<packs, live>>
        /\ old'[p] = DOMAIN packs
        /\ copies'[p] = {kc \in (DOMAIN packs) \X live[p] : kc[2] \in packs[kc[1]]}
    BY <1>3 DEF CompactOpen, Goto
  <2> QED
    BY <1>1, <2>1 DEF ReclaimInv
<1>4. CASE CompactWrite(p)
  <2>1. PICK batch \in SUBSET copies[p] :
          /\ WritePack(p, {kc[2] : kc \in batch})
          /\ copies' = [copies EXCEPT ![p] = @ \ batch]
    BY <1>4 DEF CompactWrite
  <2>2. pc[p] = "compact_write" /\ UNCHANGED <<pc, live, old>>
    BY <1>4 DEF CompactWrite, controlVars
  <2> DEFINE S == {kc[2] : kc \in batch}
  <2>3. S \subseteq live[p]
    BY <2>2 DEF ReclaimInv
  <2>4. /\ DOMAIN packs' = DOMAIN packs \cup {nextPack[p]}
        /\ \A k \in DOMAIN packs' : packs'[k] = IF k = nextPack[p] THEN S ELSE packs[k]
    BY <2>1 DEF WritePack, Put
  <2> HIDE DEF S
  <2>5. \A k \in DOMAIN packs' \ old[p] : packs'[k] \subseteq live[p]
    BY <2>2, <2>3, <2>4 DEF ReclaimInv
  <2> QED
    BY <1>1, <2>1, <2>2, <2>5 DEF ReclaimInv
<1>5. CASE CompactIndex(p)
  <2>1. /\ pc[p] = "compact_write" /\ pc'[p] = "compact_delete"
        /\ UNCHANGED <<packs, live, old>> /\ DOMAIN index' \subseteq live[p]
    BY <1>5 DEF CompactIndex, Goto, MovedIndex, compactVars
  <2> QED
    BY <1>1, <2>1 DEF ReclaimInv
<1>6. CASE CompactDelete(p)
  <2>1. PICK k \in old[p] : packs' = Remove(packs, k) /\ old' = [old EXCEPT ![p] = @ \ {k}]
    BY <1>6 DEF CompactDelete
  <2>2. pc[p] = "compact_delete" /\ UNCHANGED <<index, pc, live>>
    BY <1>6 DEF CompactDelete, controlVars
  <2>3. DOMAIN packs' = DOMAIN packs \ {k} /\ \A j \in DOMAIN packs' : packs'[j] = packs[j]
    BY <2>1 DEF Remove, Restrict
  <2> QED
    BY <1>1, <2>1, <2>2, <2>3 DEF ReclaimInv
<1>7. CASE CompactNothing(p) \/ CompactDone(p)
  BY <1>7 DEF CompactNothing, CompactDone, EndCommand, ReclaimInv
<1> QED
  BY <1>2, <1>3, <1>4, <1>5, <1>6, <1>7 DEF CompactStep

\* When a compaction that ran alone has deleted its last old pack, no pack keeps
\* a chunk no snapshot uses, and no index entry names one: whatever crashes left
\* behind, in whichever command, is gone.
THEOREM CompactAlwaysReclaims ==
  ASSUME \A p, q \in Procs : p = q
  PROVE  Spec => []CompactReclaims
<1> DEFINE Inv == \A p \in Procs : ReclaimInv(p)
<1>1. Init => Inv
  BY DEF Init, RepositoryInit, ReclaimInv, Compacting
<1>2. TypeOK /\ Inv /\ [Next]_vars => Inv'
  <2> SUFFICES ASSUME TypeOK, Inv, [Next]_vars, NEW p \in Procs PROVE ReclaimInv(p)'
    OBVIOUS
  <2>1. CASE Step(p) \/ Crash(p)
    <3>1. CASE CompactStep(p)
      BY <3>1, CompactStepReclaims
    <3> QED
      BY <2>1, <3>1, OnlyCompactCompacts DEF Step, ReclaimInv, Compacting
  <2>2. CASE UNCHANGED vars
    BY <2>2 DEF vars, repositoryVars, diskVars, controlVars, compactVars, ReclaimInv, Referenced
  <2> QED
    BY <2>1, <2>2 DEF Next
<1>3. Inv => CompactReclaims
  BY DEF ReclaimInv, CompactReclaims, Compacting
<1> QED
  BY <1>1, <1>2, <1>3, TypeCorrect, PTL DEF Spec

-----------------------------------------------------------------------------
\* Exact counts.  Where nothing fails the counts of what files hold do not only
\* cover the references, they are equal to them.

\* The uses without faults: no incremental backup, and prune and compact only
\* where there is a single process.
ExactUse ==
  /\ Faults = {}
  /\ Commands \subseteq {"full", "sys", "prune", "auto", "compact"}
  /\ Commands \subseteq {"full", "sys", "auto"} \/ \A p, q \in Procs : p = q

\* The counts of an index are what the snapshots on disk and one tree refer to.
ExactWith(idx, t) ==
  \A c \in Chunks \ ParityChunks :
    /\ c \in DOMAIN idx <=> Occurrences(c) + Uses(t, c) > 0
    /\ c \in DOMAIN idx => idx[c].refs = Occurrences(c) + Uses(t, c)

\* A system backup whose snapshot is saved and whose index is not.
SnapshotFirst(p) == pc[p] = "flush" \/ (pc[p] = "index" /\ cmd[p] = "sys")

\* The process is between its changes to the snapshots and to the saved index.
Changing(p) == pc[p] \in {"snapshot", "delete"} \/ SnapshotFirst(p)

\* What a process knows of the references while it has the repository open.
\* While a tree is built, each file is put into it once.
CountsKnown(p) ==
  /\ cmd[p] \in Commands \cup {"none"}
  /\ pc[p] # "inc_open"
  /\ pc[p] = "flush" => cmd[p] = "sys"
  /\ pc[p] = "prune_open" => cmd[p] = "prune"
  /\ pc[p] \in {"compact_open", "compact_write"} => cmd[p] = "compact"
  /\ pc[p] \in {"build", "index"} /\ ~SnapshotFirst(p) => ExactWith(mem[p], tree[p])
  /\ pc[p] = "build" => DOMAIN tree[p] \cap todo[p] = {}
  /\ pc[p] = "snapshot" => ExactWith(index, tree[p])
  /\ pc[p] = "delete" \/ SnapshotFirst(p) => Exact(mem[p])
  /\ pc[p] \notin {"build", "flush", "index", "snapshot"} => tree[p] = EmptyMap
  /\ pc[p] \in {"prune_open", "delete"} => VictimsThere(p)
  /\ pc[p] \in {"compact_open", "compact_write"} => Referenced \subseteq live[p]

\* The saved index is exact between changes.
IndexExact == (\A p \in Procs : ~Changing(p)) => Exact(index)

\* The inductive invariant behind RefsExact.
ExactInv == IndexExact /\ \A p \in Procs : CountsKnown(p)

\* A step that ends a change, or starts from an exact index, leaves an exact one.
IndexKept(p) == ~Changing(p)' => (Changing(p) \/ Exact(index) => Exact(index)')

CountsKept(p) == IndexKept(p) /\ CountsKnown(p)'

LEMMA NoTreeExact ==
  ASSUME TypeOK, NEW idx
  PROVE  ExactWith(idx, EmptyMap) <=> Exact(idx)
<1>1. \A c : Uses(EmptyMap, c) = 0 /\ Occurrences(c) \in Nat
  BY NoUses, OccurrencesNat
<1>2. \A c : Occurrences(c) + Uses(EmptyMap, c) = Occurrences(c)
  BY <1>1
<1> QED
  BY <1>2 DEF ExactWith, Exact

\* The counts stay exact while the snapshots and the index stay.
LEMMA ExactStays ==
  ASSUME NEW p \in Procs, UNCHANGED <<index, snaps>>, ~Changing(p) \/ Changing(p)'
  PROVE  IndexKept(p)
  BY DEF IndexKept, Exact, Occurrences

LEMMA EndCounts ==
  ASSUME TypeOK, NEW p \in Procs, EndCommand(p), tree'[p] = EmptyMap
  PROVE  CountsKnown(p)' /\ ~Changing(p)'
<1>1. pc'[p] = "idle" /\ cmd'[p] = "none"
  BY TypePieces DEF EndCommand, ControlOK
<1> QED
  BY <1>1 DEF CountsKnown, Changing, SnapshotFirst

\* While the lock is free the saved index is exact.
LEMMA FreeExact ==
  ASSUME HandlesConsistent, ExactInv, lock = NoProc
  PROVE  Exact(index)
<1>1. \A p \in Procs : pc[p] \notin Holding
  BY RepositoryAssumption DEF HandlesConsistent, LockHeld
<1> QED
  BY <1>1 DEF ExactInv, IndexExact, Changing, SnapshotFirst, Holding, Handling

\* Putting a new file into a tree adds one use of its chunk.
LEMMA PutUsesNew ==
  ASSUME NEW t, Tree(t), NEW f \in Files, f \notin DOMAIN t, NEW c \in Chunks, NEW d
  PROVE  Uses(Put(t, f, c), d) = Uses(t, d) + (IF d = c THEN 1 ELSE 0)
<1> DEFINE T == Put(t, f, c)
<1>1. Tree(T)
  BY PutTree
<1>2. DOMAIN T = DOMAIN t \cup {f} /\ \A g \in DOMAIN T : T[g] = IF g = f THEN c ELSE t[g]
  BY DEF Put
<1> HIDE DEF T
<1>3. /\ IsFiniteSet(FilesWith(t, d)) /\ Cardinality(FilesWith(t, d)) = Uses(t, d)
      /\ Cardinality(FilesWith(T, d)) = Uses(T, d) /\ Uses(t, d) \in Nat
  BY <1>1, FilesWithFinite, UsesNat
<1>4. CASE d = c
  <2>1. FilesWith(T, d) = FilesWith(t, d) \cup {f}
    BY <1>2, <1>4 DEF FilesWith
  <2>2. f \notin FilesWith(t, d)
    BY DEF FilesWith
  <2>3. Cardinality(FilesWith(t, d) \cup {f}) = Cardinality(FilesWith(t, d)) + 1
    BY <1>3, <2>2, FS_AddElement, Zenon
  <2> QED
    BY <1>3, <1>4, <2>1, <2>3 DEF T
<1>5. CASE d # c
  <2>1. FilesWith(T, d) = FilesWith(t, d)
    BY <1>2, <1>5 DEF FilesWith
  <2> QED
    BY <1>3, <1>5, <2>1 DEF T
<1> QED
  BY <1>4, <1>5

\* So counting its chunk once keeps the counts exact.
LEMMA CountedExact ==
  ASSUME TypeOK, NEW t, Tree(t), NEW idx, IsIndex(idx), ExactWith(idx, t), NEW idx2,
         NEW c \in Chunks, Counted(idx, idx2, c), NEW f \in Files, f \notin DOMAIN t
  PROVE  ExactWith(idx2, Put(t, f, c))
<1> SUFFICES ASSUME NEW d \in Chunks \ ParityChunks
             PROVE  LET n == Occurrences(d) + Uses(Put(t, f, c), d)
                    IN  /\ d \in DOMAIN idx2 <=> n > 0
                        /\ d \in DOMAIN idx2 => idx2[d].refs = n
  BY DEF ExactWith
<1> DEFINE n == Occurrences(d) + Uses(Put(t, f, c), d)
           m == Occurrences(d) + Uses(t, d)
<1>1. m \in Nat /\ n = m + IF d = c THEN 1 ELSE 0
  <2>1. Uses(t, d) \in Nat /\ Occurrences(d) \in Nat
    BY UsesNat, OccurrencesNat
  <2>2. Uses(Put(t, f, c), d) = Uses(t, d) + (IF d = c THEN 1 ELSE 0)
    BY PutUsesNew
  <2> QED
    BY <2>1, <2>2
<1>2. (d \in DOMAIN idx <=> m > 0) /\ (d \in DOMAIN idx => idx[d].refs = m)
  BY DEF ExactWith
<1> HIDE DEF n, m
<1>3. CASE d = c
  BY <1>1, <1>2, <1>3 DEF Counted, n
<1>4. CASE d # c
  BY <1>1, <1>2, <1>4 DEF Counted, n
<1> QED
  BY <1>3, <1>4

\* Parity is not among the chunks whose counts are exact: neither its counting
\* nor a tree's use of it is seen.
LEMMA ParityExact ==
  ASSUME TypeOK, NEW t, Tree(t), NEW idx, IsIndex(idx), ExactWith(idx, t), NEW idx2,
         NEW c \in ParityChunks, Counted(idx, idx2, c) \/ idx2 = idx
  PROVE  /\ ExactWith(idx2, t)
         /\ \A f \in Files : f \notin DOMAIN t => ExactWith(idx2, Put(t, f, c))
<1>1. c \in Chunks
  BY BackupAssumption
<1>2. ASSUME NEW d \in Chunks \ ParityChunks
      PROVE  /\ d \in DOMAIN idx2 <=> d \in DOMAIN idx
             /\ d \in DOMAIN idx => idx2[d].refs = idx[d].refs
  <2>1. CASE idx2 = idx
    BY <2>1
  <2>2. CASE Counted(idx, idx2, c)
    <3>1. d \in DOMAIN idx => idx[d].refs \in Nat
      BY DEF IsIndex, Meta
    <3> QED
      BY <2>2, <3>1 DEF Counted
  <2> QED
    BY <2>1, <2>2
<1>3. ExactWith(idx2, t)
  BY <1>2 DEF ExactWith
<1>4. ASSUME NEW f \in Files, f \notin DOMAIN t
      PROVE  ExactWith(idx2, Put(t, f, c))
  <2>1. \A d \in Chunks \ ParityChunks : Uses(Put(t, f, c), d) = Uses(t, d)
    <3> SUFFICES ASSUME NEW d \in Chunks \ ParityChunks
                 PROVE  Uses(Put(t, f, c), d) = Uses(t, d)
      OBVIOUS
    <3>1. Uses(Put(t, f, c), d) = Uses(t, d) + 0 /\ Uses(t, d) \in Nat
      BY <1>1, <1>4, PutUsesNew, UsesNat
    <3> QED
      BY <3>1
  <2> QED
    BY <1>3, <2>1 DEF ExactWith
<1> QED
  BY <1>3, <1>4

\* What the others know stays true, as it does of the counts that cover.
LEMMA OthersCount ==
  ASSUME TypeOK, HandlesConsistent, ExactUse, NEW p \in Procs, Step(p) \/ Crash(p),
         NEW q \in Procs \ {p}, CountsKnown(q)
  PROVE  CountsKnown(q)' /\ Changing(q)' = Changing(q)
<1>1. /\ Unmoved(q)
      /\ cmd'[q] = cmd[q] /\ victims'[q] = victims[q]
      /\ tree'[q] = tree[q] /\ todo'[q] = todo[q]
  BY StepIsLocal, OthersPlans
<1>2. CASE pc[p] \in Holding
  <2>1. pc[q] \notin Holding
    BY <1>2 DEF HandlesConsistent, LockHeld
  <2>2. pc[q] \notin {"prune_open", "compact_open"}
    BY DEF ExactUse, CountsKnown
  <2> QED
    BY <1>1, <2>1, <2>2 DEF CountsKnown, Changing, SnapshotFirst, Unmoved, Holding, Handling
<1>3. CASE pc[p] \notin Holding
  <2>1. UNCHANGED <<index, snaps>>
    BY <1>3, DiskNeedsLock, SnapsNeedLock
  <2> QED
    BY <1>1, <2>1 DEF CountsKnown, Changing, SnapshotFirst, Unmoved, Exact, ExactWith,
       VictimsThere, Referenced, Occurrences
<1> QED
  BY <1>2, <1>3

-----------------------------------------------------------------------------
\* The process that takes the step: its counts stay exact.

\* Deleting a snapshot: the uses that go are those that are subtracted, so
\* nothing saturates, and an entry leaves the index when its count is zero.
LEMMA DeleteOneCounts ==
  ASSUME TypeOK, ExactInv, NEW p \in Procs, DeleteOne(p), UNCHANGED backupVars
  PROVE  CountsKept(p)
<1> USE TypePieces DEF HandleOK, SnapsOK, VictimsOK
<1>1. PICK s \in DOMAIN victims[p] :
        /\ mem' = [mem EXCEPT ![p] = DropRefs(@, victims[p][s].tree)]
        /\ snaps' = Remove(snaps, s)
        /\ victims' = [victims EXCEPT ![p] = Remove(@, s)]
  BY DEF DeleteOne, NewestFirst, OldestFirst
<1>2. pc[p] = "delete" /\ UNCHANGED <<index, clock, pc, cmd, tree>>
  BY DEF DeleteOne, controlVars, backupVars
<1> DEFINE t == snaps[s].tree
<1>3. s \in DOMAIN snaps /\ snaps[s] = victims[p][s] /\ Tree(t)
  BY <1>2 DEF ExactInv, CountsKnown, VictimsThere, IsSnapshots
<1>4. mem'[p] = DropRefs(mem[p], t) /\ IsIndex(mem[p]) /\ Exact(mem[p])
  BY <1>1, <1>2, <1>3 DEF ExactInv, CountsKnown
<1>5. ASSUME NEW c PROVE Occurrences(c) = Occurrences(c)' + Uses(t, c) /\ Occurrences(c)' \in Nat
  <2>1. Cardinality(Holders(snaps, c)) = Cardinality(Holders(Remove(snaps, s), c)) + Uses(t, c)
    BY <1>3, DeleteCount
  <2>2. Cardinality(Holders(Remove(snaps, s), c)) \in Nat
    BY RemoveSnapshots, HoldersFinite
  <2>3. Occurrences(c)' = Cardinality(Holders(Remove(snaps, s), c))
    BY <1>1 DEF Occurrences, Holders
  <2> QED
    BY <2>1, <2>2, <2>3, OccurrencesNat
<1> HIDE DEF t
<1>6. ASSUME NEW c \in Chunks \ ParityChunks
      PROVE  /\ c \in DOMAIN mem'[p] <=> Occurrences(c)' > 0
             /\ c \in DOMAIN mem'[p] => mem'[p][c].refs = Occurrences(c)'
  <2> DEFINE n == Occurrences(c)
             u == Uses(t, c)
             k == Occurrences(c)'
  <2>1. n \in Nat /\ u \in Nat /\ k \in Nat /\ n = k + u
    BY <1>3, <1>5, UsesNat, OccurrencesNat
  <2>2. c \in DOMAIN mem[p] <=> n > 0
    BY <1>4 DEF Exact
  <2>3. c \in DOMAIN mem[p] => mem[p][c] \in Meta /\ mem[p][c].refs = n
    BY <1>4 DEF Exact, IsIndex
  <2>4. c \in DOMAIN mem'[p] <=> c \in DOMAIN mem[p] /\ ~(u > 0 /\ mem[p][c].refs <= u)
    BY <1>4 DEF DropRefs
  <2>5. c \in DOMAIN mem'[p] => mem'[p][c].refs = mem[p][c].refs - u
    BY <1>4, <2>3 DEF DropRefs, Meta
  <2> HIDE DEF n, u, k
  <2>6. c \in DOMAIN mem'[p] <=> k > 0
    BY <2>1, <2>2, <2>3, <2>4
  <2>7. c \in DOMAIN mem'[p] => mem'[p][c].refs = k
    BY <2>1, <2>3, <2>4, <2>5
  <2> QED
    BY <2>6, <2>7 DEF k
<1>7. Exact(mem[p])'
  BY <1>6 DEF Exact
<1>8. VictimsThere(p)'
  <2>1. /\ DOMAIN victims'[p] = DOMAIN victims[p] \ {s}
        /\ \A r \in DOMAIN victims'[p] : victims'[p][r] = victims[p][r]
    BY <1>1 DEF Remove, Restrict
  <2>2. /\ DOMAIN snaps' = DOMAIN snaps \ {s}
        /\ \A r \in DOMAIN snaps' : snaps'[r] = snaps[r]
    BY <1>1 DEF Remove, Restrict
  <2> QED
    BY <1>2, <2>1, <2>2 DEF ExactInv, CountsKnown, VictimsThere
<1>9. CountsKnown(p)'
  BY <1>2, <1>7, <1>8 DEF ExactInv, CountsKnown, SnapshotFirst
<1>10. Changing(p)'
  BY <1>2 DEF Changing
<1> QED
  BY <1>9, <1>10 DEF CountsKept, IndexKept

LEMMA PruneCounts ==
  ASSUME TypeOK, HandlesConsistent, ExactInv, ExactUse, NEW p \in Procs, PruneStep(p),
         UNCHANGED backupVars
  PROVE  CountsKept(p)
<1> USE TypePieces DEF HandleOK, ControlOK, VictimsOK, ExactInv, diskVars, handleVars,
        backupVars, SnapshotFirst
<1>0. /\ tree'[p] = tree[p]
      /\ pc[p] \notin {"build", "flush", "index", "snapshot"} => tree[p] = EmptyMap
  BY DEF CountsKnown
<1>1. CASE PruneList(p)
  <2>1. /\ pc[p] = "idle" /\ pc'[p] = "prune_open" /\ cmd'[p] = "prune"
        /\ "prune" \in Commands /\ UNCHANGED <<index, snaps>>
    BY <1>1 DEF PruneList, Start
  <2>2. VictimsThere(p)'
    BY <1>1, <2>1 DEF PruneList, GivenUp, VictimsThere, Restrict
  <2>3. CountsKnown(p)' /\ ~Changing(p)
    BY <1>0, <2>1, <2>2 DEF CountsKnown, Changing
  <2> QED
    BY <2>1, <2>3, ExactStays DEF CountsKept
<1>2. CASE PruneOpen(p) \/ DeleteOpen(p)
  <2>1. /\ pc[p] \in {"prune_open", "auto_prune"} /\ pc'[p] = "delete" /\ cmd'[p] = cmd[p]
        /\ mem'[p] = index /\ lock = NoProc /\ UNCHANGED <<index, snaps>>
    BY <1>2 DEF PruneOpen, DeleteOpen, Open, Goto
  <2>2. Exact(mem[p])'
    BY <2>1, FreeExact DEF Exact, Occurrences
  <2>3. VictimsThere(p)'
    <3>1. CASE PruneOpen(p)
      BY <2>1, <3>1 DEF PruneOpen, VictimsThere, CountsKnown
    <3>2. CASE DeleteOpen(p)
      BY <2>1, <3>2 DEF DeleteOpen, VictimsThere, Restrict
    <3> QED
      BY <1>2, <3>1, <3>2
  <2>4. CountsKnown(p)' /\ Changing(p)'
    BY <1>0, <2>1, <2>2, <2>3 DEF CountsKnown, Changing
  <2> QED
    BY <2>1, <2>4, ExactStays DEF CountsKept
<1>3. CASE AutoPruneOpen(p)
  <2>1. /\ pc[p] = "idle" /\ pc'[p] = "auto_delete" /\ cmd'[p] \in Commands
        /\ UNCHANGED <<index, snaps>>
    BY <1>3 DEF AutoPruneOpen, Start
  <2>2. CountsKnown(p)' /\ ~Changing(p)
    BY <1>0, <2>1 DEF CountsKnown, Changing
  <2> QED
    BY <2>1, <2>2, ExactStays DEF CountsKept
<1>4. CASE DeleteSave(p)
  <2>1. pc[p] = "delete" /\ index' = mem[p] /\ snaps' = snaps /\ Exact(mem[p])
    BY <1>4 DEF DeleteSave, SaveIndex, CountsKnown
  <2>2. IndexKept(p)
    BY <2>1 DEF IndexKept, Exact, Occurrences
  <2>3. CASE EndCommand(p)
    BY <1>0, <2>1, <2>2, <2>3, EndCounts DEF CountsKept
  <2>4. CASE Goto(p, "reopen")
    <3>1. pc'[p] = "reopen" /\ cmd'[p] = cmd[p]
      BY <2>4 DEF Goto
    <3> QED
      BY <1>0, <2>1, <2>2, <3>1 DEF CountsKept, CountsKnown
  <2> QED
    BY <1>4, <2>3, <2>4 DEF DeleteSave
<1> QED
  BY <1>1, <1>2, <1>3, <1>4, DeleteOneCounts DEF PruneStep

\* Looking at a file of the source.  No write fails, so what is stored is put
\* into the tree.
LEMMA BuildCounts ==
  ASSUME TypeOK, ExactInv, ExactUse, NEW p \in Procs, NEW f \in Files, NEW c,
         \/ /\ c \in Chunks
            /\ StoreFile(p, f, c) \/ StoreThenSkip(p, f, c) \/ FailFile(p, f, c)
         \/ ReuseFile(p, f) \/ SkipFile(p, f) \/ RemoveFile(p, f)
  PROVE  CountsKept(p)
<1> USE TypePieces DEF HandleOK, BackupOK, ExactInv, SnapshotFirst
<1>1. Building(p, f)
  BY DEF StoreFile, StoreThenSkip, FailFile, ReuseFile, SkipFile, RemoveFile
<1>2. pc[p] = "build" /\ todo'[p] = todo[p] \ {f} /\ UNCHANGED <<index, snaps, pc, cmd>>
  BY <1>1 DEF Building, controlVars
<1>3. /\ cmd[p] # "inc" /\ ExactWith(mem[p], tree[p]) /\ IsIndex(mem[p]) /\ Tree(tree[p])
      /\ DOMAIN tree[p] \cap todo[p] = {} /\ f \notin DOMAIN tree[p]
  BY <1>1, <1>2 DEF CountsKnown, ExactUse, Building
<1>4. ~StoreThenSkip(p, f, c) /\ ~FailFile(p, f, c) /\ ~RemoveFile(p, f)
  BY <1>3 DEF ExactUse, StoreThenSkip, FailFile, StoreChunkFails, RemoveFile
<1>5. ASSUME NEW d \in Chunks, tree'[p] = Put(tree[p], f, d), Counted(mem[p], mem'[p], d)
      PROVE  ExactWith(mem'[p], tree'[p]) /\ DOMAIN tree'[p] \cap todo'[p] = {}
  <2>1. ExactWith(mem'[p], tree'[p])
    BY <1>3, <1>5, CountedExact
  <2>2. DOMAIN tree'[p] = DOMAIN tree[p] \cup {f}
    BY <1>5 DEF Put
  <2> QED
    BY <1>2, <1>3, <2>1, <2>2
<1>6. ExactWith(mem'[p], tree'[p]) /\ DOMAIN tree'[p] \cap todo'[p] = {}
  <2>1. CASE c \in Chunks /\ StoreFile(p, f, c)
    <3>1. StoreChunk(p, c) /\ tree'[p] = Put(tree[p], f, c)
      BY <2>1 DEF StoreFile
    <3>2. Counted(mem[p], mem'[p], c)
      BY <2>1, <3>1, StoreChunkCounted
    <3> QED
      BY <1>5, <2>1, <3>1, <3>2
  <2>2. CASE ReuseFile(p, f)
    <3>1. PICK s \in Newest :
            /\ f \in DOMAIN snaps[s].tree
            /\ tree' = [tree EXCEPT ![p] = Put(@, f, snaps[s].tree[f])]
            /\ mem' = [mem EXCEPT ![p] =
                 IF snaps[s].tree[f] \in DOMAIN @ THEN AddRef(@, snaps[s].tree[f]) ELSE @]
      BY <2>2 DEF ReuseFile
    <3> DEFINE d == snaps[s].tree[f]
    <3>2. d \in Chunks /\ Occurrences(d) > 0
      BY <3>1, HeldOccurs DEF Newest
    <3>3. /\ mem'[p] = IF d \in DOMAIN mem[p] THEN AddRef(mem[p], d) ELSE mem[p]
          /\ tree'[p] = Put(tree[p], f, d)
      BY <3>1
    <3> HIDE DEF d
    <3>4. CASE d \in DOMAIN mem[p]
      <4>1. \A e \in DOMAIN mem[p] : mem[p][e] \in Meta /\ mem[p][e].refs \in Nat
        BY <1>3 DEF IsIndex, Meta
      <4>2. Counted(mem[p], mem'[p], d)
        BY <3>3, <3>4, <4>1 DEF AddRef, Meta, Counted
      <4> QED
        BY <1>5, <3>2, <3>3, <4>2
    <3>5. CASE d \notin DOMAIN mem[p]
      <4>1. Uses(tree[p], d) \in Nat /\ Occurrences(d) \in Nat
        BY <1>3, UsesNat, OccurrencesNat
      <4>2. Occurrences(d) + Uses(tree[p], d) > 0
        BY <3>2, <4>1
      <4>3. d \in ParityChunks
        BY <1>3, <3>2, <3>5, <4>2 DEF ExactWith
      <4>4. ExactWith(mem'[p], tree'[p])
        <5>1. \A g \in Files : g \notin DOMAIN tree[p] => ExactWith(mem[p], Put(tree[p], g, d))
          BY <1>3, <4>3, ParityExact
        <5>2. ExactWith(mem[p], Put(tree[p], f, d))
          BY <1>3, <5>1
        <5> QED
          BY <3>3, <3>5, <5>2
      <4>5. DOMAIN tree'[p] = DOMAIN tree[p] \cup {f}
        BY <3>3 DEF Put
      <4> QED
        BY <1>2, <1>3, <4>4, <4>5
    <3> QED
      BY <3>4, <3>5
  <2>3. CASE SkipFile(p, f)
    BY <1>2, <1>3, <2>3 DEF SkipFile
  <2> QED
    BY <1>4, <2>1, <2>2, <2>3
<1>7. ExactWith(mem[p], tree[p])'
  BY <1>2, <1>6 DEF ExactWith, Occurrences
<1>8. CountsKnown(p)' /\ ~Changing(p)
  BY <1>2, <1>6, <1>7 DEF CountsKnown, Changing
<1> QED
  BY <1>2, <1>8, ExactStays DEF CountsKept

\* Storing parity leaves the other counts as they are.
LEMMA ParityCounts ==
  ASSUME TypeOK, ExactInv, ExactUse, NEW p \in Procs, NEW c \in ParityChunks,
         StoreParity(p, c) \/ ParityFails(p, c)
  PROVE  CountsKept(p)
<1> USE TypePieces DEF HandleOK, BackupOK, ExactInv, SnapshotFirst
<1>1. StoreParity(p, c) /\ c \in Chunks
  BY BackupAssumption DEF ExactUse, ParityFails, StoreChunkFails
<1>2. pc[p] = "build" /\ UNCHANGED <<index, snaps, pc, cmd, tree, todo>>
  BY <1>1 DEF StoreParity, FlushingGroup, controlVars
<1>3. ExactWith(mem[p], tree[p]) /\ IsIndex(mem[p]) /\ Tree(tree[p])
  BY <1>2 DEF CountsKnown
<1>4. Counted(mem[p], mem'[p], c)
  BY <1>1, StoreChunkCounted DEF StoreParity
<1>5. ExactWith(mem'[p], tree[p])
  BY <1>3, <1>4, ParityExact
<1>6. ExactWith(mem[p], tree[p])'
  BY <1>2, <1>5 DEF ExactWith, Occurrences
<1>7. CountsKnown(p)' /\ ~Changing(p)
  BY <1>2, <1>6 DEF CountsKnown, Changing
<1> QED
  BY <1>2, <1>7, ExactStays DEF CountsKept

LEMMA BackupStartCounts ==
  ASSUME TypeOK, HandlesConsistent, ExactInv, ExactUse, NEW p \in Procs,
         NEW command, NEW root,
         \/ BackupOpen(p, command, root)
         \/ BackupOverLimit(p, command, root)
         \/ BackupReopen(p)
  PROVE  CountsKept(p)
<1> USE TypePieces DEF HandleOK, ControlOK, ExactInv, diskVars, handleVars, SnapshotFirst
<1>1. UNCHANGED <<index, snaps, tree>>
  BY DEF BackupOpen, BackupOverLimit, BackupReopen
<1>2. /\ pc[p] \in {"idle", "reopen"} /\ tree[p] = EmptyMap /\ ~Changing(p)
      /\ lock = NoProc
  BY DEF CountsKnown, Changing, BackupOpen, BackupOverLimit, BackupReopen, Start, Open
<1>3. CASE BackupOpen(p, command, root) \/ BackupReopen(p)
  <2>1. pc'[p] = "build" /\ cmd'[p] \in Commands \cup {"none"} /\ mem'[p] = index
    BY <1>3 DEF BackupOpen, BackupReopen, Open, Start, Goto, CountsKnown
  <2>2. ExactWith(mem'[p], tree'[p])
    BY <1>1, <1>2, <2>1, FreeExact, NoTreeExact
  <2>3. ExactWith(mem[p], tree[p])'
    BY <1>1, <2>2 DEF ExactWith, Occurrences
  <2>4. DOMAIN tree'[p] \cap todo'[p] = {}
    BY <1>1, <1>2 DEF EmptyMap
  <2>5. CountsKnown(p)'
    BY <2>1, <2>3, <2>4 DEF CountsKnown
  <2> QED
    BY <1>1, <1>2, <2>5, ExactStays DEF CountsKept
<1>4. CASE BackupOverLimit(p, command, root)
  <2>1. pc'[p] = "auto_prune" /\ cmd'[p] \in Commands
    BY <1>4 DEF BackupOverLimit, Start
  <2>2. CountsKnown(p)'
    BY <1>1, <1>2, <2>1 DEF CountsKnown
  <2> QED
    BY <1>1, <1>2, <2>2, ExactStays DEF CountsKept
<1> QED
  BY <1>3, <1>4

\* Saving a snapshot: an index that was exact with its tree is exact.
LEMMA SaveExact ==
  ASSUME TypeOK, NEW p \in Procs, SaveSnapshot(p), NEW idx, ExactWith(idx, tree[p]),
         NEW c \in Chunks \ ParityChunks
  PROVE  /\ c \in DOMAIN idx <=> Occurrences(c)' > 0
         /\ c \in DOMAIN idx => idx[c].refs = Occurrences(c)'
<1> USE TypePieces DEF BackupOK, SnapsOK
<1>1. snaps' = Put(snaps, clock + 1, [root |-> src[p], tree |-> tree[p]])
  BY DEF SaveSnapshot, NewSnapshot
<1>2. Tree(tree[p]) /\ src[p] \in Files \cup {DirRoot}
  OBVIOUS
<1>3. Cardinality(Holders(snaps', c)) = Cardinality(Holders(snaps, c)) + Uses(tree[p], c)
  BY <1>1, <1>2, SaveCount
<1>4. Occurrences(c)' = Cardinality(Holders(snaps', c))
  BY DEF Occurrences, Holders
<1>5. Occurrences(c)' = Occurrences(c) + Uses(tree[p], c)
  BY <1>3, <1>4, OccurrencesNat
<1> QED
  BY <1>5 DEF ExactWith

LEMMA FinishCounts ==
  ASSUME TypeOK, ExactInv, ExactUse, NEW p \in Procs,
         FinishFlush(p) \/ FinishIndex(p) \/ FinishSnapshot(p) \/ SysSnapshot(p)
  PROVE  CountsKept(p)
<1> USE TypePieces DEF HandleOK, ControlOK, BackupOK, ExactInv, SnapshotFirst
<1>1. CASE FinishFlush(p)
  <2>1. /\ \/ pc[p] = "build" /\ cmd[p] # "sys"
           \/ pc[p] = "flush" /\ cmd[p] = "sys"
        /\ pc'[p] = "index" /\ FlushPending(p)
        /\ UNCHANGED <<index, snaps, cmd, tree>>
    BY <1>1 DEF FinishFlush, Goto, Built, backupVars, CountsKnown
  <2>2. /\ DOMAIN mem'[p] = DOMAIN mem[p]
        /\ \A d \in DOMAIN mem[p] : mem'[p][d].refs = mem[p][d].refs
    BY <2>1, FlushRefs
  <2>3. CASE cmd[p] # "sys"
    <3>1. ExactWith(mem[p], tree[p])
      BY <2>1, <2>3 DEF CountsKnown
    <3>2. ExactWith(mem[p], tree[p])'
      BY <2>1, <2>2, <3>1 DEF ExactWith, Occurrences
    <3>3. CountsKnown(p)' /\ ~Changing(p)
      BY <2>1, <2>3, <3>2 DEF CountsKnown, Changing
    <3> QED
      BY <2>1, <3>3, ExactStays DEF CountsKept
  <2>4. CASE cmd[p] = "sys"
    <3>1. Exact(mem[p])
      BY <2>1, <2>4 DEF CountsKnown
    <3>2. Exact(mem[p])'
      BY <2>1, <2>2, <3>1 DEF Exact, Occurrences
    <3>3. CountsKnown(p)' /\ Changing(p)'
      BY <2>1, <2>4, <3>2 DEF CountsKnown, Changing
    <3> QED
      BY <2>1, <3>3, ExactStays DEF CountsKept
  <2> QED
    BY <2>3, <2>4
<1>2. CASE FinishIndex(p) /\ cmd[p] # "sys"
  <2>1. /\ pc[p] = "index" /\ pc'[p] = "snapshot"
        /\ index' = mem[p] /\ UNCHANGED <<snaps, cmd, tree>>
    BY <1>2 DEF FinishIndex, SaveIndex, Goto, backupVars
  <2>2. ExactWith(index, tree[p])'
    BY <1>2, <2>1 DEF CountsKnown, ExactWith, Occurrences
  <2>3. CountsKnown(p)' /\ Changing(p)'
    BY <2>1, <2>2 DEF CountsKnown, Changing
  <2> QED
    BY <2>3 DEF CountsKept, IndexKept
<1>3. CASE FinishIndex(p) /\ cmd[p] = "sys"
  <2>1. /\ pc[p] = "index" /\ EndCommand(p) /\ tree'[p] = EmptyMap
        /\ index' = mem[p] /\ snaps' = snaps
    BY <1>3 DEF FinishIndex, SaveIndex, ForgetBackup
  <2>2. IndexKept(p)
    BY <1>3, <2>1 DEF CountsKnown, IndexKept, Exact, Occurrences
  <2> QED
    BY <2>1, <2>2, EndCounts DEF CountsKept
<1>4. CASE FinishSnapshot(p)
  <2>1. /\ pc[p] = "snapshot" /\ EndCommand(p) /\ tree'[p] = EmptyMap /\ index' = index
        /\ SaveSnapshot(p) /\ ExactWith(index, tree[p])
    BY <1>4 DEF FinishSnapshot, SaveSnapshot, ForgetBackup, CountsKnown
  <2>2. Exact(index)'
    BY <2>1, SaveExact DEF Exact
  <2> QED
    BY <2>1, <2>2, EndCounts DEF CountsKept, IndexKept
<1>5. CASE SysSnapshot(p)
  <2>1. /\ pc[p] = "build" /\ cmd[p] = "sys" /\ pc'[p] = "flush" /\ cmd'[p] = "sys"
        /\ UNCHANGED <<index, mem, tree>> /\ SaveSnapshot(p) /\ ExactWith(mem[p], tree[p])
    BY <1>5 DEF SysSnapshot, SaveSnapshot, Goto, Built, CountsKnown, handleVars, backupVars
  <2>2. Exact(mem[p])'
    BY <2>1, SaveExact DEF Exact
  <2>3. CountsKnown(p)' /\ Changing(p)'
    BY <2>1, <2>2 DEF CountsKnown, Changing
  <2> QED
    BY <2>3 DEF CountsKept, IndexKept
<1> QED
  BY <1>1, <1>2, <1>3, <1>4, <1>5

LEMMA BackupCounts ==
  ASSUME TypeOK, HandlesConsistent, ExactInv, ExactUse, NEW p \in Procs, BackupStep(p)
  PROVE  CountsKept(p)
<1>1. ~IncList(p) /\ ~IncOpen(p)
  BY DEF IncList, IncOpen, Start, ExactInv, CountsKnown, ExactUse
<1> QED
  BY <1>1, BackupStartCounts, BuildCounts, ParityCounts, FinishCounts DEF BackupStep

\* Compacting takes away the entries of chunks that are not referred to: among
\* those whose counts are exact there are none.
LEMMA CompactCounts ==
  ASSUME TypeOK, ExactInv, NEW p \in Procs, CompactStep(p),
         UNCHANGED <<victims, backupVars>>
  PROVE  CountsKept(p)
<1> USE TypePieces DEF HandleOK, ControlOK, CompactOK, ExactInv, diskVars, backupVars,
        SnapshotFirst
<1>1. snaps' = snaps /\ tree'[p] = tree[p]
  BY DEF CompactStep, CompactCollect, CompactOpen, CompactNothing, CompactWrite,
     CompactIndex, CompactDelete, CompactDone
<1>2. /\ pc[p] \in {"idle", "compact_open", "compact_write", "compact_delete"}
      /\ tree[p] = EmptyMap /\ ~Changing(p)
  BY DEF CountsKnown, Changing, CompactStep, CompactCollect, CompactOpen, CompactNothing,
     CompactWrite, CompactIndex, CompactDelete, CompactDone, Start
<1>3. CASE CompactCollect(p)
  <2>1. /\ pc'[p] = "compact_open" /\ cmd'[p] = "compact" /\ "compact" \in Commands
        /\ live'[p] = Referenced /\ index' = index
    BY <1>3 DEF CompactCollect, Start
  <2>2. CountsKnown(p)'
    BY <1>1, <1>2, <2>1 DEF CountsKnown, Referenced
  <2> QED
    BY <1>1, <1>2, <2>1, <2>2, ExactStays DEF CountsKept
<1>4. CASE CompactOpen(p) \/ CompactWrite(p)
  <2>1. /\ pc[p] \in {"compact_open", "compact_write"} /\ pc'[p] = "compact_write"
        /\ UNCHANGED <<index, cmd, live>>
    BY <1>4 DEF CompactOpen, CompactWrite, Goto, controlVars
  <2>2. CountsKnown(p)'
    BY <1>1, <1>2, <2>1 DEF CountsKnown, Referenced
  <2> QED
    BY <1>1, <1>2, <2>1, <2>2, ExactStays DEF CountsKept
<1>5. CASE CompactIndex(p)
  <2>1. /\ pc[p] = "compact_write" /\ pc'[p] = "compact_delete" /\ cmd' = cmd
        /\ index' = MovedIndex(p) /\ Referenced \subseteq live[p]
    BY <1>5 DEF CompactIndex, Goto, CountsKnown
  <2>2. \A c \in DOMAIN index : index[c] \in Meta
    BY DEF IsIndex
  <2>3. /\ DOMAIN index' = DOMAIN index \cap live[p]
        /\ \A c \in DOMAIN index' : index'[c].refs = index[c].refs
    BY <2>1, <2>2 DEF MovedIndex, Meta
  <2>4. ASSUME Exact(index) PROVE Exact(index)'
    <3>1. \A c : Occurrences(c)' = Occurrences(c)
      BY <1>1 DEF Occurrences
    <3>2. \A c \in Chunks : Occurrences(c) > 0 => c \in live[p]
      BY <2>1, OccursReferenced
    <3> QED
      BY <2>3, <2>4, <3>1, <3>2 DEF Exact
  <2>5. CountsKnown(p)'
    BY <1>1, <1>2, <2>1 DEF CountsKnown
  <2> QED
    BY <1>2, <2>4, <2>5 DEF CountsKept, IndexKept
<1>6. CASE CompactDelete(p)
  <2>1. pc[p] = "compact_delete" /\ UNCHANGED <<index, pc, cmd>>
    BY <1>6 DEF CompactDelete, controlVars
  <2>2. CountsKnown(p)'
    BY <1>1, <1>2, <2>1 DEF CountsKnown
  <2> QED
    BY <1>1, <1>2, <2>1, <2>2, ExactStays DEF CountsKept
<1>7. CASE CompactNothing(p) \/ CompactDone(p)
  <2>1. EndCommand(p) /\ index' = index
    BY <1>7 DEF CompactNothing, CompactDone
  <2> QED
    BY <1>1, <1>2, <2>1, EndCounts, ExactStays DEF CountsKept
<1> QED
  BY <1>3, <1>4, <1>5, <1>6, <1>7 DEF CompactStep

\* A command that meets the lock has changed nothing.
LEMMA FailCounts ==
  ASSUME TypeOK, ExactInv, NEW p \in Procs, OpenFails(p)
  PROVE  CountsKept(p)
<1>1. EndCommand(p) /\ tree'[p] = EmptyMap /\ UNCHANGED <<index, snaps>> /\ ~Changing(p)
  BY TypePieces DEF OpenFails, Opening, Changing, SnapshotFirst, ForgetAll, ForgetBackup,
     diskVars, BackupOK
<1> QED
  BY <1>1, EndCounts, ExactStays DEF CountsKept

LEMMA InitExact == Init => ExactInv
<1> SUFFICES ASSUME Init PROVE ExactInv
  OBVIOUS
<1>1. TypeOK
  BY InitTypes
<1>2. \A p \in Procs : CountsKnown(p)
  BY DEF Init, RepositoryInit, CountsKnown, SnapshotFirst
<1>3. \A c : Holders(snaps, c) = {}
  BY DEF Init, RepositoryInit, EmptyMap, Holders
<1>4. \A c : Occurrences(c) = 0
  BY <1>1, <1>3, OccurrencesNat, FS_EmptySet
<1>5. DOMAIN index = {}
  BY DEF Init, RepositoryInit, EmptyMap
<1> QED
  BY <1>2, <1>4, <1>5 DEF ExactInv, IndexExact, Exact

LEMMA NextExact ==
  ASSUME ExactUse
  PROVE  TypeOK /\ HandlesConsistent /\ ExactInv /\ [Next]_vars => ExactInv'
<1> SUFFICES ASSUME TypeOK, HandlesConsistent, ExactInv, [Next]_vars PROVE ExactInv'
  OBVIOUS
<1>1. ASSUME NEW p \in Procs, Step(p) \/ Crash(p) PROVE ExactInv'
  <2>1. CountsKept(p)
    BY <1>1, PruneCounts, BackupCounts, CompactCounts, FailCounts DEF Step, Crash, ExactUse
  <2>2. \A q \in Procs \ {p} : CountsKnown(q)' /\ Changing(q)' = Changing(q)
    BY <1>1, OthersCount DEF ExactInv
  <2>3. IndexExact'
    <3> SUFFICES ASSUME \A q \in Procs : ~Changing(q)' PROVE Exact(index)'
      BY DEF IndexExact
    <3>1. \A q \in Procs \ {p} : ~Changing(q)
      BY <2>2
    <3>2. Changing(p) \/ Exact(index)
      BY <3>1 DEF ExactInv, IndexExact
    <3> QED
      BY <2>1, <3>2 DEF CountsKept, IndexKept
  <2> QED
    BY <2>1, <2>2, <2>3 DEF CountsKept, ExactInv
<1>2. CASE UNCHANGED vars
  BY <1>2 DEF vars, repositoryVars, diskVars, handleVars, controlVars, backupVars,
     compactVars, ExactInv, IndexExact, CountsKnown, Changing, SnapshotFirst, Exact,
     ExactWith, VictimsThere, Occurrences, Referenced
<1> QED
  BY <1>1, <1>2 DEF Next

\* Without faults nothing of the files leaks: whenever no command is running,
\* every count is the number of references and no entry is left without one,
\* the parity of groups apart, which no snapshot refers to.
THEOREM RefsAlwaysExact ==
  ASSUME ExactUse
  PROVE  Spec => []RefsExact
<1>1. ExactInv => RefsExact
  BY DEF ExactInv, IndexExact, RefsExact, Changing, SnapshotFirst
<1> QED
  BY <1>1, InitExact, NextExact, TypeCorrect, HandlesAlwaysConsistent, PTL DEF Spec

=============================================================================
