--------------------------------- MODULE Backup ---------------------------------
(***************************************************************************)
(* The three backup commands.                                              *)
(*                                                                         *)
(*   full  run_full_backup: walk the source and store every file           *)
(*   inc   run_incremental_backup: start from the previous snapshot's tree *)
(*         and store the changed files only                                *)
(*   sys   cmd_backup_system: as full, over the system's directories       *)
(*                                                                         *)
(* full and inc end in finish_backup, whose order is: flush the packs,     *)
(* save the index, save the snapshot.  sys saves the snapshot first.       *)
(*                                                                         *)
(* After every ecc_data_shards chunks a backup has stored, the parity of   *)
(* the group is computed and stored as ecc_parity_shards more chunks,      *)
(* which count like those of files although no snapshot will hold them.    *)
(* What the last group of a backup lacks is never made up for.             *)
(***************************************************************************)
EXTENDS Prune

CONSTANTS
  Roots,      \* what users back up: members of Files and DirRoot
  MinSnaps,   \* config.min_snapshots, kept whatever the storage limit says
  EccDataShards,    \* config.ecc_data_shards
  EccParityShards,  \* config.ecc_parity_shards
  ParityChunks      \* the chunks the parity of a group may be (files may hold them too)

ASSUME BackupAssumption ==
  /\ Roots \subseteq Files \cup {DirRoot}
  /\ MinSnaps \in Nat
  /\ EccDataShards \in Nat \ {0} /\ EccParityShards \in Nat
  /\ ParityChunks \subseteq Chunks

VARIABLES
  src,    \* the root a process is backing up
  tree,   \* the snapshot tree a process has built so far
  todo,   \* the files a process still has to look at
  group   \* the parity buffer of a process: how many chunks are in it; once it
          \* is full, how many parity chunks are due, and whether the file that
          \* filled it is in the tree

backupVars == <<src, tree, todo, group>>

NoGroup == [filled |-> 0, due |-> 0, kept |-> TRUE]

ForgetBackup(p) ==
  /\ src' = [src EXCEPT ![p] = DirRoot]
  /\ tree' = [tree EXCEPT ![p] = EmptyMap]
  /\ todo' = [todo EXCEPT ![p] = {}]
  /\ group' = [group EXCEPT ![p] = NoGroup]

FilesUnder(root) == IF root = DirRoot THEN Files ELSE {root}

-----------------------------------------------------------------------------
\* Starting.

\* What check_storage_limit returns when the repository is over its limit: all
\* snapshots but the newest min_snapshots, if there are more than that.
OverLimit ==
  {V \in SUBSET DOMAIN snaps :
     /\ V # {}
     /\ Cardinality(DOMAIN snaps \ V) = MinSnaps
     /\ \A v \in V, s \in DOMAIN snaps \ V : v < s}

RootsOf(command) == IF command = "sys" THEN {DirRoot} ELSE Roots

\* Under the limit the backup goes on with the handle it opened.
BackupOpen(p, command, root) ==
  /\ Start(p, command)
  /\ Open(p)
  /\ pc' = [pc EXCEPT ![p] = "build"]
  /\ src' = [src EXCEPT ![p] = root]
  /\ todo' = [todo EXCEPT ![p] = FilesUnder(root)]
  /\ UNCHANGED <<diskVars, tree, group, victims>>

\* Over the limit the handle is dropped again, with the snapshots to prune in
\* hand; nothing was changed while it was open.
BackupOverLimit(p, command, root) ==
  /\ Start(p, command)
  /\ lock = NoProc
  /\ \E V \in OverLimit :
       victims' = [victims EXCEPT ![p] = Restrict(snaps, V)]
  /\ pc' = [pc EXCEPT ![p] = "auto_prune"]
  /\ src' = [src EXCEPT ![p] = root]
  /\ UNCHANGED <<diskVars, handleVars, lock, tree, todo, group>>

BackupReopen(p) ==
  /\ pc[p] = "reopen"
  /\ Open(p)
  /\ Goto(p, "build")
  /\ todo' = [todo EXCEPT ![p] = FilesUnder(src[p])]
  /\ UNCHANGED <<diskVars, src, tree, group, victims>>

\* The previous snapshot is read before the repository is opened.
IncList(p) ==
  /\ Start(p, "inc")
  /\ \E s \in Newest :
       /\ snaps[s].root = DirRoot
       /\ tree' = [tree EXCEPT ![p] = snaps[s].tree]
  /\ pc' = [pc EXCEPT ![p] = "inc_open"]
  /\ UNCHANGED <<diskVars, handleVars, lock, src, todo, group, victims>>

IncOpen(p) ==
  /\ pc[p] = "inc_open"
  /\ Open(p)
  /\ Goto(p, "build")
  /\ \E changed \in (SUBSET Files) \ {{}} : todo' = [todo EXCEPT ![p] = changed]
  /\ UNCHANGED <<diskVars, src, tree, group, victims>>

-----------------------------------------------------------------------------
\* Building the tree.

Building(p, f) ==
  /\ pc[p] = "build"
  /\ group[p].due = 0
  /\ f \in todo[p]
  /\ todo' = [todo EXCEPT ![p] = @ \ {f}]
  /\ UNCHANGED <<index, snaps, clock, controlVars, src, victims>>

\* The chunk just stored joins the parity group, which may be full with it.
JoinGroup(p, kept) ==
  group' = [group EXCEPT ![p] =
    IF group[p].filled + 1 < EccDataShards
    THEN [filled |-> group[p].filled + 1, due |-> 0, kept |-> TRUE]
    ELSE [filled |-> 0, due |-> EccParityShards, kept |-> kept]]

StoreFile(p, f, c) ==
  /\ Building(p, f)
  /\ StoreChunk(p, c)
  /\ JoinGroup(p, TRUE)
  /\ tree' = [tree EXCEPT ![p] = Put(@, f, c)]

\* A file whose name is the root of the newest snapshot, with the same size and
\* modification time, is not read: it gets the old chunks, and the counts of
\* those that are in the index go up.
ReuseFile(p, f) ==
  /\ cmd[p] # "inc"
  /\ Building(p, f)
  /\ \E s \in Newest :
       /\ snaps[s].root = f
       /\ f \in DOMAIN snaps[s].tree
       /\ LET c == snaps[s].tree[f]
          IN  /\ tree' = [tree EXCEPT ![p] = Put(@, f, c)]
              /\ mem' = [mem EXCEPT ![p] = IF c \in DOMAIN @ THEN AddRef(@, c) ELSE @]
  /\ UNCHANGED <<packs, buf, nextPack, group>>

\* A file below the root that is excluded or cannot be read is left out (of an
\* incremental backup's tree: left as it was).
SkipFile(p, f) ==
  /\ src[p] = DirRoot
  /\ Building(p, f)
  /\ UNCHANGED <<packs, mem, buf, nextPack, tree, group>>

\* The chunk was stored and a later chunk of the file, or the parity of the
\* group it fills, fails: the file is left out, the chunk stays counted.
StoreThenSkip(p, f, c) ==
  /\ "io" \in Faults
  /\ src[p] = DirRoot
  /\ Building(p, f)
  /\ StoreChunk(p, c)
  /\ JoinGroup(p, FALSE)
  /\ UNCHANGED tree

FailFile(p, f, c) ==
  /\ src[p] = DirRoot
  /\ Building(p, f)
  /\ StoreChunkFails(p, c)
  /\ UNCHANGED <<tree, group>>

\* An incremental backup removes deleted files from the tree it started from.
RemoveFile(p, f) ==
  /\ cmd[p] = "inc"
  /\ Building(p, f)
  /\ tree' = [tree EXCEPT ![p] = Remove(@, f)]
  /\ UNCHANGED <<packs, mem, buf, nextPack, group>>

\* flush_parity_group, before the file that filled the group goes on: its parity
\* chunks are stored one after the other.
FlushingGroup(p) ==
  /\ pc[p] = "build"
  /\ group[p].due > 0
  /\ UNCHANGED <<index, snaps, clock, controlVars, src, tree, todo, victims>>

StoreParity(p, c) ==
  /\ FlushingGroup(p)
  /\ StoreChunk(p, c)
  /\ group' = [group EXCEPT ![p] =
                 IF group[p].due = 1 THEN NoGroup
                 ELSE [group[p] EXCEPT !.due = group[p].due - 1]]

\* One of them fails, which fails the file; those before it stay counted.
ParityFails(p, c) ==
  /\ FlushingGroup(p)
  /\ ~group[p].kept
  /\ StoreChunkFails(p, c)
  /\ group' = [group EXCEPT ![p] = NoGroup]

-----------------------------------------------------------------------------
\* Finishing: flush_pending, save_index and Snapshot::save, one step each.

Built(p) == pc[p] = "build" /\ todo[p] = {} /\ group[p].due = 0

\* Slip: the buffered chunks are not flushed.
FinishNoFlush(p) ==
  /\ \/ Built(p) /\ cmd[p] # "sys"
     \/ pc[p] = "flush"
  /\ Goto(p, "index")
  /\ UNCHANGED <<diskVars, handleVars, lock, backupVars, victims>>

\* full and inc flush first; sys flushes after its snapshot is saved.
FinishFlush(p) ==
  /\ \/ Built(p) /\ cmd[p] # "sys"
     \/ pc[p] = "flush"
  /\ FlushPending(p)
  /\ Goto(p, "index")
  /\ UNCHANGED <<index, snaps, clock, lock, backupVars, victims>>

FinishIndex(p) ==
  /\ pc[p] = "index"
  /\ SaveIndex(p)
  /\ \/ /\ cmd[p] = "sys"
        /\ EndCommand(p)
        /\ ForgetBackup(p)
     \/ /\ cmd[p] # "sys"
        /\ Goto(p, "snapshot")
        /\ UNCHANGED <<handleVars, lock, backupVars>>
  /\ UNCHANGED <<packs, snaps, clock, victims>>

NewSnapshot(p) == [root |-> src[p], tree |-> tree[p]]

\* Slip: the snapshot's time is one ahead of the clock.
SaveSnapshotAhead(p) ==
  /\ clock' = clock + 1
  /\ snaps' = Put(snaps, clock + 2, NewSnapshot(p))
  /\ UNCHANGED <<packs, index>>

SaveSnapshot(p) ==
  /\ clock' = clock + 1
  /\ snaps' = Put(snaps, clock + 1, NewSnapshot(p))
  /\ UNCHANGED <<packs, index>>

\* Slip: the snapshot may be saved instead of the index.
FinishSnapshotEarly(p) ==
  /\ \/ pc[p] = "index" /\ cmd[p] # "sys"
     \/ pc[p] = "snapshot"
  /\ SaveSnapshot(p)
  /\ EndCommand(p)
  /\ ForgetBackup(p)
  /\ UNCHANGED victims

FinishSnapshot(p) ==
  /\ pc[p] = "snapshot"
  /\ SaveSnapshot(p)
  /\ EndCommand(p)
  /\ ForgetBackup(p)
  /\ UNCHANGED victims

SysSnapshot(p) ==
  /\ Built(p) /\ cmd[p] = "sys"
  /\ SaveSnapshot(p)
  /\ Goto(p, "flush")
  /\ UNCHANGED <<handleVars, lock, backupVars, victims>>

BackupStep(p) ==
  \/ \E command \in {"full", "sys"} : \E root \in RootsOf(command) :
       BackupOpen(p, command, root) \/ BackupOverLimit(p, command, root)
  \/ BackupReopen(p)
  \/ IncList(p)
  \/ IncOpen(p)
  \/ \E f \in Files :
       \/ \E c \in Chunks : StoreFile(p, f, c) \/ StoreThenSkip(p, f, c) \/ FailFile(p, f, c)
       \/ ReuseFile(p, f)
       \/ SkipFile(p, f)
       \/ RemoveFile(p, f)
  \/ \E c \in ParityChunks : StoreParity(p, c) \/ ParityFails(p, c)
  \/ FinishFlush(p)
  \/ FinishIndex(p)
  \/ FinishSnapshot(p)
  \/ SysSnapshot(p)

=============================================================================
