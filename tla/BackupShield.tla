------------------------------ MODULE BackupShield ------------------------------
(***************************************************************************)
(* The commands of the command-line tool, run by several processes on one  *)
(* repository.  Only the lock coordinates them.  A process may crash (or   *)
(* its command end with an error) between any two steps: the operating     *)
(* system drops its flock, and its memory is gone.                         *)
(***************************************************************************)
EXTENDS Backup, Compact

vars == <<repositoryVars, victims, backupVars, compactVars>>

Init ==
  /\ RepositoryInit
  /\ victims = [p \in Procs |-> EmptyMap]
  /\ src = [p \in Procs |-> DirRoot]
  /\ tree = [p \in Procs |-> EmptyMap]
  /\ todo = [p \in Procs |-> {}]
  /\ group = [p \in Procs |-> NoGroup]
  /\ live = [p \in Procs |-> {}]
  /\ old = [p \in Procs |-> {}]
  /\ copies = [p \in Procs |-> {}]
  /\ moved = [p \in Procs |-> EmptyMap]

ForgetAll(p) == ForgetVictims(p) /\ ForgetBackup(p) /\ ForgetCompact(p)

\* The states in which a command is about to take the lock.
Opening == {"prune_open", "auto_prune", "reopen", "inc_open", "compact_open"}

\* The lock is held, by another process or another handle of this one: the
\* command ends with an error.
OpenFails(p) ==
  /\ pc[p] \in Opening \cup {"auto_delete"}
  /\ lock # NoProc
  /\ EndCommand(p)
  /\ ForgetAll(p)
  /\ UNCHANGED diskVars

Crash(p) ==
  /\ "crash" \in Faults
  /\ pc[p] # "idle"
  /\ EndCommand(p)
  /\ ForgetAll(p)
  /\ UNCHANGED diskVars

Step(p) ==
  \/ PruneStep(p) /\ UNCHANGED <<backupVars, compactVars>>
  \/ BackupStep(p) /\ UNCHANGED compactVars
  \/ CompactStep(p) /\ UNCHANGED <<victims, backupVars>>
  \/ OpenFails(p)

Next == \E p \in Procs : Step(p) \/ Crash(p)

Spec == Init /\ [][Next]_vars

\* The operating system runs every process that can go on.
FairSpec == Spec /\ \A p \in Procs : WF_vars(Step(p))

-----------------------------------------------------------------------------
\* Properties.

Labels == {"idle", "build", "flush", "index", "snapshot", "delete", "auto_delete",
           "compact_write", "compact_delete"} \cup Opening

\* Types of all state.
TypeOK ==
  /\ RepositoryTypeOK
  /\ pc \in [Procs -> Labels]
  /\ DOMAIN victims = Procs
  /\ \A p \in Procs : IsSnapshots(victims[p], clock)
  /\ src \in [Procs -> Files \cup {DirRoot}]
  /\ DOMAIN tree = Procs
  /\ \A p \in Procs : Tree(tree[p])
  /\ todo \in [Procs -> SUBSET Files]
  /\ group \in [Procs -> [filled : 0 .. EccDataShards - 1, due : 0 .. EccParityShards, kept : BOOLEAN]]
  /\ live \in [Procs -> SUBSET Chunks]
  /\ old \in [Procs -> SUBSET Nat]
  /\ copies \in [Procs -> SUBSET (Nat \X Chunks)]
  /\ DOMAIN moved = Procs
  /\ \A p \in Procs : DOMAIN moved[p] \subseteq Chunks /\ moved[p] \in [DOMAIN moved[p] -> Nat]

\* Every command ends, by itself, and no command that ended holds the lock: no
\* order of steps leaves a process waiting for another, or the repository
\* locked for ever (Repository's Drop, and the try_lock in open).
CommandsEnd ==
  \A p \in Procs : pc[p] # "idle" ~> pc[p] = "idle" /\ lock # p

\* How many stages a command has before it at most.
Stage(label) ==
  CASE label = "idle" -> 0
    [] label \in {"snapshot", "auto_delete", "compact_delete"} -> 1
    [] label \in {"index", "compact_write"} -> 2
    [] label \in {"flush", "compact_open"} -> 3
    [] label = "build" -> 4
    [] label \in {"reopen", "inc_open"} -> 5
    [] label = "delete" -> 6
    [] label \in {"prune_open", "auto_prune"} -> 7

\* What a stage has left to do: files to look at, snapshots to delete, chunks to
\* copy, packs to delete.
Work(p) ==
  CASE pc[p] = "build" -> todo[p]
    [] pc[p] = "delete" -> DOMAIN victims[p]
    [] pc[p] = "compact_write" -> copies[p]
    [] pc[p] = "compact_delete" -> old[p]
    [] OTHER -> {}

\* A later stage, or the same with less left to do, or as much and fewer parity
\* chunks due.
Advances(p) ==
  \/ Stage(pc'[p]) < Stage(pc[p])
  \/ pc'[p] = pc[p] /\ Work(p)' \subseteq Work(p) /\ Work(p)' # Work(p)
  \/ pc'[p] = pc[p] /\ Work(p)' = Work(p) /\ group'[p].due < group[p].due

\* No command goes round in circles, and none undoes what another has done of
\* its own: every step starts a command or brings one that runs nearer to its
\* end, a backup that prunes first and opens again included, whatever the other
\* processes do to the disk in between, and leaves the rest where they are.
CommandsAdvance ==
  [][\E p \in Procs :
       /\ (pc[p] = "idle" /\ started' = started + 1) \/ Advances(p)
       /\ \A q \in Procs \ {p} :
            pc'[q] = pc[q] /\ Work(q)' = Work(q) /\ group'[q] = group[q]]_vars

\* The counts of an index are what the snapshots on disk refer to, and it has
\* no entry for a chunk no snapshot refers to, the parity of groups apart.
Exact(idx) ==
  \A c \in Chunks \ ParityChunks :
    /\ c \in DOMAIN idx <=> Occurrences(c) > 0
    /\ c \in DOMAIN idx => idx[c].refs = Occurrences(c)

\* Without faults nothing of the files leaks either: whenever no command is
\* running the counts are exact, and a chunk no snapshot refers to has left the
\* index.  Parity chunks are the exception: each is counted when it is stored
\* and held by no snapshot, so that its entry stays until a compaction.
RefsExact == (\A p \in Procs : pc[p] = "idle") => Exact(index)

\* A compaction that ran to its end reclaimed everything: no pack keeps a dead
\* chunk, no index entry names one, and whatever earlier crashes left behind
\* (packs no index ever named, entries no snapshot uses) is gone.
CompactReclaims ==
  \A p \in Procs :
    pc[p] = "compact_delete" /\ old[p] = {} =>
      /\ \A k \in DOMAIN packs : packs[k] \subseteq Referenced
      /\ DOMAIN index \subseteq Referenced

\* However many backups find the repository over its limit at the same time,
\* each listing what to delete before it gives the lock up, together they leave
\* min_snapshots (check_storage_limit, delete_snapshots).
KeepsMinSnaps ==
  [][Cardinality(DOMAIN snaps) >= MinSnaps => Cardinality(DOMAIN snaps') >= MinSnaps]_vars

\* compact_packs: live_hashes is "the set of chunk hashes that are still
\* referenced by snapshots (i.e., should be kept)", when it is used.
LiveSetCurrent ==
  \A p \in Procs : pc[p] = "compact_write" => Referenced \subseteq live[p]

-----------------------------------------------------------------------------
\* Why IndexSound holds: what is true of every handle between two steps.

\* The states of a backup or a deletion that has the repository open.
Handling == {"build", "flush", "index", "snapshot", "delete", "auto_delete"}

\* The states in which a process holds the lock.
Holding == Handling \cup {"compact_write", "compact_delete"}

\* The lock is held by the one process that is between its open and its close.
LockHeld == \A p \in Procs : pc[p] \in Holding <=> lock = p

\* An entry in memory names a pack that holds its chunk, or the chunk is still
\* in the buffer; when the index is about to be saved the buffer is empty.
HandleSound(p) ==
  pc[p] \in Handling =>
    /\ \A c \in DOMAIN mem[p] : Stored(mem[p], c) \/ c \in buf[p]
    /\ pc[p] \in {"index", "delete"} => buf[p] = {}

\* The next pack id is above every pack on disk.
FreshIds(p) ==
  pc[p] \in Handling \cup {"compact_write"} =>
    \A k \in DOMAIN packs : k < nextPack[p]

\* While packs are copied, every live chunk of an old pack is still to be copied
\* or sits in a new pack; once the index is saved no entry names an old pack.
CompactSound(p) ==
  /\ pc[p] \notin {"compact_write", "compact_delete"} => moved[p] = EmptyMap
  /\ pc[p] = "compact_write" =>
       /\ \A c \in DOMAIN moved[p] :
            moved[p][c] \in DOMAIN packs \ old[p] /\ c \in packs[moved[p][c]]
       /\ \A k \in old[p] \cap DOMAIN packs : \A c \in live[p] \cap packs[k] :
            <<k, c>> \in copies[p] \/ c \in DOMAIN moved[p]
       /\ old[p] \subseteq DOMAIN packs
  /\ pc[p] = "compact_delete" =>
       \A c \in DOMAIN index : index[c].pack \notin old[p]

\* The inductive invariant behind IndexSound and PacksWriteOnce: entries,
\* buffers, pack ids and the lock fit together in every state of a command.
HandlesConsistent ==
  /\ IndexSound
  /\ LockHeld
  /\ \A p \in Procs : HandleSound(p) /\ FreshIds(p) /\ CompactSound(p)

-----------------------------------------------------------------------------
\* The abstract snapshot store.

Unreadable == "unreadable"

Read(c) == IF c \in DOMAIN index /\ Stored(index, c) THEN c ELSE Unreadable

\* What restoring each snapshot yields now.
Restored ==
  [s \in DOMAIN snaps |->
     [f \in DOMAIN snaps[s].tree |-> Read(snaps[s].tree[f])]]

Store == INSTANCE SnapshotStore WITH
  Trees <- UNION {[F -> Chunks] : F \in SUBSET Files},
  store <- Restored,
  last <- clock

\* Every step of the commands is a step of the snapshot store.
StoreSpec == Store!Spec

=============================================================================
