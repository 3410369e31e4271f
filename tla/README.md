# BackupShield in TLA+

BackupShield is a command-line backup program. A repository on disk holds
deduplicated chunks in pack files, a chunk index with reference counts, and
snapshots; independent processes run backups, prunes, compactions, verifications
and restores on it and are coordinated by one exclusive file lock. This directory
models the repository, the commands that change it and the components around it,
model-checks them on small instances with TLC, and proves the central safety
properties for every instance with TLAPS.

## 1. The system

| Component | State it keeps | Operations | What makes it hard |
|---|---|---|---|
| Repository handle (`crates/core/src/repository.rs`) | the flock, the chunk index in memory, a pack writer | open, drop, `store_chunk`, `flush_pending`, `save_index`, `remove_chunk`, `check_storage_limit`, `write_repaired_chunk` | buffered chunks are already in the index; nothing in memory survives a crash |
| Pack files (`pack.rs`) | `data/pack-NNNNNN.pack`, write-once | `PackWriter::add_chunk`, `flush`; `PackReader`; `compact_packs` | ids are computed from the directory; compaction replaces packs, then the index, then deletes |
| Snapshots (`snapshot.rs`) | `snapshots/<id>.json` | save, list, find, `prune_snapshots`, `delete_snapshots` | counts change in memory, files on disk, in one loop |
| Backup commands (`cli/src/main.rs`) | the tree being built | `run_full_backup`, `run_incremental_backup`, `cmd_backup_system`, `finish_backup` | the order of flush, index and snapshot; automatic pruning gives the lock up in the middle |
| prune, compact, auto-prune (`cli/src/main.rs`, `snapshot.rs`) | a list of snapshots, a set of live chunks, the policy's counts | `cmd_prune`, `cmd_compact`, `cmd_auto_prune` | decisions taken before the lock is held; weeks across New Year |
| Watcher and watch daemon (`watcher.rs`, `main.rs`) | a set of changed paths shared by two threads, a state file | `process_event`, `get_changed`, `clear`, `run_watch_daemon` | events that arrive while a backup runs; failed backups |
| Verify, scrub, repair (`crates/verify`, `ecc/src/repair.rs`) | parity groups, a parity index, copies of both indexes | `verify`, `scrub_and_repair`, `write_repaired_chunk` | read without the lock, beside writers, over a disk that loses data |
| Restore (`crates/restore`, `cli/src/main.rs`) | the target directory | `restore_node`, twice: the command's and the library's | temporary names, files in the way, links, partial failure |
| Encryption and compression (`crypto.rs`, `compression.rs`, `main.rs`) | `encryption_enabled`, the key file | `resolve_encryption_key`, `process_chunk`, three ways to read a chunk back | no chunk says how it was encoded; keys made by several commands; crashes between configuration and data |
| Reed-Solomon (`ecc/src/reed_solomon.rs`) | none (pure) | encode, reconstruct | a matrix that need not be invertible, pivots, tables |
| Chunker (`chunker.rs`) | the rolling hash | `Buzhash::update`, `chunk_data` | boundaries, what the hash depends on |
| Scheduling (`main.rs`) | files in LaunchAgents, launchd's jobs, Windows tasks | `--schedule`, `unschedule` | the file and the loaded job differ; tools that refuse |
| APFS snapshots (`apfs.rs`) | volume snapshots and mount points | `ApfsSnapshotGuard`, `rebase_path_to_snapshot` | mount points named by the second |
| Storage backends, FileIndex, VSS, Windows attributes, system manifest, GUI, scripts | none that the repository shares | | stubs, unused code, platform I/O |

Processes share only the disk and the lock. `Repository::open` loads the
configuration (`repository.rs:259`), then tries the lock without waiting (268): a
command that meets a held lock ends with an error. Restore holds the lock like the
commands that write (`main.rs:1913`, `restore.rs:173`); verify and scrub read without it.
Packs, the index, snapshots and the configuration are replaced by write-temporary,
sync, rename, so one write is one step. The key file (`keygen.rs:146`) and the parity
index (`repair.rs:79`) are renamed without a sync, and so are restored files
(`main.rs:2219`, `restore.rs:546`), though `src/README.md:31` names fsync: a crash, in the
models, is that of the process, after which the system still has what was written. The
watcher's state file is written in place (`watcher.rs:155`), which is two steps.

## 2. The modules

    Repository ── Prune ── Backup ──┐
         └──────── Compact ─────────┴── BackupShield ── MCBackupShield, MCStore
                                             │  └ INSTANCE SnapshotStore
                                        BackupShieldTypes
                                             │
                                        BackupShieldSafety
                                             │
                                        BackupShieldRestorable

    WatchDaemon ────────────────── WatchDaemonProofs, MCWatchDaemon
    Maintenance ────────────────── MaintenanceProofs
    Restore, Encoding ──────────── RestoreProofs
    Chunker, Retention,
      ReedSolomon ──────────────── AlgorithmProofs
    Schedules, ApfsSnapshot ────── PlatformProofs

    the nine on the left ───────── MCTools

| Module | Models |
|---|---|
| `Repository` | the disk (`packs`, `index`, `snaps`, `lock`) and each process's handle (`mem`, `buf`, `nextPack`); opening, closing, storing a chunk (known, buffered, or filling a pack, or failing), flushing, saving the index; what starting and ending a command does |
| `Prune` | `prune_snapshots` (list, then lock), `delete_snapshots` (lock, then list), the loop they share, the save at its end, and auto-prune |
| `Backup` | the three backup commands: the storage limit, the walk over the source (store, reuse, skip, fail, remove), the parity chunks stored whenever a group of chunks is full, and the two finishing orders |
| `Compact` | `cmd_compact` and `compact_packs`: live set, copying, new index, deletion of old packs |
| `BackupShield` | all commands, run by any number of processes; refused opens; crashes; the properties that need all of it |
| `SnapshotStore` | the abstract promise: saved snapshots restore to the tree they were saved with until they are deleted |
| `WatchDaemon` | watch mode: users changing the source, the watcher's thread, the daemon's full backup and loop, the state file and its writing, and the incremental backup that the daemon and, beside it, a user run |
| `Maintenance` | the repository on a disk that loses and damages packs: backups with parity groups, prunes and compactions beside verification (quick, sample, full, of one snapshot), scrub and repair |
| `ReedSolomon` | GF(256) by tables, the encoding matrix, encoding, Gauss-Jordan elimination column by column, reconstruction |
| `Restore` | both restore engines over a target directory that holds files: directories, temporary files and renames, links, options, failures, crashes |
| `Encoding` | the encryption setting, which commands load before they have the lock, the key file and its salts, what each backup stores under which key, the configuration that `config` saves back, and what restore, restore-version and restore-system make of it |
| `Chunker` | Buzhash and `chunk_data`, one byte per step, words as sets of bits |
| `Retention` | the policy's walk over the snapshots with its three counts, newest first, over a calendar that is a parameter |
| `Schedules` | `--schedule` and `unschedule` on macOS and Windows, logins, and tools that fail |
| `ApfsSnapshot` | several processes that make, mount, read, unmount and delete volume snapshots |
| `MCBackupShield`, `MCWatchDaemon` | symmetry for the configurations |
| `MCStore` | the store under the uses that are safe: several processes that run full backups, or one command at a time |
| `MCTools` | constants for the other components, one of them per behaviour, as they share no state |
| `*Types`, `*Safety`, `*Restorable`, `*Proofs` | theorems and proofs |

**The repository's state.** `packs` maps a pack id to its chunks; `index` maps a chunk
to its count and pack, `Pending` (0) meaning "still in the buffer" as in
`ChunkMeta::pack_id`; `snaps` maps a snapshot to its root and its tree; `lock` is the
flock. `pc[p]` says where process `p` is in its command; its labels name the code
between two effects another process or a crash can tell apart:

| label | code |
|---|---|
| `build` | the walk of `build_snapshot_tree`, one file at a time |
| `flush`, `index`, `snapshot` | before `flush_pending`, `save_index`, `Snapshot::save` |
| `prune_open`, `auto_prune`, `reopen`, `inc_open`, `compact_open` | something was read, the lock is still to be taken (again) |
| `delete` | the loop over the snapshots to delete, and the save after it |
| `compact_write`, `compact_delete` | before and after the compacted index is in place |

**Abstractions.** A chunk is its hash, and its place in a pack is the pack's id
(the offset goes with it). Sizes are left out, so a pack may fill up at any
chunk, and the storage limit may be exceeded whenever there are more snapshots
than `MinSnaps` (disk usage does not go down before a compaction, so the limit
can strike again). A snapshot maps files to one chunk each: a file of several
chunks is several members of `Files`, and its failure half-way is
`StoreThenSkip`. `group` is the parity buffer: after `EccDataShards` stored chunks,
`EccParityShards` more are stored, one step each (`StoreParity`), which may be any members
of `ParityChunks`; they may fill a pack, fail, and be chunks the index or the source has.
A snapshot's name is the time it was saved at. In `Prune` the
policy may give up any set of snapshots without the newest, which is exactly what
the choice of dates and counts can produce; `Retention` is about the choice. An
incremental backup starts from a snapshot of a directory and may find any files
changed. Sections that hold the lock and change nothing on disk (the limit check,
collecting the live chunks) are one step. `Crash` also stands for every error that
ends a command, since both leave the disk as it is and drop the handle; `"io"` in
`Faults` is the one error that does not end it, a failed pack write below a
directory, after which the walk goes on.

**The other modules** each reduce the repository to what their question needs.

- `WatchDaemon`: the repository is its newest snapshot. `events` is the watcher's
  channel, `changed` the set its thread and the daemon share, `state` the file
  `.backupshield_watcher_state`, which `SaveBegins` makes empty and torn, `SaveEnds` completes
  and `SaveFails` leaves as it is. The daemon and a backup by hand (`Actors`) share it and
  the repository; the lock is held from `Open` to `RemoveState`, not while the paths are
  loaded (`Load`, `StartByHand`) and the newest snapshot is listed (`ListNewest`), which `Open`
  does not repeat. The thresholds of the loop (5 changes, 300 seconds) are left
  out: a backup may start whenever there is a change. `Process` goes through the
  paths in any order, as the code iterates a hash set. Directories are not nested.
  `StopDaemon` is a kill, a crash, or a full backup that fails; `BackupFails` and `OpenFails`
  are the errors of an incremental backup, which the daemon logs before it clears the set.
- `Maintenance`: counts are exact (`BackupShield` is about them). `packFiles`, `rotten`
  (copies whose bytes changed), `chunkIndex`, `parityIndex` and `snapshots` are the
  disk; `wPc`, `wJob` the one writer; `cPc` and the other `c...` variables the one
  verification or repair, with the indexes it loaded without the lock. A parity
  chunk is the list of its data and its number; a group with enough shards left
  can be reconstructed, which is what `ReedSolomon` is about, unless what is left of
  it is among the `Singular` sets of positions, whose rows of the encoding matrix have no
  inverse.
- `ReedSolomon`: a shard is one byte, as the code treats the bytes of a shard alike,
  and a byte is the set of its bits that are 1, so exclusive or is the symmetric
  difference. The field's tables have no parameter: `FieldAssumption` states what they
  contain, and TLC looks at every entry whenever a run evaluates it.
- `Restore`: a file's content is the number of the node it came from, or `Partial`, or
  the user's; names that share a temporary name share it here (`TmpPath`); links
  are followed by `Path::exists` and writes. The user is not root.
- `Encoding`: a file is one chunk; a key is password and salt; what was encrypted under
  another key never decodes by accident. `opening` holds each user's command that has
  loaded the configuration (an incremental one: listed the snapshots, then loaded it)
  and does not have the lock; `encCommand` is the one that has it, with the setting it
  loaded, which decides whether it encrypts or decrypts, whatever is on disk by then.
  `SaveLoadedConfig` is the `config` command: it changes two numbers and saves everything
  else as it was loaded.
- `Chunker`: the table of random words and the width are parameters.
- `Retention`: a snapshot is its day, a day's year, month, ISO week number and week are
  parameters, so that weeks that cross New Year are there.
- `Schedules`: `plists` is what the files say, `loaded` what runs; launchctl and
  schtasks may refuse.
- `ApfsSnapshot`: `mounts` maps each second that names a mount point to what is mounted
  there, the latest last; a mounted snapshot is not deleted.

## 3. What is checked

The runs of `BackupShield` start from an initialised, empty repository. In `tools` a
behaviour picks one topic and leaves the other components in a fixed initial
state. `CHECK_DEADLOCK FALSE` is set because constants named `Max...` bound how much a
behaviour does, after which the system rests; a real user may rest as well.

| Run | Instance | Properties | States |
|---|---|---|---|
| `all_commands` | 2 processes, all six commands, parity groups of 1 chunk, crashes, 3 commands, fair | `TypeOK`, `IndexSound`, `HandlesConsistent`, `PacksWriteOnce`, `CommandsEnd`, `CommandsAdvance` | 154 000 |
| `store` | 2 processes: full backups with automatic pruning and crashes, 4 commands; or full/prune/compact one at a time, crashes and failed writes, 3 commands; parity groups of 2 chunks | `SnapshotsRestorable`, `RefsCover`, `CompactReclaims`, `StoreSpec`, `KeepsMinSnaps` | 1 290 000 |
| `no_faults` | 1 process, full/sys/prune/compact, parity groups of 2 chunks, no faults, 5 commands | `RefsExact` | 6 678 000 |
| `tools` | the components beside the store, below | 28, below | 1 265 000 |

The topics of `tools`:

| Topic | Instance | Properties | States |
|---|---|---|---|
| watch | 2 files of 2 versions, one of them in a directory, 2 changes, 2 starts (daemon or by hand), crashes and errors | `PathsRemembered`, `TakenCaptured`, `FullBackupTracked` | 343 000 |
| maintenance | 2 data chunks, groups of 2 + 2, 2 of 3 inputs, 2 writers, 1 check, 1 loss of data | `RepairComplete`, `RepairedCounted`, `VerdictSound`, `AlarmJustified`, `RepairHarmless`, `WritersHarmless` | 385 000 |
| erasure | the field's 256 rows; 4 + 3 shards, 2 vectors, every loss of at most 4 shards | `FieldIsSound`, `RecoveredExact`, `MaxLossRecoverable` | 1 200 |
| restore | 4 snapshots, 4 target directories, 3 sets of options, any filter and any lost files, 2 restores, crashes and failures | `RestoredOrReported`, `UserFilesKept`, `NoPartialFiles`, `CleanRestoreExact` | 179 000 |
| encoding | 2 files of 2 contents, 2 passwords, 2 users, 4 commands, 1 change, crashes | `KeysKept`, `RestorableUnderOneSetting`, `NoSilentGarbage` | 297 000 |
| chunker | words of 3 bits, chunks of 2 to 5 bytes, every file of at most 8 bytes of 2 kinds, each followed by a version with another beginning | `ChunkSizes`, `HashOfWindow`, `CutsMeetAgain` | 28 000 |
| retention | 6 days around New Year, 4 snapshots, 4 policies, 2 prunes | `NewestOfPeriodsKept`, `NothingElseKept` | 12 000 |
| schedules | 2 frequencies, 2 sources, both platforms, 3 commands, 1 login | `ScheduledRuns`, `UnscheduledStops` | 10 000 |
| apfs | 2 processes, 3 kinds of sources, 2 snapshots, 2 seconds, crashes and tools that fail | `OwnSnapshotRead`, `SnapshotsReleased` | 10 000 |

What the properties say of the store:

- `IndexSound`: every entry of the saved index names a pack that exists and
  holds the chunk. `SnapshotsRestorable`: and every chunk of every snapshot has
  such an entry, at every moment.
- `RefsCover`: a saved count never falls below the references that exist;
  a crash may leave it too high, never too low. `RefsExact`: without faults it is
  exact whenever nothing runs, and a chunk nothing refers to has left the index; but
  for parity chunks, which are counted although no snapshot refers to them.
- `PacksWriteOnce`: no command ever writes other chunks under an existing id.
- `CompactReclaims`: a compaction that ran to its end leaves no dead chunk and no
  dead entry, whatever crashes left behind earlier.
- `KeepsMinSnaps`: backups that each list what to delete and give the lock up before
  they delete still leave `MinSnaps` snapshots together.
- `StoreSpec`: with `store` read through the index into the packs, every step is a
  save, a delete or a stutter of `SnapshotStore`. In particular a snapshot's
  restored content never changes.
- `CommandsEnd`: every command ends and its process no longer has the lock.
  `CommandsAdvance`: each step starts a command, takes one to a later stage (`Stage`) or
  leaves it less of what its stage works off (`Work`, or the parity chunks that are due),
  and leaves those of the other
  processes where they are: a backup that prunes, drops the lock and opens again never
  comes back to where it was.

Of watch mode, `FullBackupTracked`: when the daemon's loop begins, each file that differs
from the full snapshot is known to the watcher. `PathsRemembered`: from the end of their
write until the daemon has cleared them, the paths it copied are in the state file or
their files are in the newest snapshot, whatever fails or dies. `TakenCaptured`: an
incremental backup's snapshot has the source's version of each file it was started
for, unless the file changed again or its directory was reported too, also when it
started from a snapshot that is not the newest any more.

Of maintenance, `RepairHarmless` and `WritersHarmless`: no step of a repair makes a
readable chunk unreadable, and no writer takes a restorable snapshot away, whatever
the other one does and whatever the disk lost before. `RepairComplete`: an undisturbed
repair brings every bad chunk back unless more chunks of its first parity group are
lost (bad, or no longer indexed) than the group has parity, or what is left of the
group cannot be inverted. `RepairedCounted`: it reports no more repaired chunks than bad ones, unless a group holds a bad chunk twice.
`VerdictSound`: a clean verdict means that the snapshots the index knows are
restorable; `AlarmJustified`: an undisturbed alarm means that the disk lost something
or a snapshot's chunks never reached the index.

Of the erasure code, `FieldIsSound`: the tables compute products of polynomials and
their inverses. `RecoveredExact`: what is reconstructed is what was encoded.
`MaxLossRecoverable`: any loss of at most `ParityShards` shards is made good; it holds
of 4 + 3 shards, and not of the default 64 + 8 (`default_shards`, below). Section 4 says
where the border is.

Of restore, `RestoredOrReported`: every node that was passed is in place or named by an
error. `UserFilesKept`: what the user had stays, unless it was to be overwritten, has
the name of a temporary file or is where a link of such a name leads, or is a link that
leads nowhere. `NoPartialFiles`: no crash of the process leaves part of a file but under a temporary
name or where a link of such a name leads. `CleanRestoreExact`: an unhindered restore yields the snapshot's tree.

Of encoding, `KeysKept`: the key file is that of every encrypted chunk of every
snapshot. `RestorableUnderOneSetting`: a restore that runs with the setting on disk gives
every file back, unless the setting changed once there was a snapshot, or a backup that
is `AtOdds` with it stored otherwise: one that had loaded another setting before it had
the lock, or an incremental one told to encrypt. `NoSilentGarbage`: and otherwise it
reports an error, unless such a backup encrypted while the setting is off, or the setting
was turned off over stored chunks. The exceptions name the causes, not the damage: a
full backup in time that stored otherwise, or forgot to save the setting, would violate
both. Of a restore whose setting is out of date nothing is promised (`ReadsBySetting`).

Of the rest, `ChunkSizes` and `HashOfWindow`: chunks are the file, cut in pieces of the
sizes promised, where a hash of the last bytes alone says so; `CutsMeetAgain`: two
versions that end alike share all chunks from the first cut they share on.
`NewestOfPeriodsKept` and `NothingElseKept`: the policy keeps the newest snapshots of
each period, and only those. `ScheduledRuns` and `UnscheduledStops`: what a command
that reports success says is so, now and after a login. `OwnSnapshotRead` and
`SnapshotsReleased`: a backup reads its own volume snapshot and leaves none behind.

**Bounds.** Two chunks, two files and one or two processes are enough for what can go
wrong in the store: two files that share a chunk, a chunk shared by two snapshots, a
pack with and without garbage, one process in each of the gaps where another has no
lock. Three to five commands are enough for the longest stories we know (backup,
backup, crash, backup with automatic prune; backup, prune, compact). A parity group of
two chunks is filled within a backup, by its last file or before it, or not at all; one
parity chunk may be a chunk of the source as well. Groups of one chunk are full with
every chunk, so that the commands of `all_commands` store parity with one file. Processes
and files are interchangeable, and so are chunks if both or neither may be parity, so
safety runs use symmetry; `all_commands`,
which checks liveness, does not. In watch mode, two changes are one before a backup, or
two during it, or one in each, and two starts are a daemon and a backup by hand, beside it
or after its crash. In encoding, two users are a command that has loaded the
configuration and another that changes it. In maintenance, the inputs are a chunk twice in a group, a
chunk alone, and two groups of the same chunks, and a behaviour has the second and one
of the others, in any order; two writers are a backup and what
comes after it; at 2 + 2 any two shards can be inverted, so `Singular` is empty. 4 + 3 shards
have pivots that are zero, so rows are swapped. The target directories have a file, a
directory, a link, and a chain of links at the name of a temporary file, a link that
leads to one, and a file where a directory belongs. Eight bytes are a file of two to four chunks. The
six days have a week whose key two calendar weeks share.

**Fairness.** `FairSpec` is weak fairness of each process's own steps, `Step(p)`;
crashes are not fair. The code never waits: the lock is tried, not awaited, and
every loop goes over a finite list, so the only assumption is that the operating
system runs a process that can run.

**Where the code departs from its documentation.** Eight runs show a
disagreement, each with the shortest story TLC finds:

| Run | Violated | Story |
|---|---|---|
| `compact_lock_gap` | `LiveSetCurrent` | `cmd_compact` reads the live chunks, drops the lock; a backup saves a snapshot; `compact_packs` takes the lock with the old live set. Its documentation asks for the set of chunks "still referenced by snapshots". |
| `prune_stale_list` | `RefsCover` | two prunes list the same snapshot before either has the lock; both decrement its chunks. |
| `incremental_refs` | `RefsCover` | an incremental snapshot keeps chunks of the tree it started from without counting them; pruning the older snapshot takes them out of the index. |
| `system_order` | `SnapshotsRestorable` | `backup-system` saves its snapshot first; `finish_backup`'s comment demands "LAST". |
| `watch_lost_changes` | `ChangesKept` | a file changes and a backup starts; the file changes again and the watcher notices; the loop clears the set. "Watch for file system changes and perform automatic incremental backups" no longer holds of that file. |
| `parity_after_compact` | `ProtectedRepaired` | a backup puts a chunk into a parity group; a compaction drops the parity chunks, which no snapshot refers to; the chunk is damaged and cannot be repaired, though "Reed–Solomon parity automatically repairs the damaged chunks". |
| `written_back` | `NoGarbageWrittenBack` | `restore-system` and `restore-version` write a compressed chunk as it is stored into the user's file and report success. |
| `default_shards` | `MaxLossRecoverable` | 64 data and 8 parity shards, the default, lose shards 0, 1, 25 and 66: `reconstruct` takes the first 64 of the 68 that are left, whose rows are singular, and gives up, though "Up to `parity_shards` shards can be lost and recovered". Of the losses of all eight, {0, 3, 5, 66, 67, 69, 70, 71} cannot be made good by any choice. |

The first four are why the passing runs for `SnapshotsRestorable` and `RefsCover` leave
out certain combinations: incremental backups (3rd row), `backup-system` with
crashes (4th), prune or compact beside another process (1st and 2nd). Within
the combinations they do allow, the properties hold with every interleaving and
every crash. `all_commands`, and the theorems about `IndexSound`, `HandlesConsistent`
and `PacksWriteOnce`, leave nothing out.

Other properties state their exceptions, and each exception is behaviour of the code
that the model has:

- `RefsExact`: parity chunks are stored with a count (`main.rs:4109`) and belong to no
  snapshot, so nothing but a compaction takes their entries away.
- `PathsRemembered`: a write of the state file that fails leaves it empty or torn, and the
  daemon clears the paths all the same (`main.rs:1585`); a backup by hand beside the daemon
  removes the file whoever wrote it (`main.rs:1506`), and, having listed the newest snapshot
  before it opened the repository (`main.rs:1364`, `main.rs:1370`), may save a tree without
  what the daemon has just saved. A crash in the middle of the write loses the paths as
  well: the property begins where the write ends.
- `RestorableUnderOneSetting`, `NoSilentGarbage`: the configuration is loaded before the lock is
  tried for (`repository.rs:259`). A backup that loaded "off" may store in the clear after a
  first `backup --encrypt`; an incremental `--encrypt` encrypts and leaves the configuration;
  `config`, which saves what it loaded (`main.rs:2824`), may turn the setting off again over
  encrypted chunks; and a restore that loaded "off" writes encrypted chunks as they are.
- `TakenCaptured`: a directory that is itself among the changed paths becomes a node
  without children and replaces the one with the files.
- `RepairedCounted`: a group that holds a bad chunk twice counts it twice, and
  `cmd_repair` subtracts unsigned numbers.
- `RepairComplete`: only the first group that holds a chunk is tried, and a group of
  which the shards left are a singular choice is skipped (`scrub.rs:383`).
- `VerdictSound`: a verification walks the index, so a chunk that has left it is missed;
  a quick one takes any pack under a lost pack's id for it.
- `UserFilesKept` and `NoPartialFiles`: `with_extension` gives `a.doc` and `a.txt` the same
  temporary name, which may also be a user's file, a link of the user's, or a file of the
  snapshot; a link that leads nowhere does not `exist()`, so it is written through or
  replaced.
- `CleanRestoreExact`: a read-only directory is made read-only before its files are written.
- `NewestOfPeriodsKept`: the weekly key pairs the calendar year with the ISO week, so the
  last days of December can share a key with January of the same year.
- `OwnSnapshotRead`, `SnapshotsReleased`: two guards that start in the same second share a
  mount point; a source typed through a link or relative is not found in the snapshot
  as it was typed; a mount that fails leaves the snapshot.
- `UnscheduledStops`: a job that was loaded and has lost its file, or that launchctl
  does not unload, goes on running. `ScheduledRuns`: where another job of that frequency
  was loaded, it may go on until the next login.

`auto-prune --execute` never deletes anything: its own handle holds the lock that
`delete_snapshots` asks for (`AutoPruneOpen`).

Definitions whose comment starts with "Slip" are not used by any specification:
each is a plausible mistake in the definition that follows it, and exchanging the
two makes TLC report the property named in `PROJECT.json`.

## 4. What is proved

Every theorem is about the specification with arbitrary constants, under the named
assumption of its module, and each rests on an inductive invariant.

**The repository** (`RepositoryAssumption`, `BackupAssumption`: any `Procs`, `Chunks`,
finite `Files`, `Commands`, `Faults`, `Roots`, `MinSnaps`, sizes of parity groups,
`ParityChunks`, `MaxCommands`):

| Theorem | States | Assumed besides |
|---|---|---|
| `TypeCorrect` | `Spec => []TypeOK` | |
| `HandlesAlwaysConsistent` | `Spec => []HandlesConsistent` | |
| `IndexAlwaysSound` | `Spec => []IndexSound` | |
| `PacksAlwaysWriteOnce` | `Spec => PacksWriteOnce` | |
| `CommandsAlwaysAdvance` | `Spec => CommandsAdvance` | |
| `WorkAlwaysFinite` | `Spec => [](\A p \in Procs : IsFiniteSet(Work(p)))` | |
| `RefsAlwaysCover` | `Spec => []RefsCover` | `CoveredUse` |
| `SnapshotsAlwaysRestorable` | `Spec => []SnapshotsRestorable` | `CoveredUse` |
| `ImplementsStore` | `Spec => StoreSpec` | `CoveredUse` |
| `AlwaysKeepsMinSnaps` | `Spec => KeepsMinSnaps` | `prune` is not among the commands |
| `CompactAlwaysReclaims` | `Spec => []CompactReclaims` | a single process |
| `RefsAlwaysExact` | `Spec => []RefsExact` | `ExactUse` |

`CoveredUse` is what section 3's departures leave: full backups, prune, auto-prune and
compact; and if several processes run, only full backups (which prune automatically)
and auto-prune. Without it the statements are false, as the violating runs show.
`ExactUse` is for runs without faults: full and system backups, prune, auto-prune and
compact; and if several processes run, only the backups and auto-prune. The counts of
`ParityChunks` are outside the statement, whatever they are.

`TypeOK` is inductive. Its proof has one lemma per group of operators (index,
snapshots, trees, packs) and one per command.

`IndexSound` alone is not inductive: saving the index is sound only if the
in-memory entries are, flushing only if ids are fresh, compaction's deletes only
if the new index avoids the old packs. `HandlesConsistent` adds these facts:

- `LockHeld`: a process between its open and its close holds the lock. So at most
  one process is in such a state.
- `HandleSound(p)`: each entry in memory is in the pack it names, or its chunk
  is in the buffer; when an index is about to be saved the buffer is empty.
- `FreshIds(p)`: the next pack id is above every pack on disk.
- `CompactSound(p)`: while copying, each live chunk of an old pack is still to be
  copied or is in a new pack; after the index is saved no entry names an old pack.

The proof of the step splits by locality. A process that does not hold the lock
leaves the disk as it is (`DiskNeedsLock`), a step changes only its own process's
variables (`StepIsLocal`), so the facts about all other processes carry over
(`OthersKeep`), and what remains is one lemma per command about the process that
moves. `PacksWriteOnce` follows from `FreshIds`: a pack is written only under the
next id, and otherwise packs only disappear.

`CommandsAlwaysAdvance` has one lemma per command (`PruneAdvances`, `BackupAdvances`,
`CompactAdvances`), each a look at where a step leaves `pc`, which element it takes
from its list, or how many parity chunks are still due, and one that a step leaves the lists of the others alone (`WorkIsLocal`).
`WorkAlwaysFinite` rests on `Finite`: packs are added one at a time, and the chunks that
finitely many snapshots of finitely many files refer to are finitely many
(`ReferencedFinite`). Together they say that a command takes finitely many steps,
whatever the other processes do meanwhile. What they leave of `CommandsEnd` is that a
command in the middle always has a step to take, which is a matter of `ENABLED` and
left to TLC.

`RefsCover` is strengthened to `RefsInv` (`BackupShieldRestorable`): for each process,
`RefsKnown(p)` says what the counts in memory are worth. While a backup builds, they
cover the snapshots on disk and the tree built so far; while a prune deletes, they
cover the snapshots still on disk, and the snapshots to delete are those that were
listed; a live set contains every chunk that is referred to. A count of references is
the size of the set of holders (snapshot, file), so the counting lemmas (`DeleteCount`,
`SaveCount`, `PutUses`) are about cardinalities of finite sets: deleting a snapshot takes
away exactly its uses, saving one adds the uses of its tree, and putting a chunk in a
tree adds one. Parity only adds to a count (`ParityRefs`). `OthersKnow` is the locality of this invariant. `SnapshotsRestorable`
follows with `IndexSound`: a chunk with a holder has a count above zero, hence an entry,
hence a pack. `ImplementsStore` maps each step: only the end of a backup and a
prune's deletion change `snaps`, and a restored tree is the saved one before and
after every step because both states are restorable.

`AlwaysKeepsMinSnaps` rests on `KeepInv`: some `MinSnaps` snapshots are newer than
everything on any process's list, so no list names them, however old it is
(`ListSpares`). `CompactAlwaysReclaims` rests on `ReclaimInv`: an index written by a
compaction names live chunks only and, when the old packs are gone, the packs left are
the ones it wrote.

`RefsAlwaysExact` rests on `ExactInv`, which has equalities where `RefsInv` has bounds.
Between two changes of the snapshots and of the index (`Changing`) the saved counts are
exact; while a backup builds, those in memory are the references of the snapshots and of
its tree, chunk by chunk; while a prune deletes, those of the snapshots still there. It
needs what covering does not: a file is put into a tree once, so that one more use
is one more reference (`PutUsesNew`), and a deletion's decrements never meet zero before
their end, so the saturating subtraction subtracts and the entry goes exactly when its
last reference does (`DeleteOneCounts`). Storing a parity chunk touches no other chunk's
entry but to relocate it (`ParityExact`, `ParityCounts`). Two changes do not overlap, because both hold
the lock (`OthersCount`).

**Watch mode** (`WatchAssumption`: any `Files`, `Dirs`, `DirOf`, `Versions`, `Faults`,
bounds): `WatchTypes`, `PathsAlwaysRemembered`, `TakenAlwaysCaptured`, `FullBackupAlwaysTracked`.
They follow from `WatchInv`: besides `TypeOK`, `PathsRemembered` and `TakenCaptured` it says
that two backups do not have the repository open at once (`OneInside`), that the state file
and the daemon's running backup have the paths the loop copied, unless that was disturbed
(`SentSaved`), and what a half-built tree is worth. In a full backup (`FullTracked`), a file already
read is in the tree as it is now, or the watcher knows it. In an incremental one
(`BuildRight`), an unchanged file of `taken` exists and is still to be read, or was
read and is right; without this the saved snapshot's being right could not be
carried over the loop.

**Encoding** (`EncodingAssumption`): `KeysAlwaysKept`, `AlwaysRestorableUnderOneSetting`,
`NeverSilentGarbage`, from `EncInv`: a running backup encrypts with the saved key or not
at all (`KeyOK`), init makes a key only while nothing is stored (`FreshOK`), a chunk's
content is the file's at the time of its snapshot (`ContentsOK`), an opening command names
a snapshot that exists and a setting there has been (`AllOpeningOK`), a restore has the saved
key exactly if it loaded "on" (`ReadingKey`), a backup stores as the setting says unless it
is at odds with it (`AtOddsOnly`), and the key of every chunk agrees with the
setting as long as the history permits (`OneSetting`, `Announced`). Commands that only open
change nothing of this (`OpeningKept`), and a step that at most makes the
first key leaves the setting's key what it is (`KeyStays`).

**Maintenance** (`MaintenanceAssumption`: any chunks, sizes of groups, inputs, singular
choices of shards and bounds). `RepairAlwaysHarmless` and `WritersAlwaysHarmless` are
action properties, from `MaintenanceInv`: packs get new numbers (`StoreOK`), a repair that
writes has the index as it is on disk (`LockOK`), a backup's index extends the saved one
(`BackupOK`), and while the disk loses nothing a compaction's index finds every live chunk
the saved one finds, outside the packs to be deleted (`CompactOK`). The four invariants
about reports rest on three more:

- `SoundInv`: every entry of the index finds its chunk in a pack, readable or rotten, or
  names a pack the disk lost, and so does the index a backup or compaction is about to
  save; packs a compaction deletes are needed by no entry. It gives `AlarmAlwaysJustified`.
- `VerdictInv`: a check nothing has disturbed has the index as it is on disk; with
  `SoundInv` it gives `VerdictAlwaysSound`.
- `RepairInv`: every saved group has its full size (`GroupsOK`); a bad chunk whose group
  has been passed is readable again, about to be written, or its group had lost too
  much; and what is repaired and what can still be (`Ahead`) together are no more than
  the bad chunks. A bad chunk has one first group (`OneFirstGroup`), and a group that
  has lost no more than its parity has enough left (`EnoughLeft`). It gives
  `RepairAlwaysComplete` and `RepairedAlwaysCounted`.

**Restore** (`RestoreAssumption`: any snapshots, target directories, options, failures).
`RestoreInv` gives `AlwaysRestoredOrReported`, `UserFilesAlwaysKept` and
`NeverPartialFiles`. Beside those three it says that every link is one that `Leads` knows
(so a path that is written through a link is one the properties name), and what is so
while a file is being written (`WriteOK`): its own path may be changed, and its temporary
name leads to a file. `StepAt` says what a step may do to one path; each action is shown
to be such a step (`RestoreDirKeeps` ... `LinkKeeps`), and `StepKeeps` that such a step
keeps the invariant. `CleanRestoreAlwaysExact` rests on `CleanInv`: a restore that nothing
hinders has reported nothing and the target holds exactly the nodes that were passed, and
the temporary file of the one that is being written (`TreeSoFar`).

**Schedules** (`SchedulesAssumption`): `AlwaysScheduledRuns`, `AlwaysUnscheduledStops`, from
`SchedulesInv`: what each step of either command has already achieved, frequency by
frequency.

**APFS snapshots** (`ApfsAssumption`: any number of processes): `AlwaysOwnSnapshotRead`
and `AlwaysSnapshotsReleased`, from `ApfsInv`. `Guarded(p)` is what a process knows of its
guard: no other process has its snapshot, its mount point is the second it was mounted
in, and as long as no other guard took that second, its own snapshot is all that is
mounted there.

**Chunker** (`ChunkerAssumption`: any sizes, table, width and files). `ChunksAlwaysSized`,
from `ChunkerInv`: what is read since the last cut is below `max_size`. `HashAlwaysOfWindow`,
from `HashInv`: each slot of the circular window holds the byte of its age, and the hash
is the exclusive or of the bytes of the window, rotated by their age, and of the zero
bytes they displaced. An exclusive or of many words is, bit by bit, the parity of how many
have the bit, so the lemmas are about cardinalities (`XorMore`, `XorEnter`); the byte that
leaves was rotated once more than the window is wide. `CutsAlwaysMeetAgain`, from
`CutsInv`: whether a byte ends a chunk is decided by the cut before it and the bytes
between (`CutLaw`). Were two versions cut differently after a cut they share, the first
place at which they differ (`LeastOf`) would have the same cut before it and the same
bytes in between, so the law would decide both alike (`CutAlike`).

**Retention** (`RetentionAssumption`: any calendar, policies and snapshots).
`AlwaysNewestOfPeriodsKept` and `AlwaysNothingElseKept`, from `RetentionInv`: each count is
the number of snapshots of its key the walk has passed, cut off at what is to be kept
(`Counts`), and the snapshots kept so far are those that fewer newer ones of their day,
week or month precede than are asked for (`AskedFor`).

**The erasure code** (`ReedSolomonAssumption`: any numbers of shards up to 256, any
data, any losses; and `FieldAssumption`, which has no parameter and which TLC
evaluates). `FieldAssumption` says only that the tables hold the powers of alpha, each
twice the one before, and their logarithms. From it the lemmas derive the field:
products associate and have inverses because logarithms add modulo 255; doubling
distributes over sums, and so does every product, by induction on the logarithm
(`MulAdds`). The induction is over a set of numbers (`AllNumbers`), as operators cannot be
passed to a theorem. Sums of many bytes are, bit by bit, parities again (`SumMore`).
`FieldAlwaysSound` compares the tables with products of polynomials. `RecoveredAlwaysExact`
rests on `ErasureInv`: a row of the augmented matrix [A | B] is an equation between the data
`x` and the shards `y` that are used, `A x = B y` (`RowHolds`); it holds of the first
matrix because a shard is its row of the encoding matrix times the data, swapping,
scaling and clearing keep it (`SwapSound`, `ScaleSound`, `ClearSound`), and the columns
that that are done are those of the identity (`Eliminated`). After the last column the
equations are `x = B y`.

When it refuses is the subject of four more theorems. `RefusesOnlyAmbiguous`: when fewer
than `DataShards` shards are left, or when another data word has the very same bytes in
every shard that is used; so the elimination never misses a pivot. It rests on
`KernelInv`: the words that all rows of A map to zero are no more than at the start
(`SwapKernel`, `ScaleKernel`, `ClearKernel`), and a column without a pivot gives such a
word that is not zero (`StuckKernel`).

A refusal is therefore about the rows of the encoding matrix that are used: those of the
data shards that are left, and the first parity rows that are left. A word they map to
zero is zero outside the lost data shards, and if the parity rows are equally spaced, one
or two apart, they are on the lost ones a Vandermonde matrix of distinct nodes: distinct
powers of alpha, or their squares, as squaring is injective (`NodesDiffer`,
`ProgressionDetermines`). So nothing but zero is mapped to zero. That a Vandermonde
matrix has no kernel (`VandermondeKernel`) is shown without determinants, by clearing one
node at a time. With no parity shard lost, the rows used are the first ones, next to each
other; with three losses at most, one parity row at most is missing between two used
ones. Hence `DataLossAlwaysRecoverable` and `FewLostAlwaysRecoverable`, for any numbers of
shards; and `MaxLossAlwaysRecoverable`, the property itself, for up to three parity
shards. `default_shards` shows that three is as far as it goes: with three data shards and
the third parity shard lost, the first, second and fourth parity rows are used, which are
not equally spaced, and the matrix has no inverse.

**Only model-checked**: `CommandsEnd`, as liveness and `ENABLED` are outside the prover.
Every other property of a passing run is stated by a theorem.

## 5. What is not modelled, and what is left

Not modelled on purpose:

- the byte layout of packs and JSON files, and the padding of shards to one length;
- zstd, AES-GCM and Argon2, which are what their calls promise;
- the storage backends (`crates/storage`): no command uses them, three are stubs;
- `FileIndex` (`index.rs`), which no command uses;
- VSS (`vss.rs`): a stub outside Windows, and on Windows what `ApfsSnapshot` is on macOS;
- Windows attributes, the system manifest and recovery media (`system.rs`,
  `windows_attrs.rs`): platform calls that share no state with the repository;
- the two numbers the `config` command sets, which are constants here (that it saves the
  rest of the configuration as it loaded it is in `Encoding`); the GUI, the web front
  end and the scripts, which start the command-line tool; progress and reports;
- a power failure that loses what was written without a sync (section 1).

Known to be hard and not covered by a property:

- in watch mode, a source given as a relative path or through a link, which canonical
  paths never match (`main.rs:1452`); nested directories (`watcher.rs:243`); a second daemon,
  or a second backup by hand, on the same state file;
- two sources in one repository: an incremental backup starts from the newest snapshot
  of either (`main.rs:1364`), and a schedule backs up the first of several (`main.rs:759`);
- `restore-version` with versions of different snapshots (`main.rs:2709`, `main.rs:2732`), and
  the reuse of files by their bare name (`main.rs:3844`);
- two inits of one directory (`repository.rs:221`);
- an unreadable snapshot file, which a listing leaves out (`snapshot.rs:484`), so that a
  compaction takes its chunks for dead; a damaged chunk that a new backup takes for
  stored (`repository.rs:318`).

Left to do, in this order: nested directories and the second daemon in `WatchDaemon`;
unreadable snapshot files in `Maintenance`; initialisation as a race.
