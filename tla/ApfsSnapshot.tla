------------------------------ MODULE ApfsSnapshot ------------------------------
(***************************************************************************)
(* backup --apfs-snapshot: a file system snapshot is made and mounted, the *)
(* backup reads the source in it, and a guard unmounts and deletes it      *)
(* whichever way the backup ends.                                          *)
(*                                                                         *)
(* Abstractions: time is counted in seconds, which name the mount points;  *)
(* a snapshot's name is a number of its own; tmutil, diskutil and          *)
(* mount_apfs succeed or fail as they like, except that a snapshot that is *)
(* mounted is not deleted; a later mount on a mount point hides an earlier *)
(* one, and unmounting takes the latest.                                   *)
(***************************************************************************)
EXTENDS Naturals, Sequences, FiniteSets

CONSTANTS
  Backers,          \* the processes that back up from snapshots
  SourceKinds,      \* how sources are written, a subset of SourceKind below
  ApfsFaults,       \* a subset of {"crash", "tool"}
  MaxApfsSnapshots, \* bound: how many snapshots are made
  MaxSeconds        \* bound on the clock

\* A source as it is typed: "canonical" on the root volume or another one,
\* relative to the working directory, or with a link in it.
SourceKind == [written : {"canonical", "relative", "link"}, root : BOOLEAN]

ASSUME ApfsAssumption ==
  /\ SourceKinds \subseteq SourceKind
  /\ ApfsFaults \subseteq {"crash", "tool"}
  /\ MaxApfsSnapshots \in Nat /\ MaxSeconds \in Nat \ {0}

VARIABLES
  apfsSnapshots,   \* the snapshots of the volumes
  apfsMade,        \* how many have been made
  mounts,          \* mount point -> the snapshots mounted there, the latest last
  seconds,         \* the clock
  apPc,            \* process -> where it is
  apSource,        \* process -> its source
  snapshot_name,   \* process -> the guard's snapshot
  mount_point,     \* process -> the guard's mount point
  apTaken,         \* history: snapshot -> the second its mount point was taken in
  apExcused        \* history: snapshots whose maker crashed or was failed by a tool

apfsVars == <<apfsSnapshots, apfsMade, mounts, seconds, apPc, apSource, snapshot_name,
              mount_point, apTaken, apExcused>>

Never == 0

ApfsInit ==
  /\ apfsSnapshots = {} /\ apfsMade = 0
  /\ mounts = [t \in 0..MaxSeconds |-> <<>>]
  /\ seconds = 1
  /\ apPc = [p \in Backers |-> "idle"]
  /\ apSource = [p \in Backers |-> [written |-> "canonical", root |-> TRUE]]
  /\ snapshot_name = [p \in Backers |-> Never]
  /\ mount_point = [p \in Backers |-> Never]
  /\ apTaken = [n \in 1..MaxApfsSnapshots |-> Never]
  /\ apExcused = {}

ApfsGoto(p, step) == apPc' = [apPc EXCEPT ![p] = step]

Tick ==
  /\ seconds < MaxSeconds
  /\ seconds' = seconds + 1
  /\ UNCHANGED <<apfsSnapshots, apfsMade, mounts, apPc, apSource, snapshot_name, mount_point,
                 apTaken, apExcused>>

ToolFails == "tool" \in ApfsFaults

-----------------------------------------------------------------------------
\* ApfsSnapshotGuard::new

CreateSnapshot(p) ==
  /\ apPc[p] = "idle" /\ apfsMade < MaxApfsSnapshots
  /\ apfsMade' = apfsMade + 1
  /\ apfsSnapshots' = apfsSnapshots \cup {apfsMade'}
  /\ snapshot_name' = [snapshot_name EXCEPT ![p] = apfsMade']
  /\ \E s \in SourceKinds : apSource' = [apSource EXCEPT ![p] = s]
  /\ ApfsGoto(p, "mount")
  /\ UNCHANGED <<mounts, seconds, mount_point, apTaken, apExcused>>

\* Slip: the mount point has no time in its name.
MountPointFixed == Never

MountPoint == seconds

\* The volume of the snapshot is found, and the snapshot is mounted.
MountSnapshot(p) ==
  /\ apPc[p] = "mount"
  /\ snapshot_name[p] \in apfsSnapshots
  /\ mounts' = [mounts EXCEPT ![MountPoint] = Append(@, snapshot_name[p])]
  /\ mount_point' = [mount_point EXCEPT ![p] = MountPoint]
  /\ apTaken' = [apTaken EXCEPT ![snapshot_name[p]] = seconds]
  /\ ApfsGoto(p, "backup")
  /\ UNCHANGED <<apfsSnapshots, apfsMade, seconds, apSource, snapshot_name, apExcused>>

\* There is no guard yet: the snapshot stays.
MountFails(p) ==
  /\ apPc[p] = "mount" /\ ToolFails
  /\ apExcused' = apExcused \cup {snapshot_name[p]}
  /\ ApfsGoto(p, "idle")
  /\ UNCHANGED <<apfsSnapshots, apfsMade, mounts, seconds, apSource, snapshot_name,
                 mount_point, apTaken>>

-----------------------------------------------------------------------------
\* run_backup_with_apfs_snapshot

\* Where the backup reads: rebase_path_to_snapshot compares the source as it is
\* typed with the canonical volume.
Rebased(source) ==
  CASE source.written = "canonical" -> "snapshot"
    [] source.written = "relative" /\ source.root -> "elsewhere"
    [] OTHER -> "live"

\* The snapshot that is seen at a mount point.
SeenAt(t) == IF mounts[t] = <<>> THEN Never ELSE mounts[t][Len(mounts[t])]

ReadFrom(p) ==
  IF Rebased(apSource[p]) = "snapshot" THEN SeenAt(mount_point[p]) ELSE Never

\* Slip: a backup that fails returns before the cleanup, and there is no Drop.
BackupEndsUnguarded(p) ==
  /\ apPc[p] = "backup"
  /\ ApfsGoto(p, "unmount") \/ ApfsGoto(p, "idle")
  /\ UNCHANGED <<apfsSnapshots, apfsMade, mounts, seconds, apSource, snapshot_name,
                 mount_point, apTaken, apExcused>>

\* Well, with an error, or in a panic: the cleanup is done.
BackupEnds(p) ==
  /\ apPc[p] = "backup"
  /\ ApfsGoto(p, "unmount")
  /\ UNCHANGED <<apfsSnapshots, apfsMade, mounts, seconds, apSource, snapshot_name,
                 mount_point, apTaken, apExcused>>

-----------------------------------------------------------------------------
\* cleanup, once for each guard.

\* diskutil unmount; if it fails, that is logged.
Unmount(p) ==
  /\ apPc[p] = "unmount"
  /\ LET stack == mounts[mount_point[p]]
     IN  \/ /\ stack # <<>>
            /\ mounts' = [mounts EXCEPT ![mount_point[p]] = SubSeq(stack, 1, Len(stack) - 1)]
            /\ UNCHANGED apExcused
         \/ /\ stack = <<>> \/ ToolFails
            /\ UNCHANGED mounts
            /\ apExcused' = IF stack = <<>> THEN apExcused ELSE apExcused \cup {snapshot_name[p]}
  /\ ApfsGoto(p, "delete")
  /\ UNCHANGED <<apfsSnapshots, apfsMade, seconds, apSource, snapshot_name, mount_point, apTaken>>

Mounted(name) == \E t \in DOMAIN mounts : \E i \in DOMAIN mounts[t] : mounts[t][i] = name

\* tmutil deletelocalsnapshots; if it fails, that is logged.
DeleteSnapshot(p) ==
  /\ apPc[p] = "delete"
  /\ \/ /\ ~Mounted(snapshot_name[p])
        /\ apfsSnapshots' = apfsSnapshots \ {snapshot_name[p]}
        /\ UNCHANGED apExcused
     \/ /\ Mounted(snapshot_name[p]) /\ UNCHANGED <<apfsSnapshots, apExcused>>
     \/ /\ ToolFails /\ UNCHANGED apfsSnapshots
        /\ apExcused' = apExcused \cup {snapshot_name[p]}
  /\ ApfsGoto(p, "idle")
  /\ UNCHANGED <<apfsMade, mounts, seconds, apSource, snapshot_name, mount_point, apTaken>>

\* A signal: no destructor runs.
CrashBacker(p) ==
  /\ "crash" \in ApfsFaults /\ apPc[p] # "idle"
  /\ apExcused' = apExcused \cup {snapshot_name[p]}
  /\ ApfsGoto(p, "idle")
  /\ UNCHANGED <<apfsSnapshots, apfsMade, mounts, seconds, apSource, snapshot_name,
                 mount_point, apTaken>>

ApfsNext ==
  \/ Tick
  \/ \E p \in Backers :
       \/ CreateSnapshot(p) \/ MountSnapshot(p) \/ MountFails(p)
       \/ BackupEnds(p) \/ Unmount(p) \/ DeleteSnapshot(p) \/ CrashBacker(p)

ApfsSpec == ApfsInit /\ [][ApfsNext]_apfsVars

-----------------------------------------------------------------------------
\* Correctness.

\* Mount points are named by the second: two guards must not take theirs in
\* the same one.
Apart(n) ==
  \A m \in DOMAIN apTaken \ {n} : apTaken[m] = Never \/ apTaken[m] # apTaken[n]

\* A backup reads its own snapshot, whatever other processes mount and
\* unmount meanwhile, if its source is typed as it is stored, and no other
\* guard took its mount point in the same second (ApfsSnapshotGuard,
\* rebase_path_to_snapshot).
OwnSnapshotRead ==
  \A p \in Backers :
    apPc[p] = "backup" /\ apSource[p].written = "canonical" /\ Apart(snapshot_name[p]) =>
      ReadFrom(p) = snapshot_name[p] /\ snapshot_name[p] \in apfsSnapshots

\* A snapshot outlives its backup only if the process was killed, one of the
\* system's tools failed it (a mount that failed, too, leaves the snapshot),
\* or another guard shared its mount point ("ensures that a snapshot is always
\* unmounted and cleaned up").
SnapshotsReleased ==
  \A n \in apfsSnapshots \ apExcused :
    Apart(n) => \E p \in Backers : apPc[p] # "idle" /\ snapshot_name[p] = n

================================================================================
