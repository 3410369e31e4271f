------------------------------- MODULE WatchDaemon -------------------------------
(***************************************************************************)
(* Watch mode (backup --watch) and the incremental backups it runs.        *)
(*                                                                         *)
(* The operating system reports each change of the source as an event; the *)
(* watcher's thread moves events into a set of changed paths, which the    *)
(* daemon's loop copies, saves to a state file, backs up, and clears.  The *)
(* state file is written in place.  The same incremental backup may be run *)
(* by hand from the state file (backup --incremental), while no daemon     *)
(* runs or beside one: the two share the file and the repository, whose    *)
(* lock is held from open to the end, not while the paths are loaded and   *)
(* the newest snapshot is listed.                                          *)
(*                                                                         *)
(* Abstractions: the repository is its newest snapshot (what a snapshot    *)
(* holds is the business of module BackupShield), and the newest snapshot  *)
(* is one of this source.  Directories are not nested, a tree is the       *)
(* versions of its files, and directory nodes without files are left out.  *)
(* The events of a change arrive with the change.  Files that exist can be *)
(* read, a changed file has another size or time, names are valid UTF-8,   *)
(* and excluded ones are left out.  There is one daemon, and one backup by *)
(* hand at a time.                                                         *)
(***************************************************************************)
EXTENDS Naturals

CONSTANTS
  Files,      \* the files of the source, present or not
  Dirs,       \* its directories
  Source,     \* the source's root
  DirOf,      \* the directory of a file, or Source
  Versions,   \* contents of a file
  Absent,     \* the version of a file that does not exist
  Faults,     \* a subset of {"crash", "error"}
  MaxEdits,   \* bound: how many changes users make
  MaxStarts   \* bound: how many times a daemon or a backup by hand is started

ASSUME WatchAssumption ==
  /\ Source \notin Dirs
  /\ Files \cap (Dirs \cup {Source}) = {}
  /\ DirOf \in [Files -> Dirs \cup {Source}]
  /\ Absent \notin Versions
  /\ Faults \subseteq {"crash", "error"}
  /\ MaxEdits \in Nat /\ MaxStarts \in Nat

VARIABLES
  disk,       \* the source: file -> version
  dirs,       \* the source: the directories that exist
  edits,      \* how many changes users have made
  watching,   \* whether a daemon's watcher exists
  events,     \* events the watcher's thread has not taken from its channel
  changed,    \* the watcher's set of changed paths
  sent,       \* the paths the daemon's loop copied for the backup it runs
  state,      \* the paths in the state file; {} when there is none or it is torn
  torn,       \* whether the state file is cut short, and cannot be parsed
  snap,       \* the newest snapshot's tree
  pc,         \* where the daemon and the backup by hand are
  taken,      \* the paths a backup loaded
  todo,       \* the paths it still has to look at
  tree,       \* the tree it has built so far
  edited,     \* history: the files changed since a backup opened the repository
  disturbed,  \* history: since the loop copied its paths, their write failed, or
              \* a backup by hand removed them or saved over the daemon's snapshot
  starts      \* how many daemons and backups by hand were started

sourceVars == <<disk, dirs, edits>>
watcherVars == <<watching, events, changed>>
fileVars == <<state, torn>>
backupVars == <<pc, taken, todo, tree>>
recordVars == <<edited, disturbed>>
vars == <<sourceVars, watcherVars, sent, fileVars, snap, backupVars, recordVars, starts>>

Actors == {"daemon", "hand"}

Paths == Files \cup Dirs
Trees == [Files -> Versions \cup {Absent}]
NoFiles == [f \in Files |-> Absent]

FilesIn(d) == {f \in Files : DirOf[f] = d}
Without(t, S) == [f \in Files |-> IF f \in S \/ DirOf[f] \in S THEN Absent ELSE t[f]]

\* Who has the repository open.
Inside(p) == pc[p] \in {"full", "build", "saved"}
Unlocked == \A p \in Actors : ~Inside(p)

Goto(p, label) == pc' = [pc EXCEPT ![p] = label]

Init ==
  /\ disk \in Trees
  /\ dirs = Dirs
  /\ edits = 0
  /\ watching = FALSE
  /\ events = {} /\ changed = {} /\ sent = {}
  /\ state = {} /\ torn = FALSE
  /\ snap = NoFiles
  /\ pc = [p \in Actors |-> "off"]
  /\ taken = [p \in Actors |-> {}]
  /\ todo = [p \in Actors |-> {}]
  /\ tree = [p \in Actors |-> NoFiles]
  /\ edited = [p \in Actors |-> {}]
  /\ disturbed = FALSE
  /\ starts = 0

-----------------------------------------------------------------------------
\* The source changes, and the operating system tells the watcher.

Edit(S, paths) ==
  /\ edits < MaxEdits
  /\ edits' = edits + 1
  /\ edited' = [p \in Actors |->
                  IF pc[p] \in {"build", "saved", "clear"} THEN edited[p] \cup S ELSE edited[p]]
  /\ events' = IF watching THEN events \cup paths ELSE events
  /\ UNCHANGED <<watching, changed, sent, fileVars, snap, backupVars, disturbed, starts>>

WriteFile(f, v) ==
  /\ DirOf[f] \in dirs \cup {Source}
  /\ disk[f] # v
  /\ disk' = [disk EXCEPT ![f] = v]
  /\ Edit({f}, {f})
  /\ UNCHANGED dirs

DeleteFile(f) ==
  /\ disk[f] # Absent
  /\ disk' = [disk EXCEPT ![f] = Absent]
  /\ Edit({f}, {f})
  /\ UNCHANGED dirs

\* A directory is made, or gets other permissions.
TouchDir(d) ==
  /\ dirs' = dirs \cup {d}
  /\ Edit({}, {d})
  /\ UNCHANGED disk

RemoveDir(d) ==
  /\ d \in dirs
  /\ dirs' = dirs \ {d}
  /\ disk' = Without(disk, {d})
  /\ Edit(FilesIn(d), {d} \cup {f \in FilesIn(d) : disk[f] # Absent})

-----------------------------------------------------------------------------
\* The watcher's thread.

Notice(path) ==
  /\ path \in events
  /\ events' = events \ {path}
  /\ changed' = changed \cup {path}
  /\ UNCHANGED <<sourceVars, watching, sent, fileVars, snap, backupVars, recordVars, starts>>

-----------------------------------------------------------------------------
\* The daemon starts: the watcher first, then a full backup.

\* Slip: the watcher starts when the full backup is done.
StartDaemonUnwatched ==
  /\ pc["daemon"] = "off"
  /\ Unlocked
  /\ starts < MaxStarts
  /\ starts' = starts + 1
  /\ Goto("daemon", "full")
  /\ todo' = [todo EXCEPT !["daemon"] = Files]
  /\ UNCHANGED <<sourceVars, watcherVars, sent, fileVars, snap, taken, tree, recordVars>>

\* A daemon whose full backup finds the repository locked ends at once.
StartDaemon ==
  /\ pc["daemon"] = "off"
  /\ Unlocked
  /\ starts < MaxStarts
  /\ starts' = starts + 1
  /\ watching' = TRUE
  /\ Goto("daemon", "full")
  /\ todo' = [todo EXCEPT !["daemon"] = Files]
  /\ UNCHANGED <<sourceVars, events, changed, sent, fileVars, snap, taken, tree, recordVars>>

\* A file is stored as it is when its turn comes; one that has gone, or was not
\* there when its directory was listed, is not in the tree.
ReadFile(f) ==
  /\ pc["daemon"] = "full"
  /\ f \in todo["daemon"]
  /\ todo' = [todo EXCEPT !["daemon"] = @ \ {f}]
  /\ tree' = [tree EXCEPT !["daemon"][f] = disk[f]]
  /\ UNCHANGED <<sourceVars, watcherVars, sent, fileVars, snap, pc, taken, recordVars, starts>>

SaveFull ==
  /\ pc["daemon"] = "full"
  /\ todo["daemon"] = {}
  /\ snap' = tree["daemon"]
  /\ tree' = [tree EXCEPT !["daemon"] = NoFiles]
  /\ Goto("daemon", "watch")
  /\ UNCHANGED <<sourceVars, watcherVars, sent, fileVars, taken, todo, recordVars, starts>>

\* What a backup has in memory is gone when it ends.
Forget(p) ==
  /\ taken' = [taken EXCEPT ![p] = {}]
  /\ todo' = [todo EXCEPT ![p] = {}]
  /\ tree' = [tree EXCEPT ![p] = NoFiles]

\* The daemon is stopped, or dies, or its full backup fails: the watcher and
\* everything in memory are gone, the state file stays as it is.
StopDaemon ==
  /\ pc["daemon"] # "off"
  /\ "crash" \in Faults
  /\ watching' = FALSE /\ events' = {} /\ changed' = {} /\ sent' = {}
  /\ Goto("daemon", "off")
  /\ Forget("daemon")
  /\ edited' = [edited EXCEPT !["daemon"] = {}]
  /\ disturbed' = FALSE
  /\ UNCHANGED <<sourceVars, fileVars, snap, starts>>

StopByHand ==
  /\ pc["hand"] # "off"
  /\ "crash" \in Faults
  /\ Goto("hand", "off")
  /\ Forget("hand")
  /\ edited' = [edited EXCEPT !["hand"] = {}]
  /\ UNCHANGED <<sourceVars, watcherVars, sent, fileVars, snap, disturbed, starts>>

-----------------------------------------------------------------------------
\* The daemon's loop: it copies the changed paths, saves them, and has an
\* incremental backup load them again.

\* Enough changes, or enough time.
Trigger ==
  /\ pc["daemon"] = "watch"
  /\ changed # {}
  /\ sent' = changed
  /\ disturbed' = FALSE
  /\ Goto("daemon", "write")
  /\ UNCHANGED <<sourceVars, watcherVars, fileVars, snap, taken, todo, tree, edited, starts>>

\* fs::write makes the file empty, or creates it,
SaveBegins ==
  /\ pc["daemon"] = "write"
  /\ state' = {} /\ torn' = TRUE
  /\ Goto("daemon", "writing")
  /\ UNCHANGED <<sourceVars, watcherVars, sent, snap, taken, todo, tree, recordVars, starts>>

\* and then writes to it, wherever it is: a file removed meanwhile stays away.
SaveEnds ==
  /\ pc["daemon"] = "writing"
  /\ state' = IF torn THEN sent ELSE state
  /\ torn' = FALSE
  /\ Goto("daemon", "load")
  /\ UNCHANGED <<sourceVars, watcherVars, sent, snap, taken, todo, tree, recordVars, starts>>

\* The file cannot be opened, or not be written to its end: it stays torn.  The
\* loop logs the error and clears the paths all the same.
SaveFails ==
  /\ "error" \in Faults
  /\ pc["daemon"] \in {"write", "writing"}
  /\ disturbed' = TRUE
  /\ Goto("daemon", "clear")
  /\ UNCHANGED <<sourceVars, watcherVars, sent, fileVars, snap, taken, todo, tree, edited, starts>>

\* After a backup, failed or not, the daemon's loop clears the changed paths.
Finished(p) ==
  /\ Goto(p, IF p = "daemon" THEN "clear" ELSE "off")
  /\ Forget(p)
  /\ edited' = IF p = "daemon" THEN edited ELSE [edited EXCEPT ![p] = {}]

\* Without a state file there is nothing to do.
Load ==
  /\ pc["daemon"] = "load"
  /\ \/ state = {} /\ Finished("daemon")
     \/ /\ state # {}
        /\ taken' = [taken EXCEPT !["daemon"] = state]
        /\ Goto("daemon", "list")
        /\ UNCHANGED <<todo, tree, edited>>
  /\ UNCHANGED <<sourceVars, watcherVars, sent, fileVars, snap, disturbed, starts>>

Clear ==
  /\ pc["daemon"] = "clear"
  /\ changed' = {}
  /\ sent' = {}
  /\ edited' = [edited EXCEPT !["daemon"] = {}]
  /\ disturbed' = FALSE
  /\ Goto("daemon", "watch")
  /\ UNCHANGED <<sourceVars, watching, events, fileVars, snap, taken, todo, tree, starts>>

\* backup --incremental: the paths are those the state file holds.  A torn file
\* is an error, and without one there is nothing to do.
StartByHand ==
  /\ pc["hand"] = "off"
  /\ state # {}
  /\ starts < MaxStarts
  /\ starts' = starts + 1
  /\ taken' = [taken EXCEPT !["hand"] = state]
  /\ Goto("hand", "list")
  /\ UNCHANGED <<sourceVars, watcherVars, sent, fileVars, snap, todo, tree, recordVars>>

-----------------------------------------------------------------------------
\* An incremental backup, of the daemon or by hand.

\* The newest snapshot is read before the repository is opened.
ListNewest(p) ==
  /\ pc[p] = "list"
  /\ tree' = [tree EXCEPT ![p] = snap]
  /\ Goto(p, "open")
  /\ UNCHANGED <<sourceVars, watcherVars, sent, fileVars, snap, taken, todo, recordVars, starts>>

\* Another backup holds the lock.
OpenFails(p) ==
  /\ pc[p] = "open"
  /\ ~Unlocked
  /\ Finished(p)
  /\ UNCHANGED <<sourceVars, watcherVars, sent, fileVars, snap, disturbed, starts>>

\* The snapshots cannot be listed, the repository not opened (another command
\* holds its lock), the snapshot not be saved, or the state file not removed.
BackupFails(p) ==
  /\ "error" \in Faults
  /\ \/ pc[p] \in {"load", "list", "open", "saved"}
     \/ pc[p] = "build" /\ todo[p] = {}
  /\ Finished(p)
  /\ UNCHANGED <<sourceVars, watcherVars, sent, fileVars, snap, disturbed, starts>>

Present(path) == IF path \in Dirs THEN path \in dirs ELSE disk[path] # Absent

\* The repository is open.  The paths are divided into those that exist and those
\* that do not; the latter leave the tree at once.
Classify(p) ==
  /\ pc[p] = "open"
  /\ Unlocked
  /\ todo' = [todo EXCEPT ![p] = {path \in taken[p] : Present(path)}]
  /\ edited' = [edited EXCEPT ![p] = {}]
  /\ Goto(p, "build")
  /\ UNCHANGED <<sourceVars, watcherVars, sent, snap, taken, disturbed, starts>>

Gone(p) == {path \in taken[p] : ~Present(path)}

\* Slip: deleted files are not taken out of the tree.
OpenKeepingDeleted(p) ==
  /\ Classify(p)
  /\ UNCHANGED <<tree, fileVars>>

\* Slip: the state file is removed as soon as the repository is open.
OpenRemovingState(p) ==
  /\ Classify(p)
  /\ tree' = [tree EXCEPT ![p] = Without(@, Gone(p))]
  /\ state' = {} /\ torn' = FALSE

Open(p) ==
  /\ Classify(p)
  /\ tree' = [tree EXCEPT ![p] = Without(@, Gone(p))]
  /\ UNCHANGED fileVars

\* A path that has gone in the meantime is skipped with a warning.  A file is
\* stored as it is now.  A directory becomes a node without children, which
\* takes the place of the one the tree has.
Process(p, path) ==
  /\ pc[p] = "build"
  /\ path \in todo[p]
  /\ todo' = [todo EXCEPT ![p] = @ \ {path}]
  /\ \/ ~Present(path) /\ tree' = tree
     \/ Present(path) /\ path \in Files /\ tree' = [tree EXCEPT ![p][path] = disk[path]]
     \/ Present(path) /\ path \in Dirs /\ tree' = [tree EXCEPT ![p] = Without(@, {path})]
  /\ UNCHANGED <<sourceVars, watcherVars, sent, fileVars, snap, pc, taken, recordVars, starts>>

\* A backup by hand may save over the snapshot the daemon has just saved.
SaveSnapshot(p) ==
  /\ pc[p] = "build"
  /\ todo[p] = {}
  /\ snap' = tree[p]
  /\ disturbed' = (disturbed \/ (p = "hand" /\ pc["daemon"] = "clear"))
  /\ Goto(p, "saved")
  /\ UNCHANGED <<sourceVars, watcherVars, sent, fileVars, taken, todo, tree, edited, starts>>

\* The state file is removed, whoever wrote it.
RemoveState(p) ==
  /\ pc[p] = "saved"
  /\ state' = {} /\ torn' = FALSE
  /\ disturbed' = (disturbed \/ (p = "hand" /\ pc["daemon"] \notin {"off", "full", "watch", "write"}))
  /\ Finished(p)
  /\ UNCHANGED <<sourceVars, watcherVars, sent, snap, starts>>

-----------------------------------------------------------------------------

Users ==
  \/ \E f \in Files : DeleteFile(f) \/ \E v \in Versions : WriteFile(f, v)
  \/ \E d \in Dirs : TouchDir(d) \/ RemoveDir(d)

Daemon ==
  \/ StartDaemon
  \/ \E f \in Files : ReadFile(f)
  \/ SaveFull
  \/ Trigger
  \/ SaveBegins
  \/ SaveEnds
  \/ SaveFails
  \/ Load
  \/ Clear
  \/ StopDaemon

Incremental(p) ==
  \/ ListNewest(p)
  \/ OpenFails(p)
  \/ BackupFails(p)
  \/ Open(p)
  \/ \E path \in Paths : Process(p, path)
  \/ SaveSnapshot(p)
  \/ RemoveState(p)

Next ==
  \/ Users
  \/ \E path \in Paths : Notice(path)
  \/ Daemon
  \/ StartByHand
  \/ StopByHand
  \/ \E p \in Actors : Incremental(p)

Spec == Init /\ [][Next]_vars

-----------------------------------------------------------------------------
\* Properties.

\* Types of all state.
TypeOK ==
  /\ disk \in Trees /\ snap \in Trees /\ tree \in [Actors -> Trees]
  /\ dirs \subseteq Dirs
  /\ watching \in BOOLEAN
  /\ events \subseteq Paths /\ changed \subseteq Paths /\ sent \subseteq Paths
  /\ state \subseteq Paths /\ torn \in BOOLEAN
  /\ taken \in [Actors -> SUBSET Paths] /\ todo \in [Actors -> SUBSET Paths]
  /\ edited \in [Actors -> SUBSET Files] /\ disturbed \in BOOLEAN
  /\ pc \in [Actors -> {"off", "full", "watch", "write", "writing", "load", "list", "open",
                        "build", "saved", "clear"}]
  /\ pc["hand"] \in {"off", "list", "open", "build", "saved"}
  /\ edits \in 0 .. MaxEdits /\ starts \in 0 .. MaxStarts
  /\ watching <=> pc["daemon"] # "off"
  /\ ~watching => events = {} /\ changed = {} /\ sent = {}

\* Every difference between the newest snapshot and the source is known to the
\* watcher, or on its way to it.
Tracked == \A f \in Files : snap[f] = disk[f] \/ f \in events \cup changed

\* The full backup a daemon starts with reads the files one after the other
\* while users change them: what it misses, the watcher has seen.
FullBackupTracked ==
  [][pc["daemon"] = "full" /\ pc'["daemon"] = "watch" => Tracked']_vars

\* A snapshot has the source's version of a file, but for what changed after the
\* backup opened the repository, or is in a directory that is itself among the
\* changed paths.
Captured(p, f, paths) ==
  \/ snap[f] = disk[f]
  \/ f \in edited[p]
  \/ DirOf[f] \in paths

\* From the time its paths are in the state file until the daemon has cleared
\* them, errors and all, each of them is still in the file or its file is in the
\* newest snapshot: a daemon that stops there leaves what a backup by hand needs
\* to make it up, and one that goes on may clear them.  Not so if their write
\* failed, for the file is written in place and the paths are cleared all the
\* same, nor if a backup by hand has removed the file beside the daemon.
PathsRemembered ==
  pc["daemon"] \in {"load", "list", "open", "build", "saved", "clear"} /\ ~disturbed =>
    \A f \in sent \cap Files : (f \in state /\ ~torn) \/ Captured("daemon", f, sent)

\* An incremental backup's snapshot captures every file it was started for,
\* although it starts from a snapshot that may no longer be the newest.
TakenCaptured ==
  \A p \in Actors : pc[p] = "saved" =>
    \A f \in taken[p] \cap Files : Captured(p, f, taken[p])

\* "Watch for file system changes and perform automatic incremental backups":
\* a daemon that is back in its loop has no change it will never back up.
ChangesKept == watching /\ pc["daemon"] = "watch" => Tracked

=============================================================================
