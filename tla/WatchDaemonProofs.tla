--------------------------- MODULE WatchDaemonProofs ---------------------------
(***************************************************************************)
(* Theorems about watch mode, for any files, directories and versions, and *)
(* any number of changes and starts.                                       *)
(***************************************************************************)
EXTENDS WatchDaemon, TLAPS

\* The repository is open once at a time.
OneInside == \A p, q \in Actors : Inside(p) /\ Inside(q) => p = q

\* The paths a backup still has to look at are among those it was started for.
TodoTaken == \A p \in Actors : pc[p] = "build" => todo[p] \subseteq taken[p]

\* The paths the loop copied are being written to the state file; from the end of
\* their write to the end of their backup they are those of the file, and those
\* the backup loaded; unless they were disturbed.
SentSaved ==
  ~disturbed =>
    /\ pc["daemon"] = "writing" => torn
    /\ pc["daemon"] \in {"load", "list", "open", "build", "saved"} => ~torn /\ state = sent
    /\ pc["daemon"] \in {"list", "open", "build", "saved"} => taken["daemon"] = sent

\* While the full backup runs, a file it has read is in the tree as it is now,
\* or the watcher knows better.
FullTracked ==
  pc["daemon"] = "full" =>
    \A f \in Files \ todo["daemon"] :
      tree["daemon"][f] = disk[f] \/ f \in events \cup changed

\* While an incremental backup runs, an unchanged file it was started for exists
\* if it is still to be read, and is in the tree as it is now if it was.
BuildRight ==
  \A p \in Actors : pc[p] = "build" =>
    \A f \in taken[p] \cap Files :
      \/ f \in edited[p]
      \/ DirOf[f] \in taken[p]
      \/ f \in todo[p] /\ disk[f] # Absent
      \/ f \notin todo[p] /\ tree[p][f] = disk[f]

\* The inductive invariant.
WatchInv ==
  /\ TypeOK
  /\ OneInside
  /\ TodoTaken
  /\ SentSaved
  /\ FullTracked
  /\ BuildRight
  /\ TakenCaptured
  /\ PathsRemembered

-----------------------------------------------------------------------------

\* Taking files out of a tree leaves a tree, and so does taking out all.
LEMMA WithoutTrees ==
  ASSUME NEW t \in Trees, NEW S
  PROVE  Without(t, S) \in Trees
  BY DEF Trees, Without

LEMMA NoFilesTrees == NoFiles \in Trees
  BY DEF Trees, NoFiles

\* Initially no backup runs and nothing is watched.
LEMMA InitWatchInv == Init => WatchInv
<1> SUFFICES ASSUME Init PROVE WatchInv
  OBVIOUS
<1>1. TypeOK
  <2>1. watching = FALSE /\ torn = FALSE /\ disturbed = FALSE
    BY Zenon DEF Init
  <2>2. 0 \in 0 .. MaxEdits /\ 0 \in 0 .. MaxStarts
    BY WatchAssumption
  <2> QED
    BY <2>1, <2>2, NoFilesTrees DEF Init, TypeOK, Actors
<1>2. OneInside /\ TodoTaken /\ SentSaved /\ FullTracked /\ BuildRight /\ TakenCaptured /\ PathsRemembered
  BY DEF Init, OneInside, Inside, TodoTaken, SentSaved, FullTracked, BuildRight, TakenCaptured,
     PathsRemembered, Actors
<1> QED
  BY <1>1, <1>2 DEF WatchInv

\* What users do to the source.
LEMMA UsersWatchInv ==
  ASSUME WatchInv, Users
  PROVE  WatchInv'
<1> USE WatchAssumption DEF WatchInv, backupVars
\* What every change of the source does, whatever the source becomes.
<1>1. ASSUME NEW S \in SUBSET Files, NEW paths \in SUBSET Paths, Edit(S, paths),
             disk' \in Trees, dirs' \subseteq Dirs,
             \A f \in Files : disk'[f] # disk[f] => f \in S /\ f \in paths
      PROVE  WatchInv'
  <2> USE <1>1 DEF Edit
  <2>1. TypeOK'
    <3>1. edited' \in [Actors -> SUBSET Files]
      BY DEF TypeOK
    <3>2. edits' \in 0 .. MaxEdits
      BY DEF TypeOK
    <3>3. /\ events' \subseteq Paths
          /\ ~watching' => events' = {} /\ changed' = {} /\ sent' = {}
      BY DEF TypeOK
    <3> QED
      BY <3>1, <3>2, <3>3 DEF TypeOK, fileVars
  <2>2. OneInside' /\ TodoTaken' /\ SentSaved'
    BY DEF OneInside, Inside, TodoTaken, SentSaved, fileVars
  <2>3. FullTracked'
    BY DEF FullTracked, TypeOK
  <2>4. \A f \in Files, p \in Actors :
          pc[p] \in {"build", "saved", "clear"} /\ disk'[f] # disk[f] => f \in edited'[p]
    BY DEF TypeOK
  <2>5. \A p \in Actors : edited[p] \subseteq edited'[p]
    BY DEF TypeOK
  <2>6. BuildRight'
    BY <2>4, <2>5 DEF BuildRight
  <2>7. TakenCaptured'
    BY <2>4, <2>5 DEF TakenCaptured, Captured
  <2>8. PathsRemembered'
    BY <2>4, <2>5 DEF PathsRemembered, Captured, SentSaved, fileVars, Actors
  <2> QED
    BY <2>1, <2>2, <2>3, <2>6, <2>7, <2>8
<1>2. CASE \E f \in Files : DeleteFile(f)
  <2> PICK f \in Files : DeleteFile(f)
    BY <1>2
  <2>1. Edit({f}, {f}) /\ disk' \in Trees /\ dirs' \subseteq Dirs
    BY DEF DeleteFile, TypeOK, Trees
  <2>2. \A g \in Files : disk'[g] # disk[g] => g \in {f}
    BY DEF DeleteFile, TypeOK, Trees
  <2> QED
    BY <1>1, <2>1, <2>2 DEF Paths
<1>3. CASE \E f \in Files, v \in Versions : WriteFile(f, v)
  <2> PICK f \in Files, v \in Versions : WriteFile(f, v)
    BY <1>3
  <2>1. Edit({f}, {f}) /\ disk' \in Trees /\ dirs' \subseteq Dirs
    BY DEF WriteFile, TypeOK, Trees
  <2>2. \A g \in Files : disk'[g] # disk[g] => g \in {f}
    BY DEF WriteFile, TypeOK, Trees
  <2> QED
    BY <1>1, <2>1, <2>2 DEF Paths
<1>4. CASE \E d \in Dirs : TouchDir(d)
  <2> PICK d \in Dirs : TouchDir(d)
    BY <1>4
  <2>1. Edit({}, {d}) /\ disk' \in Trees /\ dirs' \subseteq Dirs /\ disk' = disk
    BY DEF TouchDir, TypeOK
  <2> QED
    BY <1>1, <2>1 DEF Paths
<1>5. CASE \E d \in Dirs : RemoveDir(d)
  <2> PICK d \in Dirs : RemoveDir(d)
    BY <1>5
  <2> DEFINE gone == {d} \cup {f \in FilesIn(d) : disk[f] # Absent}
  <2>1. Edit(FilesIn(d), gone) /\ dirs' \subseteq Dirs
    BY DEF RemoveDir, TypeOK
  <2>2. disk' \in Trees
    BY WithoutTrees DEF RemoveDir, TypeOK
  <2>3. \A f \in Files : disk'[f] # disk[f] => f \in FilesIn(d) /\ f \in gone
    BY DEF RemoveDir, Without, FilesIn, TypeOK, Trees
  <2>4. FilesIn(d) \in SUBSET Files /\ gone \in SUBSET Paths
    BY DEF FilesIn, Paths
  <2> HIDE DEF gone
  <2> QED
    BY <1>1, <2>1, <2>2, <2>3, <2>4
<1> QED
  BY <1>2, <1>3, <1>4, <1>5 DEF Users

\* What the watcher's thread does.
LEMMA NoticeWatchInv ==
  ASSUME WatchInv, NEW path \in Paths, Notice(path)
  PROVE  WatchInv'
<1> USE DEF WatchInv, Notice, sourceVars, backupVars, fileVars, recordVars
<1>1. TypeOK'
  BY DEF TypeOK
<1>2. OneInside' /\ TodoTaken' /\ SentSaved' /\ BuildRight' /\ TakenCaptured' /\ PathsRemembered'
  BY DEF OneInside, Inside, TodoTaken, SentSaved, BuildRight,
     TakenCaptured, PathsRemembered, Captured
<1>3. FullTracked'
  BY DEF FullTracked
<1> QED
  BY <1>1, <1>2, <1>3

\* The daemon's steps outside an incremental backup's work.
LEMMA DaemonWatchInv ==
  ASSUME WatchInv, Daemon
  PROVE  WatchInv'
<1> USE WatchAssumption DEF WatchInv, sourceVars, watcherVars, backupVars, fileVars, recordVars,
        Goto, Actors, Forget, Finished
<1>1. CASE StartDaemon
  <2> USE <1>1 DEF StartDaemon, Unlocked, Paths
  <2>1. TypeOK'
    BY NoFilesTrees DEF TypeOK
  <2>2. OneInside' /\ TodoTaken' /\ SentSaved' /\ FullTracked'
    BY DEF TypeOK, OneInside, Inside, TodoTaken, SentSaved, FullTracked
  <2>3. BuildRight' /\ TakenCaptured'
    BY DEF TypeOK, OneInside, Inside, BuildRight, TakenCaptured, Captured
  <2>4. PathsRemembered'
    BY DEF TypeOK, SentSaved, PathsRemembered, Captured
  <2> QED
    BY <2>1, <2>2, <2>3, <2>4
<1>2. CASE SaveFull
  <2> USE <1>2 DEF SaveFull
  <2>1. TypeOK'
    BY NoFilesTrees DEF TypeOK
  <2>2. OneInside' /\ TodoTaken' /\ SentSaved' /\ FullTracked'
    BY DEF TypeOK, OneInside, Inside, TodoTaken, SentSaved, FullTracked
  <2>3. BuildRight' /\ TakenCaptured'
    BY DEF TypeOK, OneInside, Inside, BuildRight, TakenCaptured, Captured
  <2>4. PathsRemembered'
    BY DEF TypeOK, SentSaved, PathsRemembered, Captured
  <2> QED
    BY <2>1, <2>2, <2>3, <2>4
<1>3. CASE Trigger
  <2> USE <1>3 DEF Trigger
  <2>1. TypeOK'
    BY NoFilesTrees DEF TypeOK
  <2>2. OneInside' /\ TodoTaken' /\ SentSaved' /\ FullTracked'
    BY DEF TypeOK, OneInside, Inside, TodoTaken, SentSaved, FullTracked
  <2>3. BuildRight' /\ TakenCaptured'
    BY DEF TypeOK, OneInside, Inside, BuildRight, TakenCaptured, Captured
  <2>4. PathsRemembered'
    BY DEF TypeOK, SentSaved, PathsRemembered, Captured
  <2> QED
    BY <2>1, <2>2, <2>3, <2>4
<1>4. CASE SaveBegins
  <2> USE <1>4 DEF SaveBegins
  <2>1. TypeOK'
    BY NoFilesTrees DEF TypeOK
  <2>2. OneInside' /\ TodoTaken' /\ SentSaved' /\ FullTracked'
    BY DEF TypeOK, OneInside, Inside, TodoTaken, SentSaved, FullTracked
  <2>3. BuildRight' /\ TakenCaptured'
    BY DEF TypeOK, OneInside, Inside, BuildRight, TakenCaptured, Captured
  <2>4. PathsRemembered'
    BY DEF TypeOK, SentSaved, PathsRemembered, Captured
  <2> QED
    BY <2>1, <2>2, <2>3, <2>4
<1>5. CASE SaveEnds
  <2> USE <1>5 DEF SaveEnds
  <2>1. TypeOK'
    BY NoFilesTrees DEF TypeOK
  <2>2. OneInside' /\ TodoTaken' /\ SentSaved' /\ FullTracked'
    BY DEF TypeOK, OneInside, Inside, TodoTaken, SentSaved, FullTracked
  <2>3. BuildRight' /\ TakenCaptured'
    BY DEF TypeOK, OneInside, Inside, BuildRight, TakenCaptured, Captured
  <2>4. PathsRemembered'
    BY DEF TypeOK, SentSaved, PathsRemembered, Captured
  <2> QED
    BY <2>1, <2>2, <2>3, <2>4
<1>6. CASE SaveFails
  <2> USE <1>6 DEF SaveFails
  <2>1. TypeOK'
    BY NoFilesTrees DEF TypeOK
  <2>2. OneInside' /\ TodoTaken' /\ SentSaved' /\ FullTracked'
    BY DEF TypeOK, OneInside, Inside, TodoTaken, SentSaved, FullTracked
  <2>3. BuildRight' /\ TakenCaptured'
    BY DEF TypeOK, OneInside, Inside, BuildRight, TakenCaptured, Captured
  <2>4. PathsRemembered'
    BY DEF TypeOK, SentSaved, PathsRemembered, Captured
  <2> QED
    BY <2>1, <2>2, <2>3, <2>4
<1>7. CASE Load
  <2> USE <1>7 DEF Load
  <2>1. TypeOK'
    BY NoFilesTrees DEF TypeOK
  <2>2. OneInside' /\ TodoTaken' /\ SentSaved' /\ FullTracked'
    BY DEF TypeOK, OneInside, Inside, TodoTaken, SentSaved, FullTracked
  <2>3. BuildRight' /\ TakenCaptured'
    BY DEF TypeOK, OneInside, Inside, BuildRight, TakenCaptured, Captured
  <2>4. PathsRemembered'
    BY DEF TypeOK, SentSaved, PathsRemembered, Captured
  <2> QED
    BY <2>1, <2>2, <2>3, <2>4
<1>8. CASE Clear
  <2> USE <1>8 DEF Clear
  <2>1. TypeOK'
    BY NoFilesTrees DEF TypeOK
  <2>2. OneInside' /\ TodoTaken' /\ SentSaved' /\ FullTracked'
    BY DEF TypeOK, OneInside, Inside, TodoTaken, SentSaved, FullTracked
  <2>3. BuildRight' /\ TakenCaptured'
    BY DEF TypeOK, OneInside, Inside, BuildRight, TakenCaptured, Captured
  <2>4. PathsRemembered'
    BY DEF TypeOK, SentSaved, PathsRemembered, Captured
  <2> QED
    BY <2>1, <2>2, <2>3, <2>4
<1>9. CASE StopDaemon
  <2> USE <1>9 DEF StopDaemon
  <2>1. TypeOK'
    BY NoFilesTrees DEF TypeOK
  <2>2. OneInside' /\ TodoTaken' /\ SentSaved' /\ FullTracked'
    BY DEF TypeOK, OneInside, Inside, TodoTaken, SentSaved, FullTracked
  <2>3. BuildRight' /\ TakenCaptured'
    BY DEF TypeOK, OneInside, Inside, BuildRight, TakenCaptured, Captured
  <2>4. PathsRemembered'
    BY DEF TypeOK, SentSaved, PathsRemembered, Captured
  <2> QED
    BY <2>1, <2>2, <2>3, <2>4
<1>10. CASE \E f \in Files : ReadFile(f)
  <2> PICK f \in Files : ReadFile(f)
    BY <1>10
  <2> USE DEF ReadFile
  <2>1. TypeOK'
    BY DEF TypeOK, Trees
  <2>2. OneInside' /\ TodoTaken' /\ SentSaved' /\ PathsRemembered'
    BY DEF TypeOK, OneInside, Inside, TodoTaken, SentSaved, PathsRemembered, Captured
  <2>3. BuildRight' /\ TakenCaptured'
    BY DEF TypeOK, BuildRight, TakenCaptured, Captured
  <2>4. FullTracked'
    BY DEF FullTracked, TypeOK, Trees
  <2> QED
    BY <2>1, <2>2, <2>3, <2>4
<1> QED
  BY <1>1, <1>2, <1>3, <1>4, <1>5, <1>6, <1>7, <1>8, <1>9, <1>10 DEF Daemon

\* A backup by hand starts, or is stopped.
LEMMA HandWatchInv ==
  ASSUME WatchInv, StartByHand \/ StopByHand
  PROVE  WatchInv'
<1> USE WatchAssumption DEF WatchInv, sourceVars, watcherVars, backupVars, fileVars, recordVars,
        Goto, Actors, Forget, StartByHand, StopByHand
<1>1. TypeOK'
  BY NoFilesTrees DEF TypeOK
<1>2. OneInside' /\ TodoTaken' /\ SentSaved' /\ FullTracked'
  BY DEF TypeOK, OneInside, Inside, TodoTaken, SentSaved, FullTracked
<1>3. BuildRight' /\ TakenCaptured' /\ PathsRemembered'
  BY DEF TypeOK, SentSaved, BuildRight, TakenCaptured, PathsRemembered, Captured
<1> QED
  BY <1>1, <1>2, <1>3

\* An incremental backup's steps, of the daemon or by hand.
LEMMA IncrementalWatchInv ==
  ASSUME WatchInv, NEW p \in Actors, Incremental(p)
  PROVE  WatchInv'
<1> USE WatchAssumption DEF WatchInv, sourceVars, watcherVars, backupVars, fileVars, recordVars,
        Goto, Forget, Finished
<1>1. CASE ListNewest(p)
  <2> USE <1>1 DEF ListNewest
  <2>1. TypeOK'
    BY NoFilesTrees DEF TypeOK, Actors
  <2>2. OneInside' /\ TodoTaken' /\ SentSaved' /\ FullTracked'
    BY DEF TypeOK, OneInside, Inside, TodoTaken, SentSaved, FullTracked, Actors
  <2>3. BuildRight' /\ TakenCaptured'
    BY DEF TypeOK, BuildRight, TakenCaptured, Captured, Actors
  <2>4. PathsRemembered'
    BY DEF TypeOK, SentSaved, TakenCaptured, PathsRemembered, Captured, Actors
  <2> QED
    BY <2>1, <2>2, <2>3, <2>4
<1>2. CASE OpenFails(p)
  <2> USE <1>2 DEF OpenFails
  <2>1. TypeOK'
    BY NoFilesTrees DEF TypeOK, Actors
  <2>2. OneInside' /\ TodoTaken' /\ SentSaved' /\ FullTracked'
    BY DEF TypeOK, OneInside, Inside, TodoTaken, SentSaved, FullTracked, Actors
  <2>3. BuildRight' /\ TakenCaptured'
    BY DEF TypeOK, BuildRight, TakenCaptured, Captured, Actors
  <2>4. PathsRemembered'
    BY DEF TypeOK, SentSaved, TakenCaptured, PathsRemembered, Captured, Actors
  <2> QED
    BY <2>1, <2>2, <2>3, <2>4
<1>3. CASE BackupFails(p)
  <2> USE <1>3 DEF BackupFails
  <2>1. TypeOK'
    BY NoFilesTrees DEF TypeOK, Actors
  <2>2. OneInside' /\ TodoTaken' /\ SentSaved' /\ FullTracked'
    BY DEF TypeOK, OneInside, Inside, TodoTaken, SentSaved, FullTracked, Actors
  <2>3. BuildRight' /\ TakenCaptured'
    BY DEF TypeOK, BuildRight, TakenCaptured, Captured, Actors
  <2>4. PathsRemembered'
    BY DEF TypeOK, SentSaved, TakenCaptured, PathsRemembered, Captured, Actors
  <2> QED
    BY <2>1, <2>2, <2>3, <2>4
<1>4. CASE RemoveState(p)
  <2> USE <1>4 DEF RemoveState
  <2>1. TypeOK'
    BY NoFilesTrees DEF TypeOK, Actors
  <2>2. OneInside' /\ TodoTaken' /\ SentSaved' /\ FullTracked'
    BY DEF TypeOK, OneInside, Inside, TodoTaken, SentSaved, FullTracked, Actors
  <2>3. BuildRight' /\ TakenCaptured'
    BY DEF TypeOK, BuildRight, TakenCaptured, Captured, Actors
  <2>4. PathsRemembered'
    BY DEF TypeOK, SentSaved, TakenCaptured, PathsRemembered, Captured, Actors
  <2> QED
    BY <2>1, <2>2, <2>3, <2>4
<1>5. CASE Open(p)
  <2> USE <1>5 DEF Open, Classify
  <2>1. TypeOK'
    <3>1. Without(tree[p], Gone(p)) \in Trees
      BY WithoutTrees DEF TypeOK
    <3>2. {path \in taken[p] : Present(path)} \in SUBSET Paths
      BY DEF TypeOK
    <3> QED
      BY <3>1, <3>2 DEF TypeOK, Actors
  <2>2. OneInside' /\ TodoTaken' /\ SentSaved' /\ FullTracked'
    BY DEF TypeOK, OneInside, Inside, Unlocked, TodoTaken, SentSaved, FullTracked, Actors
  <2>3. BuildRight'
    BY DEF BuildRight, Present, Gone, Without, TypeOK, Trees
  <2>4. TakenCaptured' /\ PathsRemembered'
    BY DEF TypeOK, SentSaved, TakenCaptured, PathsRemembered, Captured, Actors
  <2> QED
    BY <2>1, <2>2, <2>3, <2>4
<1>6. CASE SaveSnapshot(p)
  <2> USE <1>6 DEF SaveSnapshot
  <2>1. TypeOK'
    BY DEF TypeOK, Actors
  <2>2. OneInside' /\ TodoTaken' /\ SentSaved' /\ FullTracked' /\ BuildRight'
    BY DEF TypeOK, OneInside, Inside, TodoTaken, SentSaved, FullTracked, BuildRight, Actors
  <2>3. TakenCaptured'
    BY DEF TypeOK, OneInside, Inside, BuildRight, TakenCaptured, Captured
  <2>4. PathsRemembered'
    BY DEF TypeOK, SentSaved, PathsRemembered, Captured, Actors
  <2> QED
    BY <2>1, <2>2, <2>3, <2>4
<1>7. CASE \E path \in Paths : Process(p, path)
  <2> PICK path \in Paths : Process(p, path)
    BY <1>7
  <2>0. /\ pc[p] = "build" /\ path \in todo[p] /\ todo' = [todo EXCEPT ![p] = @ \ {path}]
        /\ UNCHANGED <<sourceVars, watcherVars, sent, fileVars, snap, pc, taken, recordVars, starts>>
        /\ \A q \in Actors \ {p} : tree'[q] = tree[q]
    BY DEF Process, TypeOK
  <2>1. TypeOK'
    <3>1. tree' \in [Actors -> Trees]
      <4>1. tree[p] \in Trees /\ Without(tree[p], {path}) \in Trees
        BY WithoutTrees DEF TypeOK
      <4>2. path \in Files => [tree[p] EXCEPT ![path] = disk[path]] \in Trees
        BY <4>1 DEF TypeOK, Trees
      <4> QED
        BY <4>1, <4>2 DEF Process, TypeOK
    <3> QED
      BY <2>0, <3>1 DEF TypeOK
  <2>2. OneInside' /\ TodoTaken' /\ SentSaved' /\ FullTracked'
    BY <2>0 DEF TypeOK, OneInside, Inside, TodoTaken, SentSaved, FullTracked, Actors
  <2>3. ASSUME NEW f \in Files, f \in taken[p], f \notin edited[p], DirOf[f] \notin taken[p]
        PROVE  \/ f \in todo'[p] /\ disk[f] # Absent
               \/ f \notin todo'[p] /\ tree'[p][f] = disk[f]
    <3>1. CASE f = path
      BY <2>0, <2>3, <3>1 DEF Process, BuildRight, Present, TypeOK, Trees
    <3>2. CASE f # path
      <4>1. DirOf[f] # path
        BY <2>0, <2>3 DEF TodoTaken
      <4>2. tree'[p][f] = tree[p][f]
        BY <3>2, <4>1 DEF Process, Without, TypeOK, Trees
      <4> QED
        BY <2>0, <2>3, <3>2, <4>2 DEF BuildRight, TypeOK
    <3> QED
      BY <3>1, <3>2
  <2>4. BuildRight'
    <3>1. ASSUME NEW q \in Actors \ {p}
          PROVE  tree'[q] = tree[q] /\ todo'[q] = todo[q]
      BY <2>0 DEF TypeOK
    <3> QED
      BY <2>0, <2>3, <3>1 DEF BuildRight
  <2>5. TakenCaptured' /\ PathsRemembered'
    BY <2>0 DEF TakenCaptured, PathsRemembered, Captured
  <2> QED
    BY <2>1, <2>2, <2>4, <2>5
<1> QED
  BY <1>1, <1>2, <1>3, <1>4, <1>5, <1>6, <1>7 DEF Incremental

LEMMA NextWatchInv ==
  ASSUME WatchInv, [Next]_vars
  PROVE  WatchInv'
<1>1. CASE Next
  BY <1>1, UsersWatchInv, NoticeWatchInv, DaemonWatchInv, HandWatchInv, IncrementalWatchInv
     DEF Next
<1>2. CASE UNCHANGED vars
  BY <1>2 DEF vars, sourceVars, watcherVars, backupVars, fileVars, recordVars, WatchInv, TypeOK,
     OneInside, Inside, TodoTaken, SentSaved, FullTracked, BuildRight,
     TakenCaptured, PathsRemembered, Captured
<1> QED
  BY <1>1, <1>2

-----------------------------------------------------------------------------

\* The inductive invariant holds in every reachable state.
THEOREM WatchInvariant == Spec => []WatchInv
  BY InitWatchInv, NextWatchInv, PTL DEF Spec

\* Types: a backup never builds on anything but versions of files, and the state
\* file and the watcher hold paths of the source only.
THEOREM WatchTypes == Spec => []TypeOK
<1>1. WatchInv => TypeOK
  BY DEF WatchInv
<1> QED
  BY <1>1, WatchInvariant, PTL

\* Once the daemon's paths are in the state file, whatever fails, and wherever the
\* daemon stops, each is still there or captured by the newest snapshot, until
\* the daemon has cleared them; but for a write that failed, and for a backup by
\* hand that removes the file or saves over the snapshot.
THEOREM PathsAlwaysRemembered == Spec => []PathsRemembered
<1>1. WatchInv => PathsRemembered
  BY DEF WatchInv
<1> QED
  BY <1>1, WatchInvariant, PTL

\* A saved incremental snapshot is right about every file it was started for that
\* users left alone since, unless the file's directory was reported as well.
THEOREM TakenAlwaysCaptured == Spec => []TakenCaptured
<1>1. WatchInv => TakenCaptured
  BY DEF WatchInv
<1> QED
  BY <1>1, WatchInvariant, PTL

\* Whatever users change while the daemon's first, full backup runs is in its
\* snapshot, or known to the watcher when the loop begins.
THEOREM FullBackupAlwaysTracked == Spec => FullBackupTracked
<1>1. ASSUME WatchInv, [Next]_vars
      PROVE  [pc["daemon"] = "full" /\ pc'["daemon"] = "watch" => Tracked']_vars
  <2> SUFFICES ASSUME Next, pc["daemon"] = "full", pc'["daemon"] = "watch"
               PROVE  Tracked'
    BY <1>1
  <2> USE <1>1 DEF WatchInv, TypeOK, Goto, backupVars, Finished
  <2>1. ~Users /\ ~(\E path \in Paths : Notice(path)) /\ ~StartByHand /\ ~StopByHand
    <3>1. Users => UNCHANGED pc
      BY DEF Users, DeleteFile, WriteFile, TouchDir, RemoveDir, Edit
    <3> QED
      BY <3>1 DEF Notice, StartByHand, StopByHand, Actors
  <2>2. ~(\E p \in Actors : Incremental(p))
    BY DEF Incremental, ListNewest, OpenFails, BackupFails, Open, Classify, Process, SaveSnapshot,
       RemoveState, Actors
  <2>3. SaveFull
    BY <2>1, <2>2 DEF Next, Daemon, StartDaemon, ReadFile, Trigger, SaveBegins, SaveEnds,
       SaveFails, Load, Clear, StopDaemon
  <2> QED
    BY <2>3 DEF SaveFull, FullTracked, Tracked, sourceVars, watcherVars
<1> QED
  BY <1>1, WatchInvariant, PTL DEF Spec, FullBackupTracked

=============================================================================
