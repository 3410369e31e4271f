-------------------------------- MODULE Restore --------------------------------
(***************************************************************************)
(* restore: a snapshot's tree is written into a directory that may already *)
(* hold files, one node after the other, each file through a temporary     *)
(* file beside it that is then renamed.                                    *)
(*                                                                         *)
(* The restore command and the restore crate are two engines that take the *)
(* same steps; what a few of them report is worded differently.            *)
(*                                                                         *)
(* Abstractions: a file's content names the node it came from; the content *)
(* a chunk yields is the business of module Encoding, here a file's chunks *)
(* can all be read or not; no directory is reached through a link; the     *)
(* user is not root, so nothing can be created in a read-only directory;   *)
(* setting modes does not fail; verify, which compares two values of the   *)
(* same snapshot, is left out.                                             *)
(***************************************************************************)
EXTENDS Integers, FiniteSets, Sequences

CONSTANTS
  RestorePaths,      \* the paths below the target directory
  DirsAbove,         \* path -> the directories above it, without the target
  TmpPath,           \* path -> with_extension("tmp") of it
  Outside,           \* where a link with ".." or an absolute path leads
  RestoreTrees,      \* the snapshots: sequences of nodes, depth first
  TargetTrees,       \* what the target directory may hold before
  RestoreOptions,    \* the options restores are run with
  RestoreFaults,     \* a subset of {"crash", "io"}
  MaxRestores        \* bound: how many restores are run

None == [kind |-> "none"]
File(node) == [kind |-> "file", from |-> node]
Partial == 0           \* the content of a file that was not written to its end
UserContent == -1      \* the content of a file that was there before
Link(to) == [kind |-> "link", to |-> to]
Dir(ro) == [kind |-> "dir", ro |-> ro]

\* What a path may hold: a file names the node it came from, or one of the two
\* contents above.
Entries ==
  {None} \cup [kind : {"file"}, from : Nat \cup {UserContent}]
         \cup [kind : {"link"}, to : RestorePaths] \cup [kind : {"dir"}, ro : BOOLEAN]

TreeNodes ==
  [kind : {"file"}, path : RestorePaths]
    \cup [kind : {"link"}, path : RestorePaths, to : RestorePaths \cup {Outside}]
    \cup [kind : {"dir"}, path : RestorePaths, ro : BOOLEAN]

\* The tree is walked from its roots: the directories above a node come first.
DepthFirst(tree) ==
  \A n \in DOMAIN tree : \A d \in DirsAbove[tree[n].path] :
    \E m \in 1..n - 1 : tree[m].kind = "dir" /\ tree[m].path = d

\* with_extension("tmp") changes the last part of a path, once.
ASSUME RestoreAssumption ==
  /\ DirsAbove \in [RestorePaths -> SUBSET RestorePaths]
  /\ \A p \in RestorePaths : p \notin DirsAbove[p]
  /\ TmpPath \in [RestorePaths -> RestorePaths]
  /\ \A p \in RestorePaths : DirsAbove[TmpPath[p]] = DirsAbove[p]
  /\ \A p \in RestorePaths : TmpPath[TmpPath[p]] = TmpPath[p]
  /\ Outside \notin RestorePaths
  /\ \A tree \in RestoreTrees :
       /\ DOMAIN tree = 1..Len(tree) /\ Len(tree) \in Nat
       /\ \A n \in DOMAIN tree : tree[n] \in TreeNodes
       /\ DepthFirst(tree)
  /\ \A t \in TargetTrees :
       /\ t = [p \in RestorePaths |-> t[p]]
       /\ \A p \in RestorePaths : t[p] \in Entries
  /\ RestoreOptions \subseteq [overwrite : BOOLEAN, dry_run : BOOLEAN, preserve : BOOLEAN]
  /\ RestoreFaults \subseteq {"crash", "io"}
  /\ MaxRestores \in Nat

VARIABLES
  target,      \* path -> what is there
  rPc,         \* where the restore is
  rTree,       \* the nodes of the snapshot
  rOpts,       \* its options
  rSelected,   \* the files the filter lets through
  rLost,       \* the files with a chunk that cannot be read or decrypted
  rNode,       \* the node it is at
  result,      \* RestoreResult
  rBefore,     \* history: the target directory when the restore started
  rFaulted,    \* history: an operation of this restore has failed by a fault
  restores     \* how many restores were started

restoreVars == <<target, rPc, rTree, rOpts, rSelected, rLost, rNode, result,
                 rBefore, rFaulted, restores>>

-----------------------------------------------------------------------------
\* The file system below the target directory.

Kind(p) == target[p].kind

\* Links are followed, three of them: one that leads round stays a link.
Followed(t, p) == IF t[p].kind = "link" THEN t[p].to ELSE p
EndIn(t, p) == Followed(t, Followed(t, Followed(t, p)))

\* Path::exists
Exists(p) == Kind(EndIn(target, p)) \in {"file", "dir"}

\* The directories above a path that are missing.
MissingAbove(p) == {d \in DirsAbove[p] : Kind(d) = "none"}

CanCreateIn(dirs) ==
  /\ \A d \in dirs : Kind(d) \in {"dir", "none"}
  /\ LET there == {d \in dirs : Kind(d) = "dir"}
         lowest == {d \in there : \A e \in there : e \in DirsAbove[d] \cup {d}}
     IN \A d \in lowest : ~target[d].ro

\* create_dir_all succeeds: all are directories already, or what is missing
\* can be created.
DirsCanExist(dirs) ==
  \/ \A d \in dirs : Kind(d) = "dir"
  \/ CanCreateIn(dirs)

WithDirs(dirs) ==
  [p \in RestorePaths |-> IF p \in dirs /\ Kind(p) = "none" THEN Dir(FALSE) ELSE target[p]]

\* The directory of the path is there and can be written.
ParentWritable(p) == MissingAbove(p) = {} /\ CanCreateIn(DirsAbove[p])

\* fs::write goes through a link.
WrittenAt(p) == EndIn(target, p)

CanWrite(p) ==
  LET q == WrittenAt(p)
  IN  Kind(q) = "file" \/ (Kind(q) = "none" /\ ParentWritable(q))

CanRemove(p) == Kind(p) \in {"file", "link"} /\ ParentWritable(p)

RemovedIn(t, p) == IF CanRemove(p) THEN [t EXCEPT ![p] = None] ELSE t

\* rename refuses a directory as its destination.
CanRename(from, to) == Kind(to) # "dir" /\ ParentWritable(to)

-----------------------------------------------------------------------------
\* The nodes of a snapshot.

Nodes(tree) == DOMAIN tree
FileNodes(tree) == {n \in Nodes(tree) : tree[n].kind = "file"}
PathOf(n) == rTree[n].path

\* Slip: the file is written where it belongs, without a temporary file.
TmpOfDirect(n) == PathOf(n)

\* target_file.with_extension("tmp")
TmpOf(n) == TmpPath[PathOf(n)]

\* Restorer::list_restorable_files and Restorer::preview: the paths of the
\* files, and of those the filter lets through.
ListRestorable(tree) == {tree[n].path : n \in FileNodes(tree)}
Preview(tree, selected) == {tree[n].path : n \in FileNodes(tree) \cap selected}

NoResult == [files_restored |-> 0, files_skipped |-> 0, directories |-> 0,
             symlinks |-> 0, errors |-> {}]

RestoreInit ==
  /\ target \in TargetTrees /\ rBefore = target
  /\ rPc = "idle" /\ rTree = <<>> /\ rSelected = {} /\ rLost = {} /\ rNode = 0
  /\ rOpts = [overwrite |-> FALSE, dry_run |-> FALSE, preserve |-> FALSE]
  /\ result = NoResult /\ rFaulted = FALSE /\ restores = 0

Job == <<rTree, rOpts, rSelected, rLost, rBefore, restores>>

\* cmd_restore and Restorer::restore, up to the first node.  A filter lets
\* all files through, or all but one; at most one file has lost a chunk; a
\* further restore is of the same snapshot.
StartRestore ==
  /\ rPc = "idle" /\ restores < MaxRestores
  /\ rTree' \in IF restores = 0 THEN RestoreTrees ELSE {rTree}
  /\ rOpts' \in RestoreOptions
  /\ \E out \in {{}} \cup {{n} : n \in FileNodes(rTree')} : rSelected' = FileNodes(rTree') \ out
  /\ rLost' \in {{}} \cup {{n} : n \in FileNodes(rTree')}
  /\ rPc' = "node" /\ rNode' = 1 /\ result' = NoResult
  /\ rBefore' = target /\ rFaulted' = FALSE /\ restores' = restores + 1
  /\ UNCHANGED target

At(kind) == rPc = "node" /\ rNode \in Nodes(rTree) /\ rTree[rNode].kind = kind

Advance == rPc' = "node" /\ rNode' = rNode + 1

MayFail == "io" \in RestoreFaults
Fault == MayFail /\ rFaulted' = TRUE
NoFault == UNCHANGED rFaulted

WithError(r) == [r EXCEPT !.errors = @ \cup {rNode}]
Skipped(r) == [r EXCEPT !.files_skipped = @ + 1]

\* An error is recorded and the file counts as skipped.
FailFile == result' = Skipped(WithError(result)) /\ Advance

-----------------------------------------------------------------------------
\* restore_directory

RestoreDir ==
  /\ At("dir")
  /\ LET p == PathOf(rNode)
         made == WithDirs({p} \cup DirsAbove[p])
     IN \/ /\ rOpts.dry_run
           /\ UNCHANGED target
        \/ /\ ~rOpts.dry_run /\ DirsCanExist({p} \cup DirsAbove[p])
           /\ target' = IF rOpts.preserve THEN [made EXCEPT ![p] = Dir(rTree[rNode].ro)] ELSE made
  /\ result' = [result EXCEPT !.directories = @ + 1]
  /\ Advance /\ NoFault /\ UNCHANGED Job

\* Slip: only a log line tells of it.
RestoreDirFailsSilently ==
  /\ At("dir") /\ ~rOpts.dry_run
  /\ \/ ~DirsCanExist({PathOf(rNode)} \cup DirsAbove[PathOf(rNode)]) /\ NoFault
     \/ Fault
  /\ UNCHANGED result /\ Advance
  /\ UNCHANGED <<target, Job>>

\* The children are tried all the same.
RestoreDirFails ==
  /\ At("dir") /\ ~rOpts.dry_run
  /\ \/ ~DirsCanExist({PathOf(rNode)} \cup DirsAbove[PathOf(rNode)]) /\ NoFault
     \/ Fault
  /\ result' = WithError(result) /\ Advance
  /\ UNCHANGED <<target, Job>>

-----------------------------------------------------------------------------
\* restore_file

SkipFiltered ==
  /\ At("file") /\ rNode \notin rSelected
  /\ result' = Skipped(result) /\ Advance
  /\ NoFault /\ UNCHANGED <<target, Job>>

\* Slip: a dry run is told from a real one too late.
RefusedDry == ~rOpts.overwrite /\ rOpts.dry_run /\ Exists(PathOf(rNode))

\* The target exists and must not be overwritten.
Refused == ~rOpts.overwrite /\ ~rOpts.dry_run /\ Exists(PathOf(rNode))

RefuseExisting ==
  /\ At("file") /\ rNode \in rSelected /\ Refused
  /\ FailFile /\ NoFault /\ UNCHANGED <<target, Job>>

\* A chunk is missing or cannot be decrypted.
ReadFails ==
  /\ At("file") /\ rNode \in rSelected /\ ~Refused /\ rNode \in rLost
  /\ FailFile /\ NoFault /\ UNCHANGED <<target, Job>>

FileReady == At("file") /\ rNode \in rSelected /\ ~Refused /\ rNode \notin rLost

CountDryRun ==
  /\ FileReady /\ rOpts.dry_run
  /\ result' = [result EXCEPT !.files_restored = @ + 1] /\ Advance
  /\ NoFault /\ UNCHANGED <<target, Job>>

\* The directories above cannot be created.
ParentFails ==
  /\ FileReady /\ ~rOpts.dry_run
  /\ \/ ~DirsCanExist(DirsAbove[PathOf(rNode)]) /\ NoFault
     \/ Fault
  /\ FailFile /\ UNCHANGED <<target, Job>>

\* The directories above are there, and fs::write has opened the temporary
\* file: whatever it held is gone.
OpenTmp ==
  /\ FileReady /\ ~rOpts.dry_run
  /\ DirsCanExist(DirsAbove[PathOf(rNode)])
  /\ target' = WithDirs(DirsAbove[PathOf(rNode)])
  /\ rPc' = "open"
  /\ NoFault /\ UNCHANGED <<rNode, result, Job>>

BeginWrite ==
  /\ rPc = "open" /\ CanWrite(TmpOf(rNode))
  /\ target' = [target EXCEPT ![WrittenAt(TmpOf(rNode))] = File(Partial)]
  /\ rPc' = "write"
  /\ NoFault /\ UNCHANGED <<rNode, result, Job>>

\* fs::write fails, at its start or half way, and the temporary file is
\* removed.
WriteFails ==
  /\ rPc \in {"open", "write"}
  /\ \/ rPc = "open" /\ ~CanWrite(TmpOf(rNode)) /\ NoFault
     \/ Fault
  /\ target' = RemovedIn(target, TmpOf(rNode))
  /\ FailFile /\ UNCHANGED Job

EndWrite ==
  /\ rPc = "write"
  /\ target' = [target EXCEPT ![WrittenAt(TmpOf(rNode))] = File(rNode)]
  /\ rPc' = "rename"
  /\ NoFault /\ UNCHANGED <<rNode, result, Job>>

\* Slip: the file is copied to its place.
RenameCopying ==
  /\ rPc = "rename" /\ CanRename(TmpOf(rNode), PathOf(rNode))
  /\ target' = [target EXCEPT ![PathOf(rNode)] = target[TmpOf(rNode)]]
  /\ result' = [result EXCEPT !.files_restored = @ + 1]
  /\ Advance /\ NoFault /\ UNCHANGED Job

Rename ==
  /\ rPc = "rename" /\ CanRename(TmpOf(rNode), PathOf(rNode))
  /\ target' = LET moved == [target EXCEPT ![TmpOf(rNode)] = None]
               IN [moved EXCEPT ![PathOf(rNode)] = target[TmpOf(rNode)]]
  /\ result' = [result EXCEPT !.files_restored = @ + 1]
  /\ Advance /\ NoFault /\ UNCHANGED Job

RenameFails ==
  /\ rPc = "rename"
  /\ \/ ~CanRename(TmpOf(rNode), PathOf(rNode)) /\ NoFault
     \/ Fault
  /\ target' = RemovedIn(target, TmpOf(rNode))
  /\ FailFile /\ UNCHANGED Job

-----------------------------------------------------------------------------
\* restore_symlink

\* The parent is made; with overwrite, what is in the way is removed.
Cleared(p) ==
  IF rOpts.overwrite /\ Exists(p) THEN RemovedIn(target, p) ELSE WithDirs(DirsAbove[p])

\* validate_symlink_target
TargetValid(to) == to # Outside

\* The parent is there, nothing is in the way (symlink() refuses even a link
\* that leads nowhere), and the link stays inside.
LinkPossible ==
  LET p == PathOf(rNode)
  IN  /\ DirsCanExist(DirsAbove[p]) /\ CanCreateIn(DirsAbove[p])
      /\ Cleared(p)[p].kind = "none"
      /\ TargetValid(rTree[rNode].to)

RestoreLink ==
  /\ At("link")
  /\ \/ rOpts.dry_run /\ UNCHANGED target
     \/ /\ ~rOpts.dry_run /\ LinkPossible
        /\ target' = [Cleared(PathOf(rNode)) EXCEPT ![PathOf(rNode)] = Link(rTree[rNode].to)]
  /\ result' = [result EXCEPT !.symlinks = @ + 1]
  /\ Advance /\ NoFault /\ UNCHANGED Job

\* The command goes on where the restore crate returns at once; both end
\* with an error and without the link.
RestoreLinkFails ==
  /\ At("link") /\ ~rOpts.dry_run
  /\ LET above == DirsAbove[PathOf(rNode)]
     IN \/ ~DirsCanExist(above) /\ NoFault /\ UNCHANGED target
        \/ /\ DirsCanExist(above) /\ ~LinkPossible /\ NoFault
           /\ target' = Cleared(PathOf(rNode))
        \/ Fault /\ target' \in {target, Cleared(PathOf(rNode))}
  /\ result' = WithError(result) /\ Advance
  /\ UNCHANGED Job

-----------------------------------------------------------------------------
EndRestore ==
  /\ rPc = "node" /\ rNode \notin Nodes(rTree)
  /\ rPc' = "idle"
  /\ NoFault /\ UNCHANGED <<target, rNode, result, Job>>

CrashRestore ==
  /\ "crash" \in RestoreFaults /\ rPc # "idle"
  /\ rPc' = "idle" /\ rFaulted' = TRUE
  /\ UNCHANGED <<target, rNode, result, Job>>

RestoreNext ==
  \/ StartRestore \/ EndRestore \/ CrashRestore
  \/ RestoreDir \/ RestoreDirFails
  \/ SkipFiltered \/ RefuseExisting \/ ReadFails \/ CountDryRun
  \/ ParentFails \/ OpenTmp \/ BeginWrite \/ WriteFails \/ EndWrite \/ Rename \/ RenameFails
  \/ RestoreLink \/ RestoreLinkFails

RestoreSpec == RestoreInit /\ [][RestoreNext]_restoreVars

-----------------------------------------------------------------------------
\* Correctness.  Temporary names are the names of files users have: a.txt
\* and a.doc are both written through a.tmp.

\* Where a link at the path leads: one that was there, one of the snapshot, or
\* one that had the temporary name of a file and was renamed with it.
Led(p) ==
  RestorePaths \cap
    ((IF rBefore[p].kind = "link" THEN {rBefore[p].to} ELSE {})
      \cup {rTree[m].to : m \in {m \in Nodes(rTree) : rTree[m].kind = "link" /\ PathOf(m) = p}})
Leads(p) ==
  Led(p) \cup {q \in Led(TmpPath[p]) : \E m \in FileNodes(rTree) : PathOf(m) = p}
Further(S) == S \cup UNION {Leads(p) : p \in S}

\* What writing a file goes through: its temporary name and, where a link
\* has that name, where the link leads.
TmpPaths(n) == Further(Further(Further({TmpPath[PathOf(n)]})))

\* Those of the files the restore has come to.
AllTmpPaths == UNION {TmpPaths(n) : n \in {n \in rSelected : n <= rNode}}

\* The node's path is another node's too, or another file is written through
\* it, or the file itself is written through a link.
Disturbed(n) ==
  \/ \E m \in Nodes(rTree) \ {n} : PathOf(m) = PathOf(n)
  \/ \E m \in FileNodes(rTree) \ {n} : PathOf(n) \in TmpPaths(m)
  \/ rTree[n].kind = "file" /\ TmpPaths(n) # {TmpPath[PathOf(n)]}

InPlace(n) ==
  LET node == rTree[n]
      there == target[node.path]
  IN  CASE node.kind = "dir" -> there.kind = "dir"
        [] node.kind = "file" -> there = File(n)
        [] node.kind = "link" -> there = Link(node.to)

\* A restore passed the node and was not a dry run.
Passed(n) == n \in Nodes(rTree) /\ n < rNode /\ ~rOpts.dry_run

\* Whatever is lost, in the way or fails, every node a restore has passed is
\* in its place, or an error names it, unless the filter left it out or its
\* path is used twice (main.rs restore_node, restore.rs restore_node).
RestoredOrReported ==
  \A n \in Nodes(rTree) :
    Passed(n) /\ ~Disturbed(n) /\ n \notin FileNodes(rTree) \ rSelected
      => InPlace(n) \/ n \in result.errors

\* A link that was there and leads nowhere, or to a file whose name is a
\* temporary one and which may be gone when the link is looked at.
LeadsNowhere(p) ==
  /\ rBefore[p].kind = "link"
  /\ \/ rBefore[EndIn(rBefore, p)].kind \in {"none", "link"}
     \/ LET first == rBefore[p].to
            second == Followed(rBefore, first)
        IN {first, second, Followed(rBefore, second)} \cap AllTmpPaths # {}

\* Without overwrite, and in a dry run, what was in the target directory
\* stays as it was, unless it has the name of a temporary file or is a link
\* that leads nowhere; with overwrite, what the snapshot has no node for.
UserFilesKept ==
  \A p \in RestorePaths :
    \/ rBefore[p].kind = "none"
    \/ target[p] = rBefore[p]
    \/ rBefore[p].kind = "dir" /\ Kind(p) = "dir" /\ rOpts.preserve /\ ~rOpts.dry_run
    \/ ~rOpts.dry_run
       /\ \/ p \in AllTmpPaths
          \/ \E n \in Nodes(rTree) : PathOf(n) = p /\ rOpts.overwrite
          \/ LeadsNowhere(p)

\* At no moment, so after no crash of the process, does a restore leave part of a
\* file, unless under a temporary name ("prevents partial/corrupt files on crash").
\* Of a crash of the machine nothing is said: the file is renamed without a sync
\* (main.rs:2219-2222, restore.rs:546-548), though src/README.md:31 promises one.
NoPartialFiles ==
  \A p \in RestorePaths : target[p] = File(Partial) => p \in AllTmpPaths \/ rBefore[p] = File(Partial)

\* Nothing stands in the way of the restore: an empty target, all chunks
\* readable, no two nodes of one path, no file with a temporary file's name,
\* no directory made read-only before its files, no link to outside.
Unhindered ==
  /\ \A p \in RestorePaths : rBefore[p].kind = "none"
  /\ rLost = {} /\ ~rFaulted /\ ~rOpts.dry_run
  /\ \A n \in Nodes(rTree) :
       /\ ~Disturbed(n)
       /\ rTree[n].kind = "link" => rTree[n].to # Outside
       /\ rTree[n].kind = "dir" => ~(rOpts.preserve /\ rTree[n].ro)

\* Such a restore ends with exactly the snapshot's tree, without an error,
\* and with the files the preview lists.
CleanRestoreExact ==
  Unhindered /\ rNode > Len(rTree) /\ restores > 0 =>
    /\ result.errors = {}
    /\ result.files_restored = Cardinality(Preview(rTree, rSelected))
    /\ \A p \in RestorePaths :
         IF \E n \in Nodes(rTree) : PathOf(n) = p /\ n \notin FileNodes(rTree) \ rSelected
         THEN \E n \in Nodes(rTree) : PathOf(n) = p /\ InPlace(n)
         ELSE target[p] = None

===============================================================================
