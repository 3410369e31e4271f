------------------------------ MODULE RestoreProofs ------------------------------
(***************************************************************************)
(* Theorems about getting data back: what a restore does to the directory  *)
(* it writes into, for any paths, links, snapshots and options, and what   *)
(* the encryption of stored chunks leaves readable, for any files,         *)
(* contents and passwords; for any number of commands and crashes.         *)
(***************************************************************************)
EXTENDS Encoding, Restore, FiniteSetTheorems, TLAPS

-----------------------------------------------------------------------------
\* Restore.  What is at a path is nothing, a file, a link or a directory.

LEMMA EntryKinds ==
  /\ \A x : File(x).kind = "file" /\ File(x).from = x
  /\ \A q : Link(q).kind = "link" /\ Link(q).to = q
  /\ \A ro : Dir(ro).kind = "dir" /\ Dir(ro).ro = ro
  /\ None.kind = "none"
  /\ None \in Entries
  /\ \A x \in Nat : File(x) \in Entries
  /\ \A q \in RestorePaths : Link(q) \in Entries
  /\ \A ro \in BOOLEAN : Dir(ro) \in Entries
  /\ \A e \in Entries :
       /\ e.kind \in {"none", "file", "link", "dir"}
       /\ e.kind = "none" => e = None
       /\ e.kind = "link" => e.to \in RestorePaths /\ e = Link(e.to)
       /\ e.kind = "dir" => e.ro \in BOOLEAN /\ e = Dir(e.ro)
  BY DEF Entries, File, Link, Dir, None

RestoreTypes ==
  /\ target \in [RestorePaths -> Entries]
  /\ rBefore \in [RestorePaths -> Entries]
  /\ rPc \in {"idle", "node", "open", "write", "rename"}
  /\ DOMAIN rTree = 1..Len(rTree) /\ Len(rTree) \in Nat
  /\ \A n \in DOMAIN rTree : rTree[n] \in TreeNodes
  /\ DepthFirst(rTree)
  /\ rOpts \in [overwrite : BOOLEAN, dry_run : BOOLEAN, preserve : BOOLEAN]
  /\ rSelected \subseteq FileNodes(rTree)
  /\ rNode \in Nat
  /\ result \in [files_restored : Nat, files_skipped : Nat, directories : Nat,
                 symlinks : Nat, errors : SUBSET Nat]
  /\ rFaulted \in BOOLEAN
  /\ restores \in Nat
  /\ restores = 0 => rPc = "idle"
  /\ rPc \in {"open", "write", "rename"} => rNode \in rSelected /\ ~rOpts.dry_run

\* What the steps of a restore have in common.
LEMMA NodeFacts ==
  ASSUME RestoreTypes
  PROVE  /\ \A n \in Nodes(rTree) :
              /\ n \in Nat /\ n >= 1 /\ n <= Len(rTree)
              /\ PathOf(n) \in RestorePaths /\ TmpOf(n) \in RestorePaths
              /\ TmpPath[PathOf(n)] \in RestorePaths
              /\ DirsAbove[PathOf(n)] \subseteq RestorePaths
              /\ rTree[n].kind \in {"file", "link", "dir"}
              /\ rTree[n].kind = "link" => rTree[n].to \in RestorePaths \cup {Outside}
              /\ rTree[n].kind = "dir" => rTree[n].ro \in BOOLEAN
         /\ FileNodes(rTree) \subseteq Nodes(rTree)
         /\ rSelected \subseteq Nodes(rTree)
BY RestoreAssumption DEF RestoreTypes, Nodes, PathOf, TmpOf, TreeNodes, FileNodes

LEMMA EndTypes ==
  ASSUME NEW t \in [RestorePaths -> Entries], NEW p \in RestorePaths
  PROVE  /\ Followed(t, p) \in RestorePaths
         /\ Followed(t, Followed(t, p)) \in RestorePaths
         /\ EndIn(t, p) \in RestorePaths
         /\ t[p].kind # "link" => EndIn(t, p) = p
         /\ t[p].kind = "link" /\ t[EndIn(t, p)].kind # "link" => EndIn(t, p) # p
<1>1. \A q \in RestorePaths : Followed(t, q) \in RestorePaths
  BY EntryKinds DEF Followed
<1>2. Followed(t, p) \in RestorePaths /\ Followed(t, Followed(t, p)) \in RestorePaths
      /\ EndIn(t, p) \in RestorePaths
  BY <1>1 DEF EndIn
<1>3. ASSUME t[p].kind # "link" PROVE EndIn(t, p) = p
  <2>1. Followed(t, p) = p
    BY <1>3 DEF Followed
  <2> QED BY <2>1 DEF EndIn
<1> QED BY <1>2, <1>3

LEMMA WithDirsTypes ==
  ASSUME RestoreTypes, NEW dirs
  PROVE  /\ WithDirs(dirs) \in [RestorePaths -> Entries]
         /\ \A p \in RestorePaths :
              WithDirs(dirs)[p] = IF p \in dirs /\ Kind(p) = "none" THEN Dir(FALSE) ELSE target[p]
BY EntryKinds DEF RestoreTypes, WithDirs

LEMMA RemovedTypes ==
  ASSUME RestoreTypes, NEW p \in RestorePaths
  PROVE  RemovedIn(target, p) \in [RestorePaths -> Entries]
BY EntryKinds DEF RestoreTypes, RemovedIn

LEMMA StartTypes ==
  ASSUME RestoreTypes, StartRestore
  PROVE  RestoreTypes'
<1>1. rTree' \in RestoreTrees \/ rTree' = rTree
  BY DEF StartRestore
<1>2. /\ DOMAIN rTree' = 1..Len(rTree') /\ Len(rTree') \in Nat
      /\ \A n \in DOMAIN rTree' : rTree'[n] \in TreeNodes
      /\ DepthFirst(rTree')
  BY <1>1, RestoreAssumption DEF RestoreTypes
<1>3. rOpts' \in [overwrite : BOOLEAN, dry_run : BOOLEAN, preserve : BOOLEAN]
  BY RestoreAssumption DEF StartRestore
<1>4. rSelected' \subseteq FileNodes(rTree')
  BY DEF StartRestore
<1>5. /\ target' \in [RestorePaths -> Entries] /\ rBefore' \in [RestorePaths -> Entries]
      /\ rPc' = "node" /\ rNode' = 1 /\ rFaulted' \in BOOLEAN
      /\ restores' \in Nat /\ restores' # 0
  <2>1. restores \in Nat /\ target \in [RestorePaths -> Entries]
    BY DEF RestoreTypes
  <2>2. restores' = restores + 1 /\ rFaulted' = FALSE /\ rBefore' = target /\ target' = target
        /\ rPc' = "node" /\ rNode' = 1
    BY DEF StartRestore
  <2>3. restores' \in Nat /\ restores' # 0
    BY <2>1, <2>2
  <2>4. rFaulted' \in BOOLEAN
    BY <2>2
  <2> QED BY <2>1, <2>2, <2>3, <2>4
<1>6. result' \in [files_restored : Nat, files_skipped : Nat, directories : Nat,
                   symlinks : Nat, errors : SUBSET Nat]
  BY DEF StartRestore, NoResult
<1> QED BY <1>2, <1>3, <1>4, <1>5, <1>6 DEF RestoreTypes

\* Of what a restore step does, the types know little.
LEMMA StepTypes ==
  ASSUME RestoreTypes, UNCHANGED Job,
         target' \in [RestorePaths -> Entries],
         rPc' \in {"idle", "node", "open", "write", "rename"},
         rPc # "idle", rNode' \in {rNode, rNode + 1},
         result' \in {result, [result EXCEPT !.files_skipped = @ + 1],
                      [result EXCEPT !.files_restored = @ + 1],
                      [result EXCEPT !.directories = @ + 1],
                      [result EXCEPT !.symlinks = @ + 1],
                      WithError(result), Skipped(WithError(result))},
         rFaulted' \in BOOLEAN,
         rPc' \in {"open", "write", "rename"} =>
           rNode' = rNode /\ rNode \in rSelected /\ ~rOpts.dry_run
  PROVE  RestoreTypes'
<1>1. result' \in [files_restored : Nat, files_skipped : Nat, directories : Nat,
                   symlinks : Nat, errors : SUBSET Nat]
  <2> DEFINE R == [files_restored : Nat, files_skipped : Nat, directories : Nat,
                   symlinks : Nat, errors : SUBSET Nat]
  <2>1. result \in R /\ rNode \in Nat
    BY DEF RestoreTypes
  <2>2. WithError(result) \in R
    BY <2>1 DEF WithError
  <2>3. \A r \in R : Skipped(r) \in R
    BY DEF Skipped
  <2>4. /\ [result EXCEPT !.files_skipped = @ + 1] \in R
        /\ [result EXCEPT !.files_restored = @ + 1] \in R
        /\ [result EXCEPT !.directories = @ + 1] \in R
        /\ [result EXCEPT !.symlinks = @ + 1] \in R
    BY <2>1
  <2> HIDE DEF R
  <2>5. result' \in R
    BY <2>1, <2>2, <2>3, <2>4
  <2> QED BY <2>5 DEF R
<1>2. rNode' \in Nat /\ (restores' = 0 => rPc' = "idle") /\ restores' \in Nat
  BY DEF RestoreTypes, Job
<1>3. /\ rTree' = rTree /\ rOpts' = rOpts /\ rSelected' = rSelected /\ rBefore' = rBefore
      /\ FileNodes(rTree)' = FileNodes(rTree)
  BY DEF Job, FileNodes
<1>4. /\ DOMAIN rTree' = 1..Len(rTree') /\ Len(rTree') \in Nat
      /\ \A n \in DOMAIN rTree' : rTree'[n] \in TreeNodes
      /\ DepthFirst(rTree')
  BY <1>3 DEF RestoreTypes
<1> QED BY <1>1, <1>2, <1>3, <1>4 DEF RestoreTypes

LEMMA ActionTypes ==
  ASSUME RestoreTypes, RestoreNext
  PROVE  RestoreTypes'
<1> USE NodeFacts
<1>a. rFaulted \in BOOLEAN /\ target \in [RestorePaths -> Entries]
  BY DEF RestoreTypes
<1>1. CASE StartRestore
  BY <1>1, StartTypes
<1>2. CASE EndRestore \/ CrashRestore
  BY <1>2, <1>a, StepTypes DEF EndRestore, CrashRestore, NoFault
<1>3. CASE SkipFiltered \/ RefuseExisting \/ ReadFails \/ CountDryRun \/ RestoreDirFails
           \/ ParentFails
  BY <1>3, <1>a, StepTypes
     DEF SkipFiltered, RefuseExisting, ReadFails, CountDryRun, RestoreDirFails, ParentFails,
         FailFile, FileReady, At, Advance, Fault, NoFault, Skipped, Job
<1>4. CASE RestoreDir
  <2>1. PathOf(rNode) \in RestorePaths /\ rTree[rNode].ro \in BOOLEAN
    BY <1>4 DEF RestoreDir, At
  <2>2. target' \in [RestorePaths -> Entries]
    <3>1. WithDirs({PathOf(rNode)} \cup DirsAbove[PathOf(rNode)]) \in [RestorePaths -> Entries]
      BY WithDirsTypes
    <3>2. Dir(rTree[rNode].ro) \in Entries
      BY <2>1, EntryKinds
    <3> QED BY <1>4, <1>a, <3>1, <3>2 DEF RestoreDir
  <2> QED BY <1>4, <2>2, <1>a, StepTypes DEF RestoreDir, At, Advance, NoFault
<1>5. CASE OpenTmp
  <2>1. target' \in [RestorePaths -> Entries]
    BY <1>5, WithDirsTypes DEF OpenTmp
  <2> QED BY <1>5, <2>1, <1>a, StepTypes DEF OpenTmp, FileReady, At, NoFault
<1>6. CASE BeginWrite \/ EndWrite
  <2>1. rNode \in rSelected /\ ~rOpts.dry_run /\ rNode \in Nodes(rTree)
    BY <1>6 DEF BeginWrite, EndWrite, RestoreTypes
  <2>2. target' \in [RestorePaths -> Entries]
    BY <1>6, <2>1, <1>a, EntryKinds DEF BeginWrite, EndWrite, Partial, RestoreTypes
  <2> QED BY <1>6, <2>1, <2>2, <1>a, StepTypes DEF BeginWrite, EndWrite, NoFault
<1>7. CASE WriteFails \/ RenameFails
  <2>1. rNode \in Nodes(rTree)
    BY <1>7 DEF WriteFails, RenameFails, RestoreTypes
  <2>2. target' \in [RestorePaths -> Entries]
    BY <1>7, <2>1, RemovedTypes DEF WriteFails, RenameFails
  <2> QED BY <1>7, <2>2, <1>a, StepTypes
          DEF WriteFails, RenameFails, FailFile, Advance, NoFault, Fault
<1>8. CASE Rename
  <2>1. rNode \in Nodes(rTree)
    BY <1>8 DEF Rename, RestoreTypes
  <2>2. target' \in [RestorePaths -> Entries]
    BY <1>8, <2>1, <1>a, EntryKinds DEF Rename
  <2> QED BY <1>8, <2>2, <1>a, StepTypes DEF Rename, Advance, NoFault
<1>9. CASE RestoreLink \/ RestoreLinkFails
  <2>1. rNode \in Nodes(rTree) /\ rTree[rNode].kind = "link"
    BY <1>9 DEF RestoreLink, RestoreLinkFails, At
  <2>2. Cleared(PathOf(rNode)) \in [RestorePaths -> Entries]
    BY <2>1, WithDirsTypes, RemovedTypes DEF Cleared
  <2>3. target' \in [RestorePaths -> Entries]
    BY <1>9, <2>1, <2>2, <1>a, EntryKinds
       DEF RestoreLink, RestoreLinkFails, LinkPossible, TargetValid
  <2> QED BY <1>9, <2>3, <1>a, StepTypes
          DEF RestoreLink, RestoreLinkFails, At, Advance, NoFault, Fault
<1> QED BY <1>1, <1>2, <1>3, <1>4, <1>5, <1>6, <1>7, <1>8, <1>9 DEF RestoreNext

LEMMA RestoreTypesAlways == RestoreSpec => []RestoreTypes
<1>1. RestoreInit => RestoreTypes
  <2> SUFFICES ASSUME RestoreInit PROVE RestoreTypes
    OBVIOUS
  <2>1. target \in [RestorePaths -> Entries] /\ rBefore = target
    BY RestoreAssumption DEF RestoreInit
  <2>2. rTree = <<>> /\ DOMAIN rTree = 1..Len(rTree) /\ Len(rTree) = 0 /\ DOMAIN rTree = {}
    BY DEF RestoreInit
  <2>3. DepthFirst(rTree)
    BY <2>2 DEF DepthFirst
  <2>4. result \in [files_restored : Nat, files_skipped : Nat, directories : Nat,
                    symlinks : Nat, errors : SUBSET Nat]
    BY DEF RestoreInit, NoResult
  <2> QED BY <2>1, <2>2, <2>3, <2>4 DEF RestoreInit, RestoreTypes
<1>2. RestoreTypes /\ [RestoreNext]_restoreVars => RestoreTypes'
  <2>1. CASE UNCHANGED restoreVars
    BY <2>1 DEF restoreVars, RestoreTypes, FileNodes, Nodes
  <2> QED BY <2>1, ActionTypes
<1> QED BY <1>1, <1>2, PTL DEF RestoreSpec

-----------------------------------------------------------------------------
\* Where links lead, and what a step may do to a path.

\* Every link of the target is one that Leads knows of.
LinksKnown == \A p \in RestorePaths : target[p].kind = "link" => target[p].to \in Leads(p)

\* What was at the path may be gone.
MayChange(p) ==
  \/ rBefore[p].kind = "none"
  \/ ~rOpts.dry_run
     /\ \/ p \in AllTmpPaths
        \/ \E n \in Nodes(rTree) : PathOf(n) = p /\ rOpts.overwrite
        \/ LeadsNowhere(p)

KeptAt(p) ==
  \/ target[p] = rBefore[p]
  \/ rBefore[p].kind = "dir" /\ Kind(p) = "dir" /\ rOpts.preserve /\ ~rOpts.dry_run
  \/ MayChange(p)

LEMMA KeptEverywhere == UserFilesKept <=> \A p \in RestorePaths : KeptAt(p)
  BY DEF UserFilesKept, KeptAt, MayChange

\* While a file is written, its place may change, and the temporary name leads
\* to a file.
WriteOK ==
  /\ rPc \in {"open", "write", "rename"} => rNode \in FileNodes(rTree) /\ MayChange(PathOf(rNode))
  /\ rPc \in {"write", "rename"} => Kind(WrittenAt(TmpOf(rNode))) = "file"
  /\ rPc = "rename" => target[WrittenAt(TmpOf(rNode))] = File(rNode)

RestoreInv == LinksKnown /\ WriteOK /\ UserFilesKept /\ NoPartialFiles /\ RestoredOrReported

\* What a step does to a path: nothing, a directory is made; what the file is
\* written through is written or removed; the node's own path gets what it is
\* to hold; a directory gets its mode.
StepAt(p) ==
  \/ target'[p] = target[p]
  \/ target[p].kind = "none" /\ target'[p] = Dir(FALSE)
  \/ /\ p \in TmpPaths(rNode) /\ rNode \in rSelected /\ ~rOpts.dry_run
     /\ target'[p] \in {None, File(Partial), File(rNode)}
  \/ /\ rNode \in Nodes(rTree) /\ p = PathOf(rNode) /\ MayChange(p)
     /\ target'[p] # File(Partial)
     /\ target'[p].kind = "link" => target'[p].to \in Leads(p)
  \/ /\ rNode \in Nodes(rTree) /\ p = PathOf(rNode) /\ rTree[rNode].kind = "dir"
     /\ target[p].kind \in {"none", "dir"}
     /\ rOpts.preserve /\ ~rOpts.dry_run
     /\ \E ro \in BOOLEAN : target'[p] = Dir(ro)

\* The node the step has passed is accounted for.
Accounted ==
  \A n \in Nodes(rTree) :
    n = rNode /\ rNode' = n + 1 /\ ~rOpts.dry_run /\ ~Disturbed(n)
      /\ n \notin FileNodes(rTree) \ rSelected
    => InPlace(n)' \/ n \in result'.errors

\* What depends only on the job does not change, or only grows.
LEMMA JobKept ==
  ASSUME RestoreTypes, UNCHANGED Job, rNode' \in {rNode, rNode + 1}
  PROVE  /\ rTree' = rTree /\ rOpts' = rOpts /\ rSelected' = rSelected /\ rBefore' = rBefore
         /\ \A p : Leads(p)' = Leads(p)
         /\ \A n : TmpPaths(n)' = TmpPaths(n)
         /\ AllTmpPaths \subseteq AllTmpPaths'
         /\ \A p : LeadsNowhere(p) => LeadsNowhere(p)'
         /\ \A p : MayChange(p) => MayChange(p)'
         /\ \A n : Disturbed(n)' <=> Disturbed(n)
<1>1. rTree' = rTree /\ rOpts' = rOpts /\ rSelected' = rSelected /\ rBefore' = rBefore
  BY DEF Job
<1>2. \A p : Led(p)' = Led(p)
  BY <1>1 DEF Led, Nodes, PathOf
<1>3. \A p : Leads(p)' = Leads(p)
  BY <1>1, <1>2 DEF Leads, FileNodes, Nodes, PathOf
<1>4. \A S : Further(S)' = Further(S)
  BY <1>3 DEF Further
<1>5. \A n : TmpPaths(n)' = TmpPaths(n)
  BY <1>1, <1>4 DEF TmpPaths, PathOf
<1>6. AllTmpPaths \subseteq AllTmpPaths'
  <2>1. \A n \in rSelected : n <= rNode => n <= rNode'
    BY NodeFacts DEF RestoreTypes
  <2> QED BY <1>1, <1>5, <2>1 DEF AllTmpPaths
<1>7. \A p : LeadsNowhere(p) => LeadsNowhere(p)'
  <2>1. \A p : EndIn(rBefore, p)' = EndIn(rBefore, p) /\ Followed(rBefore, p)' = Followed(rBefore, p)
    BY <1>1 DEF EndIn, Followed
  <2> QED BY <1>1, <1>6, <2>1 DEF LeadsNowhere, Followed
<1>8. \A p : MayChange(p) => MayChange(p)'
  BY <1>1, <1>6, <1>7 DEF MayChange, Nodes, PathOf
<1>9. \A n : Disturbed(n)' <=> Disturbed(n)
  BY <1>1, <1>5 DEF Disturbed, FileNodes, Nodes, PathOf
<1> QED BY <1>1, <1>3, <1>5, <1>6, <1>7, <1>8, <1>9

LEMMA StepKeeps ==
  ASSUME RestoreTypes, RestoreTypes', RestoreInv, UNCHANGED Job, rNode' \in {rNode, rNode + 1},
         \A p \in RestorePaths : StepAt(p),
         Accounted, result.errors \subseteq result'.errors
  PROVE  LinksKnown' /\ UserFilesKept' /\ NoPartialFiles' /\ RestoredOrReported'
<1>1. /\ rTree' = rTree /\ rOpts' = rOpts /\ rSelected' = rSelected /\ rBefore' = rBefore
      /\ \A p : Leads(p)' = Leads(p)
      /\ \A n : TmpPaths(n)' = TmpPaths(n)
      /\ AllTmpPaths \subseteq AllTmpPaths'
      /\ \A p : MayChange(p) => MayChange(p)'
      /\ \A n : Disturbed(n)' <=> Disturbed(n)
  BY JobKept
<1>2. \A p \in TmpPaths(rNode) : rNode \in rSelected => p \in AllTmpPaths
  BY DEF AllTmpPaths, RestoreTypes
<1>3. LinksKnown'
  <2> SUFFICES ASSUME NEW p \in RestorePaths, target'[p].kind = "link"
               PROVE  target'[p].to \in Leads(p)
    BY <1>1 DEF LinksKnown
  <2>1. StepAt(p)
    OBVIOUS
  <2> QED BY <2>1, EntryKinds DEF StepAt, RestoreInv, LinksKnown
<1>4. UserFilesKept'
  <2> SUFFICES ASSUME NEW p \in RestorePaths PROVE KeptAt(p)'
    BY DEF UserFilesKept, KeptAt, MayChange
  <2>1. StepAt(p) /\ KeptAt(p)
    BY KeptEverywhere DEF RestoreInv
  <2>2. CASE MayChange(p)
    BY <2>2, <1>1 DEF KeptAt
  <2>3. CASE target'[p] = target[p]
    BY <2>1, <2>3, <1>1 DEF KeptAt, Kind
  <2>4. CASE target[p].kind = "none" /\ target'[p] = Dir(FALSE)
    BY <2>1, <2>2, <2>4, EntryKinds DEF KeptAt, Kind, MayChange
  <2>5. CASE p \in TmpPaths(rNode) /\ rNode \in rSelected /\ ~rOpts.dry_run
    BY <2>5, <2>2, <1>2 DEF MayChange
  <2>6. CASE /\ target[p].kind \in {"none", "dir"}
             /\ rOpts.preserve /\ ~rOpts.dry_run
             /\ \E ro \in BOOLEAN : target'[p] = Dir(ro)
    <3>1. target'[p].kind = "dir" /\ rOpts'.preserve /\ ~rOpts'.dry_run
      BY <2>6, <1>1, EntryKinds
    <3>2. CASE MayChange(p)
      BY <3>2, <2>2
    <3>3. CASE rBefore[p] = target[p] /\ ~MayChange(p)
      BY <3>1, <3>3, <2>6, <1>1 DEF KeptAt, Kind, MayChange
    <3>4. CASE rBefore[p].kind = "dir"
      BY <3>1, <3>4, <1>1 DEF KeptAt, Kind
    <3> QED BY <2>1, <3>2, <3>3, <3>4 DEF KeptAt
  <2> QED BY <2>1, <2>2, <2>3, <2>4, <2>5, <2>6 DEF StepAt
<1>5. NoPartialFiles'
  <2> SUFFICES ASSUME NEW p \in RestorePaths, target'[p] = File(Partial)
               PROVE  p \in AllTmpPaths' \/ rBefore'[p] = File(Partial)
    BY DEF NoPartialFiles
  <2>1. StepAt(p)
    OBVIOUS
  <2>2. target'[p].kind = "file"
    BY EntryKinds
  <2>3. target'[p] = target[p] \/ (p \in TmpPaths(rNode) /\ rNode \in rSelected)
    BY <2>1, <2>2, EntryKinds DEF StepAt
  <2> QED BY <2>3, <1>1, <1>2 DEF RestoreInv, NoPartialFiles
<1>6. RestoredOrReported'
  <2> SUFFICES ASSUME NEW n \in Nodes(rTree), Passed(n)', ~Disturbed(n),
                      n \notin FileNodes(rTree) \ rSelected
               PROVE  InPlace(n)' \/ n \in result'.errors
    BY <1>1 DEF RestoredOrReported, Nodes, FileNodes
  <2>1. n < rNode' /\ ~rOpts.dry_run /\ n \in Nat /\ rNode \in Nat
    BY <1>1, NodeFacts DEF Passed, RestoreTypes
  <2>2. CASE n = rNode
    <3>1. rNode' = rNode + 1
      BY <2>1, <2>2
    <3> QED BY <3>1, <2>1, <2>2 DEF Accounted
  <2>3. CASE n # rNode
    <3>1. Passed(n)
      BY <2>1, <2>3 DEF Passed
    <3>2. InPlace(n) \/ n \in result.errors
      BY <3>1 DEF RestoreInv, RestoredOrReported
    <3>3. ASSUME InPlace(n) PROVE InPlace(n)'
      <4> DEFINE p == PathOf(n)
      <4>1. p \in RestorePaths /\ StepAt(p) /\ rTree[n].kind \in {"file", "link", "dir"}
            /\ p = rTree[n].path
        BY NodeFacts DEF PathOf
      <4>2. rNode \in Nodes(rTree) => p # PathOf(rNode)
        BY <2>3 DEF Disturbed
      <4>3. ~(rNode \in rSelected /\ p \in TmpPaths(rNode))
        BY <2>3 DEF Disturbed, RestoreTypes
      <4> HIDE DEF p
      <4>4. target[p].kind # "none"
        BY <3>3, <4>1, EntryKinds DEF InPlace
      <4>5. target'[p] = target[p]
        BY <4>1, <4>2, <4>3, <4>4 DEF StepAt
      <4> QED BY <3>3, <4>1, <4>5, <1>1 DEF InPlace
    <3> QED BY <3>2, <3>3
  <2> QED BY <2>2, <2>3
<1> QED BY <1>3, <1>4, <1>5, <1>6

-----------------------------------------------------------------------------
\* The steps of a restore, one by one.

\* What is written through a temporary name is among the paths it may lead to.
LEMMA WrittenKnown ==
  ASSUME RestoreTypes, LinksKnown, NEW n \in Nodes(rTree)
  PROVE  TmpOf(n) \in TmpPaths(n) /\ WrittenAt(TmpOf(n)) \in TmpPaths(n)
<1>1. ASSUME NEW S, NEW p \in RestorePaths, p \in S PROVE Followed(target, p) \in Further(S)
  BY <1>1 DEF Further, LinksKnown, Followed
<1>2. ASSUME NEW S, NEW p \in S PROVE p \in Further(S)
  BY <1>2 DEF Further
<1> DEFINE t == TmpOf(n)
<1>3. t \in RestorePaths /\ target \in [RestorePaths -> Entries]
  BY NodeFacts DEF RestoreTypes
<1>4. Followed(target, t) \in RestorePaths /\ Followed(target, Followed(target, t)) \in RestorePaths
  BY <1>3, EndTypes
<1> HIDE DEF t
<1>5. EndIn(target, t) \in Further(Further(Further({t})))
  BY <1>1, <1>3, <1>4 DEF EndIn
<1>6. t \in Further(Further(Further({t})))
  BY <1>2
<1> QED BY <1>5, <1>6 DEF TmpPaths, t, TmpOf, WrittenAt

\* Without overwrite, a place at which nothing exists is one that may change.
LEMMA MissingMayChange ==
  ASSUME RestoreTypes, UserFilesKept, NEW p \in RestorePaths,
         ~rOpts.overwrite, ~rOpts.dry_run, ~Exists(p)
  PROVE  MayChange(p)
<1> SUFFICES ASSUME ~MayChange(p) PROVE FALSE
  OBVIOUS
<1>1. /\ target \in [RestorePaths -> Entries] /\ rBefore \in [RestorePaths -> Entries]
      /\ \A q \in RestorePaths : KeptAt(q)
  BY KeptEverywhere DEF RestoreTypes
<1>2. target[p].kind = "link"
  <2>1. target[p].kind \in {"none", "file", "link", "dir"} /\ rBefore[p].kind # "none"
    BY <1>1, EntryKinds DEF MayChange
  <2>2. target[p].kind # "none"
    BY <1>1, <2>1, EntryKinds DEF KeptAt, Kind
  <2>3. target[p].kind # "link" => EndIn(target, p) = p
    BY <1>1, EndTypes
  <2> QED BY <2>1, <2>2, <2>3 DEF Exists, Kind
<1>3. target[p] = rBefore[p]
  BY <1>1, <1>2 DEF KeptAt, Kind
<1> DEFINE first == rBefore[p].to
           second == Followed(rBefore, first)
           third == Followed(rBefore, second)
<1>4. first \in RestorePaths /\ first = Followed(rBefore, p) /\ first = Followed(target, p)
  BY <1>1, <1>2, <1>3, EntryKinds DEF Followed
<1>5. second \in RestorePaths /\ third \in RestorePaths /\ third = EndIn(rBefore, p)
  BY <1>1, <1>4, EndTypes DEF EndIn
<1>6. /\ rBefore[third].kind \in {"file", "dir"}
      /\ {first, second, third} \cap AllTmpPaths = {}
  <2>1. ~LeadsNowhere(p)
    BY DEF MayChange
  <2> QED BY <2>1, <1>1, <1>2, <1>3, <1>5, EntryKinds DEF LeadsNowhere
<1> HIDE DEF first, second, third
<1>7. third = Followed(rBefore, second) /\ second = Followed(rBefore, first)
  BY DEF second, third
<1>8. ASSUME NEW q \in {first, second, third}
      PROVE  /\ target[q] = rBefore[q] \/ (rBefore[q].kind = "dir" /\ target[q].kind = "dir")
  <2>1. q \in RestorePaths /\ q \notin AllTmpPaths
    BY <1>4, <1>5, <1>6
  <2>2. rBefore[q].kind # "none"
    BY <1>6, <1>7 DEF Followed
  <2>3. ~LeadsNowhere(q)
    <3> SUFFICES ASSUME rBefore[q].kind = "link"
                 PROVE  /\ rBefore[EndIn(rBefore, q)].kind \in {"file", "dir"}
                        /\ {rBefore[q].to, Followed(rBefore, rBefore[q].to),
                            Followed(rBefore, Followed(rBefore, rBefore[q].to))}
                              \cap AllTmpPaths = {}
      BY DEF LeadsNowhere
    <3>1. Followed(rBefore, third) = third
      BY <1>6 DEF Followed
    <3>2. q # third /\ rBefore[q].to = Followed(rBefore, q)
      BY <1>6 DEF Followed
    <3>3. CASE q = second
      BY <3>1, <3>2, <3>3, <1>6, <1>7 DEF EndIn
    <3>4. CASE q = first
      BY <3>1, <3>2, <3>4, <1>6, <1>7 DEF EndIn
    <3> QED BY <3>2, <3>3, <3>4
  <2>4. ~MayChange(q)
    BY <2>1, <2>2, <2>3 DEF MayChange
  <2> QED BY <2>1, <2>4, <1>1 DEF KeptAt, Kind
<1>9. \A q \in {first, second, third} : Followed(target, q) = Followed(rBefore, q)
  BY <1>8 DEF Followed
<1>10. EndIn(target, p) = third
  BY <1>4, <1>7, <1>9 DEF EndIn
<1> QED BY <1>6, <1>8, <1>10 DEF Exists, Kind

\* Writing into a file that is there, or is not, leaves every link as it is.
LEMMA LinksLeft ==
  ASSUME RestoreTypes, NEW w \in RestorePaths, target[w].kind # "link", NEW x,
         target' = [target EXCEPT ![w] = File(x)]
  PROVE  \A p \in RestorePaths : EndIn(target', p) = EndIn(target, p)
<1>1. \A p \in RestorePaths : Followed(target', p) = Followed(target, p)
  BY EntryKinds DEF Followed, RestoreTypes
<1> QED BY <1>1, EndTypes DEF EndIn, RestoreTypes

LEMMA StartKeeps ==
  ASSUME RestoreTypes', StartRestore
  PROVE  RestoreInv'
<1>1. target' = rBefore' /\ rPc' = "node" /\ rNode' = 1
  BY DEF StartRestore
<1>2. LinksKnown'
  <2>1. \A p \in RestorePaths : target'[p].kind = "link" => target'[p].to \in RestorePaths
    BY EntryKinds DEF RestoreTypes
  <2> QED BY <1>1, <2>1 DEF LinksKnown, Leads, Led
<1>3. RestoredOrReported'
  <2>1. \A n \in Nodes(rTree)' : ~(n < 1)
    BY DEF RestoreTypes, Nodes
  <2> QED BY <1>1, <2>1 DEF RestoredOrReported, Passed
<1> QED BY <1>1, <1>2, <1>3 DEF RestoreInv, WriteOK, UserFilesKept, NoPartialFiles

\* The steps that leave the target directory alone.
LEMMA RestIdleSteps ==
  ASSUME RestoreTypes, RestoreTypes', RestoreInv,
         \/ SkipFiltered \/ RefuseExisting \/ ReadFails \/ CountDryRun \/ RestoreDirFails
         \/ ParentFails \/ EndRestore \/ CrashRestore
  PROVE  RestoreInv'
<1>1. /\ UNCHANGED Job /\ rNode' \in {rNode, rNode + 1} /\ target' = target
      /\ rPc' \in {"node", "idle"}
  BY DEF SkipFiltered, RefuseExisting, ReadFails, CountDryRun, RestoreDirFails, ParentFails,
         EndRestore, CrashRestore, FailFile, FileReady, Advance
<1>2. result.errors \subseteq result'.errors
  BY DEF SkipFiltered, RefuseExisting, ReadFails, CountDryRun, RestoreDirFails, ParentFails,
         EndRestore, CrashRestore, FailFile, Skipped, WithError, RestoreTypes
<1>3. Accounted
  <2>1. CASE SkipFiltered
    BY <2>1 DEF SkipFiltered, Accounted, At, FileNodes
  <2>2. CASE CountDryRun
    BY <2>2 DEF CountDryRun, Accounted
  <2>3. CASE RefuseExisting \/ ReadFails \/ RestoreDirFails \/ ParentFails
    <3>1. result' \in {WithError(result), Skipped(WithError(result))}
      BY <2>3 DEF RefuseExisting, ReadFails, RestoreDirFails, ParentFails, FailFile
    <3>2. WithError(result).errors = result.errors \cup {rNode}
      BY DEF WithError, RestoreTypes
    <3>3. Skipped(WithError(result)).errors = WithError(result).errors
      BY DEF WithError, Skipped, RestoreTypes
    <3>4. rNode \in result'.errors
      BY <3>1, <3>2, <3>3
    <3> QED BY <3>4 DEF Accounted
  <2>4. CASE EndRestore \/ CrashRestore
    BY <2>4, NodeFacts DEF EndRestore, CrashRestore, Accounted
  <2> QED BY <2>1, <2>2, <2>3, <2>4
<1>4. \A p \in RestorePaths : StepAt(p)
  BY <1>1 DEF StepAt
<1>5. WriteOK'
  BY <1>1 DEF WriteOK
<1> QED BY <1>1, <1>2, <1>3, <1>4, <1>5, StepKeeps DEF RestoreInv

LEMMA RestoreDirKeeps ==
  ASSUME RestoreTypes, RestoreTypes', RestoreInv, RestoreDir
  PROVE  RestoreInv'
<1> DEFINE p == PathOf(rNode)
           dirs == {p} \cup DirsAbove[p]
<1>1. /\ UNCHANGED Job /\ rNode' = rNode + 1 /\ rPc' = "node"
      /\ rNode \in Nodes(rTree) /\ rTree[rNode].kind = "dir"
      /\ result' = [result EXCEPT !.directories = @ + 1]
  BY DEF RestoreDir, At, Advance
<1>2. /\ result.errors \subseteq result'.errors
      /\ p \in RestorePaths /\ rTree[rNode].ro \in BOOLEAN /\ DirsAbove[p] \subseteq RestorePaths
  BY <1>1, NodeFacts DEF RestoreTypes
<1>3. CASE rOpts.dry_run
  <2>1. target' = target
    BY <1>3 DEF RestoreDir
  <2>2. Accounted
    BY <1>3 DEF Accounted
  <2> QED BY <1>1, <1>2, <2>1, <2>2, StepKeeps DEF RestoreInv, StepAt, WriteOK
<1>4. CASE ~rOpts.dry_run
  <2>1. /\ DirsCanExist(dirs)
        /\ target' = IF rOpts.preserve THEN [WithDirs(dirs) EXCEPT ![p] = Dir(rTree[rNode].ro)]
                     ELSE WithDirs(dirs)
    BY <1>4 DEF RestoreDir
  <2>2. \A q \in dirs : target[q].kind \in {"none", "dir"}
    BY <2>1 DEF DirsCanExist, CanCreateIn, Kind
  <2> HIDE DEF dirs, p
  <2>3. /\ WithDirs(dirs) \in [RestorePaths -> Entries]
        /\ \A q \in RestorePaths :
             WithDirs(dirs)[q] = IF q \in dirs /\ Kind(q) = "none" THEN Dir(FALSE) ELSE target[q]
    BY WithDirsTypes
  <2>4. p \in dirs /\ p = PathOf(rNode)
    BY DEF dirs, p
  <2>5. \A q \in RestorePaths : q # p \/ ~rOpts.preserve =>
             target'[q] = target[q] \/ (target[q].kind = "none" /\ target'[q] = Dir(FALSE))
    BY <1>2, <2>1, <2>3 DEF Kind
  <2>6. rOpts.preserve => target'[p] = Dir(rTree[rNode].ro)
    BY <1>2, <2>1, <2>3
  <2>7. \A q \in RestorePaths : StepAt(q)
    BY <1>1, <1>2, <1>4, <2>2, <2>4, <2>5, <2>6 DEF StepAt
  <2>8. target'[p].kind = "dir"
    BY <1>2, <2>2, <2>3, <2>4, <2>1, <2>6, EntryKinds DEF Kind
  <2>9. Accounted
    BY <1>1, <2>4, <2>8 DEF Accounted, InPlace, PathOf, Job
  <2> QED BY <1>1, <1>2, <2>7, <2>9, StepKeeps DEF RestoreInv, WriteOK
<1> QED BY <1>3, <1>4

\* Directories are made, and the file is about to be written.
LEMMA OpenTmpKeeps ==
  ASSUME RestoreTypes, RestoreTypes', RestoreInv, OpenTmp
  PROVE  RestoreInv'
<1> DEFINE dirs == DirsAbove[PathOf(rNode)]
<1>1. /\ UNCHANGED Job /\ rNode' = rNode /\ rPc' = "open" /\ result' = result
      /\ rNode \in FileNodes(rTree) /\ rNode \in Nodes(rTree) /\ ~rOpts.dry_run
      /\ target' = WithDirs(dirs)
      /\ ~Refused
  BY DEF OpenTmp, FileReady, At, FileNodes
<1>2. MayChange(PathOf(rNode))
  <2>1. PathOf(rNode) \in RestorePaths
    BY <1>1, NodeFacts
  <2>2. CASE rOpts.overwrite
    BY <1>1, <2>2 DEF MayChange
  <2>3. CASE ~rOpts.overwrite
    BY <1>1, <2>1, <2>3, MissingMayChange DEF Refused, RestoreInv
  <2> QED BY <2>2, <2>3
<1>3. WriteOK'
  <2>1. MayChange(PathOf(rNode))'
    BY <1>1, <1>2, JobKept DEF PathOf
  <2> QED BY <1>1, <2>1 DEF WriteOK, Job, FileNodes, Nodes
<1>4. \A p \in RestorePaths : StepAt(p)
  <2> HIDE DEF dirs
  <2> QED BY <1>1, WithDirsTypes DEF StepAt, Kind
<1>5. Accounted
  BY <1>1, NodeFacts DEF Accounted
<1> QED BY <1>1, <1>3, <1>4, <1>5, StepKeeps DEF RestoreInv

\* The file is written through its temporary name, in part or to its end.
LEMMA WriteKeeps ==
  ASSUME RestoreTypes, RestoreTypes', RestoreInv, BeginWrite \/ EndWrite
  PROVE  RestoreInv'
<1> DEFINE t == TmpOf(rNode)
           w == WrittenAt(t)
<1>1. /\ UNCHANGED Job /\ rNode' = rNode /\ result' = result
      /\ rPc \in {"open", "write"} /\ rPc' \in {"write", "rename"}
      /\ rPc' = "write" => target' = [target EXCEPT ![w] = File(Partial)] /\ BeginWrite
      /\ rPc' = "rename" => target' = [target EXCEPT ![w] = File(rNode)] /\ EndWrite
  BY DEF BeginWrite, EndWrite
<1>2. /\ rNode \in FileNodes(rTree) /\ rNode \in Nodes(rTree) /\ rNode \in rSelected
      /\ ~rOpts.dry_run /\ MayChange(PathOf(rNode))
  BY <1>1 DEF RestoreTypes, RestoreInv, WriteOK, FileNodes
<1>3. /\ t \in RestorePaths /\ w \in RestorePaths
      /\ target \in [RestorePaths -> Entries]
  BY <1>2, NodeFacts, EndTypes DEF RestoreTypes, WrittenAt
<1>4. w \in TmpPaths(rNode)
  BY <1>2, WrittenKnown DEF RestoreInv
<1>5. target[w].kind # "link"
  <2>1. CASE BeginWrite
    BY <2>1 DEF BeginWrite, CanWrite, Kind
  <2>2. CASE EndWrite
    BY <2>2 DEF EndWrite, RestoreInv, WriteOK, Kind
  <2> QED BY <2>1, <2>2
<1> HIDE DEF w, t
<1>6. PICK x \in {Partial, rNode} : target' = [target EXCEPT ![w] = File(x)]
                                    /\ (rPc' = "rename" => x = rNode)
  BY <1>1
<1>7. EndIn(target', t) = w
  BY <1>3, <1>5, <1>6, LinksLeft DEF w, WrittenAt
<1>8. WriteOK'
  <2>1. MayChange(PathOf(rNode))'
    BY <1>1, <1>2, JobKept DEF PathOf
  <2>2. TmpOf(rNode)' = t /\ WrittenAt(TmpOf(rNode))' = w
    BY <1>1, <1>7 DEF t, TmpOf, PathOf, Job, WrittenAt
  <2>3. target'[w] = File(x) /\ target'[w].kind = "file"
    BY <1>3, <1>6, EntryKinds
  <2> QED BY <1>1, <1>2, <1>6, <2>1, <2>2, <2>3 DEF WriteOK, Job, FileNodes, Nodes, Kind
<1>9. \A p \in RestorePaths : StepAt(p)
  BY <1>2, <1>3, <1>4, <1>6 DEF StepAt
<1>10. Accounted
  BY <1>1, NodeFacts DEF Accounted
<1> QED BY <1>1, <1>8, <1>9, <1>10, StepKeeps DEF RestoreInv

\* A write or a rename fails: what has the temporary name is removed.
LEMMA FailKeeps ==
  ASSUME RestoreTypes, RestoreTypes', RestoreInv, WriteFails \/ RenameFails
  PROVE  RestoreInv'
<1> DEFINE t == TmpOf(rNode)
<1>1. /\ UNCHANGED Job /\ rNode' = rNode + 1 /\ rPc' = "node"
      /\ result' = Skipped(WithError(result)) /\ target' = RemovedIn(target, t)
      /\ rPc \in {"open", "write", "rename"}
  BY DEF WriteFails, RenameFails, FailFile, Advance
<1>2. /\ rNode \in Nodes(rTree) /\ rNode \in rSelected /\ ~rOpts.dry_run
  BY <1>1, NodeFacts DEF RestoreTypes
<1>3. t \in TmpPaths(rNode)
  BY <1>2, WrittenKnown DEF RestoreInv
<1>4. \A p \in RestorePaths : StepAt(p)
  <2> HIDE DEF t
  <2> QED BY <1>1, <1>2, <1>3 DEF StepAt, RemovedIn, RestoreTypes
<1>5. result.errors \subseteq result'.errors /\ rNode \in result'.errors
  <2>1. WithError(result).errors = result.errors \cup {rNode}
    BY DEF WithError, RestoreTypes
  <2>2. Skipped(WithError(result)).errors = WithError(result).errors
    BY DEF WithError, Skipped, RestoreTypes
  <2> QED BY <1>1, <2>1, <2>2
<1> QED BY <1>1, <1>4, <1>5, StepKeeps DEF RestoreInv, WriteOK, Accounted

LEMMA RenameKeeps ==
  ASSUME RestoreTypes, RestoreTypes', RestoreInv, Rename
  PROVE  RestoreInv'
<1> DEFINE t == TmpOf(rNode)
           p == PathOf(rNode)
<1>1. /\ UNCHANGED Job /\ rNode' = rNode + 1 /\ rPc' = "node" /\ rPc = "rename"
      /\ result' = [result EXCEPT !.files_restored = @ + 1]
      /\ target' = [[target EXCEPT ![t] = None] EXCEPT ![p] = target[t]]
  BY DEF Rename, Advance
<1>2. /\ rNode \in FileNodes(rTree) /\ rNode \in Nodes(rTree) /\ rNode \in rSelected
      /\ ~rOpts.dry_run /\ MayChange(p)
      /\ target[WrittenAt(t)] = File(rNode)
  BY <1>1 DEF RestoreTypes, RestoreInv, WriteOK, FileNodes
<1>3. /\ t \in RestorePaths /\ p \in RestorePaths /\ t = TmpPath[p]
      /\ target \in [RestorePaths -> Entries] /\ rTree[rNode].kind = "file"
      /\ rNode \in Nat /\ rNode >= 1
  BY <1>2, NodeFacts DEF RestoreTypes, TmpOf, FileNodes
<1>4. t \in TmpPaths(rNode) /\ WrittenAt(t) \in TmpPaths(rNode)
  BY <1>2, WrittenKnown DEF RestoreInv
<1>5. target[t].kind # "link" => target[t] = File(rNode)
  BY <1>2, <1>3, EndTypes DEF WrittenAt
<1>6. File(rNode) # File(Partial)
  BY <1>3, EntryKinds DEF Partial
<1>7. target[t].kind = "link" => target[t].to \in Leads(p)
  <2> SUFFICES ASSUME target[t].kind = "link" PROVE target[t].to \in Leads(p)
    OBVIOUS
  <2>1. target[t].to \in Leads(t)
    BY <1>3 DEF RestoreInv, LinksKnown
  <2>2. TmpPath[t] = t
    BY <1>3, RestoreAssumption
  <2>3. target[t].to \in Led(t)
    BY <2>1, <2>2 DEF Leads
  <2> QED BY <1>2, <1>3, <2>3 DEF Leads
<1>8. target[t] # File(Partial)
  BY <1>5, <1>6, EntryKinds
<1>9. ~Disturbed(rNode) => target[t] = File(rNode)
  BY <1>2, <1>3, <1>4 DEF Disturbed
<1>10. p = rTree[rNode].path /\ p = PathOf(rNode)
  BY DEF PathOf
<1> HIDE DEF t, p
<1>11. target'[p] = target[t]
       /\ \A q \in RestorePaths : q # p => target'[q] = IF q = t THEN None ELSE target[q]
  BY <1>1, <1>3
<1>12. \A q \in RestorePaths : StepAt(q)
  BY <1>2, <1>4, <1>7, <1>8, <1>10, <1>11 DEF StepAt
<1>13. Accounted
  BY <1>1, <1>3, <1>9, <1>10, <1>11 DEF Accounted, InPlace, Job
<1>14. result.errors \subseteq result'.errors
  BY <1>1 DEF RestoreTypes
<1> QED BY <1>1, <1>12, <1>13, <1>14, StepKeeps DEF RestoreInv, WriteOK

LEMMA LinkKeeps ==
  ASSUME RestoreTypes, RestoreTypes', RestoreInv, RestoreLink \/ RestoreLinkFails
  PROVE  RestoreInv'
<1> DEFINE p == PathOf(rNode)
           to == rTree[rNode].to
<1>1. /\ UNCHANGED Job /\ rNode' = rNode + 1 /\ rPc' = "node"
      /\ rNode \in Nodes(rTree) /\ rTree[rNode].kind = "link"
      /\ result' \in {[result EXCEPT !.symlinks = @ + 1], WithError(result)}
  BY DEF RestoreLink, RestoreLinkFails, At, Advance
<1>2. /\ p \in RestorePaths /\ to \in RestorePaths \cup {Outside}
      /\ DirsAbove[p] \subseteq RestorePaths /\ target \in [RestorePaths -> Entries]
      /\ p = rTree[rNode].path
  BY <1>1, NodeFacts DEF RestoreTypes, PathOf
<1>3. result.errors \subseteq result'.errors
  <2>1. WithError(result).errors = result.errors \cup {rNode}
    BY DEF WithError, RestoreTypes
  <2>2. [result EXCEPT !.symlinks = @ + 1].errors = result.errors
    BY DEF RestoreTypes
  <2> QED BY <1>1, <2>1, <2>2
\* Clearing the way makes directories or, with overwrite, removes what is at p.
<1>4. /\ Cleared(p) \in [RestorePaths -> Entries]
      /\ \A q \in RestorePaths :
           \/ Cleared(p)[q] = target[q]
           \/ target[q].kind = "none" /\ Cleared(p)[q] = Dir(FALSE)
           \/ q = p /\ rOpts.overwrite /\ Cleared(p)[q] = None
  <2>1. CASE rOpts.overwrite /\ Exists(p)
    <3>1. Cleared(p) = RemovedIn(target, p)
      BY <2>1 DEF Cleared
    <3> HIDE DEF p
    <3> QED BY <1>2, <2>1, <3>1, RemovedTypes DEF RemovedIn
  <2>2. CASE ~(rOpts.overwrite /\ Exists(p))
    <3>1. Cleared(p) = WithDirs(DirsAbove[p])
      BY <2>2 DEF Cleared
    <3>2. /\ WithDirs(DirsAbove[p]) \in [RestorePaths -> Entries]
          /\ \A q \in RestorePaths :
               WithDirs(DirsAbove[p])[q] =
                 IF q \in DirsAbove[p] /\ Kind(q) = "none" THEN Dir(FALSE) ELSE target[q]
      BY WithDirsTypes
    <3> HIDE DEF p
    <3> QED BY <3>1, <3>2 DEF Kind
  <2> QED BY <2>1, <2>2
<1>5. rOpts.overwrite /\ ~rOpts.dry_run => MayChange(p)
  BY <1>1, <1>2 DEF MayChange
<1>6. None # File(Partial) /\ None.kind # "link" /\ \A q : Link(q) # File(Partial)
  BY EntryKinds
<1>7. CASE target' \in {target, Cleared(p)} /\ (target' = target \/ ~rOpts.dry_run)
    /\ rNode \in result'.errors
  <2> HIDE DEF p
  <2>1. \A q \in RestorePaths : StepAt(q)
    BY <1>1, <1>2, <1>4, <1>5, <1>6, <1>7 DEF StepAt, p
  <2> QED BY <1>1, <1>3, <1>7, <2>1, StepKeeps DEF RestoreInv, WriteOK, Accounted
<1>8. CASE rOpts.dry_run /\ target' = target
  <2>1. \A q \in RestorePaths : StepAt(q)
    BY <1>8 DEF StepAt
  <2> QED BY <1>1, <1>3, <1>8, <2>1, StepKeeps DEF RestoreInv, WriteOK, Accounted
<1>9. CASE ~rOpts.dry_run /\ LinkPossible /\ target' = [Cleared(p) EXCEPT ![p] = Link(to)]
  <2>1. Cleared(p)[p].kind = "none" /\ to # Outside
    BY <1>9 DEF LinkPossible, TargetValid
  <2>2. to \in Leads(p)
    BY <1>1, <1>2, <2>1 DEF Leads, Led
  <2>3. MayChange(p)
    <3>1. CASE rOpts.overwrite
      BY <1>5, <1>9, <3>1
    <3>2. CASE ~rOpts.overwrite
      <4>1. target[p].kind = "none"
        BY <1>2, <1>4, <2>1, <3>2, EntryKinds
      <4>2. EndIn(target, p) = p
        BY <1>2, <4>1, EndTypes
      <4>3. ~Exists(p)
        BY <4>1, <4>2 DEF Exists, Kind
      <4> QED BY <1>2, <1>9, <3>2, <4>3, MissingMayChange DEF RestoreInv
    <3> QED BY <3>1, <3>2
  <2> HIDE DEF p, to
  <2>4. target'[p] = Link(to) /\ \A q \in RestorePaths : q # p => target'[q] = Cleared(p)[q]
    BY <1>2, <1>4, <1>9
  <2>5. Link(to).kind = "link" /\ Link(to).to = to
    BY EntryKinds
  <2>6. \A q \in RestorePaths : StepAt(q)
    <3>1. StepAt(p)
      BY <1>1, <1>6, <2>2, <2>3, <2>4, <2>5 DEF StepAt, p
    <3>2. ASSUME NEW q \in RestorePaths, q # p PROVE StepAt(q)
      BY <1>4, <2>4, <3>2 DEF StepAt
    <3> QED BY <3>1, <3>2
  <2>7. Accounted
    BY <1>1, <1>2, <2>4 DEF Accounted, InPlace, Job, p, to
  <2> QED BY <1>1, <1>3, <2>6, <2>7, StepKeeps DEF RestoreInv, WriteOK
<1>10. CASE RestoreLink
  BY <1>8, <1>9, <1>10 DEF RestoreLink
<1>11. CASE RestoreLinkFails
  <2>1. rNode \in result'.errors
    BY <1>11 DEF RestoreLinkFails, WithError, RestoreTypes
  <2> QED BY <1>7, <1>11, <2>1 DEF RestoreLinkFails
<1> QED BY <1>10, <1>11

\* What holds of a restore in every state, for any target, snapshot and options.
THEOREM RestoreInvariant == RestoreSpec => [](RestoreTypes /\ RestoreInv)
<1>1. RestoreInit => RestoreInv
  <2> SUFFICES ASSUME RestoreInit PROVE RestoreInv
    OBVIOUS
  <2>1. target \in [RestorePaths -> Entries] /\ rBefore = target /\ rTree = <<>>
        /\ rPc = "idle" /\ Nodes(rTree) = {}
    BY RestoreAssumption DEF RestoreInit, Nodes
  <2>2. LinksKnown
    BY <2>1, EntryKinds DEF LinksKnown, Leads, Led
  <2> QED BY <2>1, <2>2
          DEF RestoreInv, WriteOK, UserFilesKept, NoPartialFiles, RestoredOrReported
<1>2. RestoreTypes /\ RestoreTypes' /\ RestoreInv /\ [RestoreNext]_restoreVars => RestoreInv'
  <2> SUFFICES ASSUME RestoreTypes, RestoreTypes', RestoreInv, [RestoreNext]_restoreVars
               PROVE  RestoreInv'
    OBVIOUS
  <2>1. CASE UNCHANGED restoreVars
    <3>1. UNCHANGED Job /\ rNode' = rNode /\ target' = target /\ rPc' = rPc /\ result' = result
      BY <2>1 DEF restoreVars, Job
    <3>2. Accounted /\ \A p \in RestorePaths : StepAt(p)
      BY <3>1, NodeFacts DEF Accounted, StepAt
    <3>3. WriteOK'
      <4>1. \A p : MayChange(p) => MayChange(p)'
        BY <3>1, JobKept
      <4>2. rTree' = rTree
        BY <3>1 DEF Job
      <4>3. PathOf(rNode)' = PathOf(rNode) /\ FileNodes(rTree)' = FileNodes(rTree)
        BY <3>1, <4>2 DEF PathOf, FileNodes, Nodes
      <4>4. MayChange(PathOf(rNode)) => MayChange(PathOf(rNode))'
        BY <4>1, <4>3
      <4>5. WrittenAt(TmpOf(rNode))' = WrittenAt(TmpOf(rNode))
        BY <3>1, <4>3 DEF WrittenAt, TmpOf, EndIn, Followed
      <4> QED BY <3>1, <4>3, <4>4, <4>5 DEF RestoreInv, WriteOK, Kind
    <3> QED BY <3>1, <3>2, <3>3, StepKeeps DEF RestoreInv
  <2>2. CASE RestoreNext
    BY <2>2, StartKeeps, RestIdleSteps, RestoreDirKeeps, OpenTmpKeeps, WriteKeeps, FailKeeps,
       RenameKeeps, LinkKeeps DEF RestoreNext
  <2> QED BY <2>1, <2>2
<1> QED BY <1>1, <1>2, RestoreTypesAlways, PTL DEF RestoreSpec

\* Whatever is lost, in the way or fails: a node that was passed is in its
\* place, or an error names it.
THEOREM AlwaysRestoredOrReported == RestoreSpec => []RestoredOrReported
<1>1. RestoreInv => RestoredOrReported
  BY DEF RestoreInv
<1> QED BY <1>1, RestoreInvariant, PTL

\* A restore changes nothing of the user's but what is named in UserFilesKept.
THEOREM UserFilesAlwaysKept == RestoreSpec => []UserFilesKept
<1>1. RestoreInv => UserFilesKept
  BY DEF RestoreInv
<1> QED BY <1>1, RestoreInvariant, PTL

\* Part of a file is only under temporary names, at every moment of a restore.
THEOREM NeverPartialFiles == RestoreSpec => []NoPartialFiles
<1>1. RestoreInv => NoPartialFiles
  BY DEF RestoreInv
<1> QED BY <1>1, RestoreInvariant, PTL

-----------------------------------------------------------------------------
\* A restore nothing stands in the way of.

\* The nodes that are to be restored, and those of them that have been.
Wanted(n) == n \in Nodes(rTree) /\ n \notin FileNodes(rTree) \ rSelected
Done(n) == Wanted(n) /\ n < rNode

\* What such a restore makes of a node.
Made(n) ==
  CASE rTree[n].kind = "file" -> File(n)
    [] rTree[n].kind = "link" -> Link(rTree[n].to)
    [] rTree[n].kind = "dir" -> Dir(FALSE)

FilesDone == {n \in FileNodes(rTree) \cap rSelected : n < rNode}
PathsDone == {PathOf(n) : n \in FilesDone}

\* The target has exactly the nodes that were passed, and the temporary file
\* that is being written.
TreeSoFar ==
  /\ \A n \in Nodes(rTree) : Done(n) => target[PathOf(n)] = Made(n)
  /\ \A p \in RestorePaths :
       target[p] # None =>
         \/ \E n \in Nodes(rTree) : Done(n) /\ PathOf(n) = p
         \/ rPc \in {"write", "rename"} /\ p = TmpOf(rNode)

CleanSoFar ==
  /\ rPc = "idle" => rNode \notin Nodes(rTree)
  /\ result.errors = {}
  /\ result.files_restored = Cardinality(PathsDone)
  /\ TreeSoFar

CleanInv == restores > 0 /\ Unhindered => CleanSoFar

LEMMA UnhinderedFacts ==
  ASSUME RestoreTypes, Unhindered, NEW n \in Nodes(rTree)
  PROVE  /\ \A m \in Nodes(rTree) : m # n => PathOf(m) # PathOf(n)
         /\ \A m \in FileNodes(rTree) : m # n => PathOf(n) # TmpOf(m)
         /\ rTree[n].kind = "file" => TmpPaths(n) = {TmpOf(n)}
         /\ \A d \in DirsAbove[PathOf(n)] :
              \E m \in Nodes(rTree) : m < n /\ rTree[m].kind = "dir" /\ PathOf(m) = d
<1>1. ~Disturbed(n)
  BY DEF Unhindered
<1>2. \A m : TmpOf(m) \in TmpPaths(m)
  <2>1. ASSUME NEW S, NEW p \in S PROVE p \in Further(S)
    BY <2>1 DEF Further
  <2> QED BY <2>1 DEF TmpPaths, TmpOf
<1>3. \A d \in DirsAbove[PathOf(n)] :
        \E m \in 1..n - 1 : rTree[m].kind = "dir" /\ rTree[m].path = d
  BY DEF RestoreTypes, DepthFirst, Nodes, PathOf
<1>4. \A m \in 1..n - 1 : m \in Nodes(rTree) /\ m < n
  BY DEF RestoreTypes, Nodes
<1>5. \A d \in DirsAbove[PathOf(n)] :
        \E m \in Nodes(rTree) : m < n /\ rTree[m].kind = "dir" /\ PathOf(m) = d
  BY <1>3, <1>4 DEF PathOf
<1> QED BY <1>1, <1>2, <1>5 DEF Disturbed, TmpOf

\* Before a node is restored, its path is free and the directories above it are
\* there; so is the temporary name of a file.
LEMMA WayIsFree ==
  ASSUME RestoreTypes, Unhindered, TreeSoFar, rNode \in Nodes(rTree)
  PROVE  /\ \A d \in DirsAbove[PathOf(rNode)] : target[d] = Dir(FALSE)
         /\ rPc \in {"node", "open"} => target[PathOf(rNode)] = None
         /\ rPc = "open" => target[TmpOf(rNode)] = None
<1>1. \A d \in DirsAbove[PathOf(rNode)] : target[d] = Dir(FALSE)
  <2> SUFFICES ASSUME NEW d \in DirsAbove[PathOf(rNode)] PROVE target[d] = Dir(FALSE)
    OBVIOUS
  <2>1. PICK m \in Nodes(rTree) : m < rNode /\ rTree[m].kind = "dir" /\ PathOf(m) = d
    BY UnhinderedFacts
  <2>2. Done(m)
    BY <2>1 DEF Done, Wanted, FileNodes
  <2> QED BY <2>1, <2>2 DEF TreeSoFar, Made
<1>2. ASSUME rPc \in {"node", "open"} PROVE target[PathOf(rNode)] = None
  <2>1. PathOf(rNode) \in RestorePaths
    BY NodeFacts
  <2>2. ASSUME NEW n \in Nodes(rTree), Done(n) PROVE PathOf(n) # PathOf(rNode)
    <3>1. n # rNode
      BY <2>2, NodeFacts DEF Done, RestoreTypes
    <3> QED BY <3>1, UnhinderedFacts
  <2> QED BY <1>2, <2>1, <2>2 DEF TreeSoFar
<1>3. ASSUME rPc = "open" PROVE target[TmpOf(rNode)] = None
  <2>1. TmpOf(rNode) \in RestorePaths /\ rNode \in FileNodes(rTree)
    BY <1>3, NodeFacts DEF RestoreTypes
  <2>2. ASSUME NEW n \in Nodes(rTree), Done(n) PROVE PathOf(n) # TmpOf(rNode)
    <3>1. n # rNode
      BY <2>2, NodeFacts DEF Done, RestoreTypes
    <3> QED BY <2>1, <3>1, UnhinderedFacts
  <2> QED BY <1>3, <2>1, <2>2 DEF TreeSoFar
<1> QED BY <1>1, <1>2, <1>3

\* Nothing can fail then but by a fault.
LEMMA NothingFails ==
  ASSUME RestoreTypes, RestoreInv, Unhindered, TreeSoFar, rNode \in Nodes(rTree), rPc # "idle"
  PROVE  /\ DirsCanExist(DirsAbove[PathOf(rNode)]) /\ CanCreateIn(DirsAbove[PathOf(rNode)])
         /\ WithDirs(DirsAbove[PathOf(rNode)]) = target
         /\ rPc = "node" => DirsCanExist({PathOf(rNode)} \cup DirsAbove[PathOf(rNode)])
         /\ rPc = "node" => ~Exists(PathOf(rNode))
         /\ rPc = "node" /\ rTree[rNode].kind = "link" => LinkPossible /\ Cleared(PathOf(rNode)) = target
         /\ rPc = "open" => CanWrite(TmpOf(rNode))
         /\ rPc \in {"open", "write", "rename"} => WrittenAt(TmpOf(rNode)) = TmpOf(rNode)
         /\ rPc = "rename" => CanRename(TmpOf(rNode), PathOf(rNode))
<1> DEFINE p == PathOf(rNode)
           t == TmpOf(rNode)
<1>1. /\ p \in RestorePaths /\ t \in RestorePaths /\ DirsAbove[p] \subseteq RestorePaths
      /\ DirsAbove[t] = DirsAbove[p] /\ target \in [RestorePaths -> Entries]
      /\ rPc \in {"open", "write", "rename"} => rTree[rNode].kind = "file"
  BY NodeFacts, RestoreAssumption DEF RestoreTypes, TmpOf, FileNodes
<1>2. /\ \A d \in DirsAbove[p] : target[d] = Dir(FALSE)
      /\ rPc \in {"node", "open"} => target[p] = None
      /\ rPc = "open" => target[t] = None
  BY WayIsFree
<1>3. rPc \in {"open", "write", "rename"} => WrittenAt(t) = t
  <2>1. WrittenAt(t) \in TmpPaths(rNode)
    BY WrittenKnown DEF RestoreInv
  <2> QED BY <1>1, <2>1, UnhinderedFacts
<1>4. rTree[rNode].kind = "link" => rTree[rNode].to # Outside
  BY DEF Unhindered
<1>5. rPc = "rename" => target[t].kind = "file" /\ target[t] = File(rNode)
  BY <1>3 DEF RestoreInv, WriteOK, Kind
<1>6. rPc = "rename" => target[p].kind # "dir"
  <2> SUFFICES ASSUME rPc = "rename", target[p] # None PROVE target[p].kind # "dir"
    BY EntryKinds
  <2>1. ASSUME NEW n \in Nodes(rTree), Done(n) PROVE PathOf(n) # p
    <3>1. n # rNode
      BY <2>1, NodeFacts DEF Done, RestoreTypes
    <3> QED BY <3>1, UnhinderedFacts
  <2>2. p = t
    BY <1>1, <2>1 DEF TreeSoFar
  <2> QED BY <1>5, <2>2
<1> HIDE DEF p, t
<1>7. \A d \in DirsAbove[p] : Kind(d) = "dir" /\ ~target[d].ro
  BY <1>2, EntryKinds DEF Kind
<1>8. CanCreateIn(DirsAbove[p]) /\ DirsCanExist(DirsAbove[p]) /\ MissingAbove(p) = {}
      /\ MissingAbove(t) = {} /\ CanCreateIn(DirsAbove[t])
  BY <1>1, <1>7 DEF CanCreateIn, DirsCanExist, MissingAbove
<1>9. WithDirs(DirsAbove[p]) = target
  BY <1>1, <1>7 DEF WithDirs
<1>10. ASSUME rPc = "node" PROVE EndIn(target, p) = p /\ ~Exists(p)
  <2>1. target[p].kind = "none"
    BY <1>2, <1>10, EntryKinds
  <2>2. EndIn(target, p) = p
    BY <1>1, <2>1, EndTypes
  <2> QED BY <2>1, <2>2 DEF Exists, Kind
<1>11. ASSUME rPc = "node" PROVE DirsCanExist({p} \cup DirsAbove[p])
  <2>1. Kind(p) = "none"
    BY <1>2, <1>11, EntryKinds DEF Kind
  <2> QED BY <1>7, <2>1 DEF DirsCanExist, CanCreateIn
<1>12. ASSUME rPc = "node", rTree[rNode].kind = "link" PROVE LinkPossible /\ Cleared(p) = target
  <2>1. Cleared(p) = target
    BY <1>9, <1>10, <1>12 DEF Cleared
  <2>2. target[p].kind = "none"
    BY <1>2, <1>12, EntryKinds
  <2> QED BY <1>4, <1>8, <1>12, <2>1, <2>2 DEF LinkPossible, TargetValid, p
<1>13. ASSUME rPc = "open" PROVE CanWrite(t)
  <2>1. Kind(t) = "none"
    BY <1>2, <1>13, EntryKinds DEF Kind
  <2> QED BY <1>3, <1>8, <1>13, <2>1 DEF CanWrite, ParentWritable
<1>14. ASSUME rPc = "rename" PROVE CanRename(t, p)
  BY <1>6, <1>8, <1>14 DEF CanRename, ParentWritable, Kind
<1> QED BY <1>3, <1>8, <1>9, <1>10, <1>11, <1>12, <1>13, <1>14 DEF p, t

LEMMA PathsDoneFinite ==
  ASSUME RestoreTypes
  PROVE  IsFiniteSet(PathsDone)
<1>1. IsFiniteSet(1..Len(rTree))
  BY FS_Interval DEF RestoreTypes
<1>2. FilesDone \subseteq 1..Len(rTree)
  BY DEF FilesDone, FileNodes, Nodes, RestoreTypes
<1>3. IsFiniteSet(FilesDone)
  BY <1>1, <1>2, FS_Subset
<1> DEFINE f == [n \in FilesDone |-> PathOf(n)]
<1>4. f \in Surjection(FilesDone, PathsDone)
  BY DEF PathsDone, Surjection
<1> QED BY <1>3, <1>4, FS_Surjection

\* The step that restores a node, or leaves it out.
LEMMA NodePassed ==
  ASSUME RestoreTypes, RestoreTypes', Unhindered, CleanSoFar, UNCHANGED Job,
         rNode \in Nodes(rTree), rNode' = rNode + 1, rPc' = "node",
         result'.errors = result.errors,
         IF rNode \in FileNodes(rTree) \cap rSelected
         THEN result'.files_restored = result.files_restored + 1
         ELSE result'.files_restored = result.files_restored,
         Wanted(rNode) => target'[PathOf(rNode)] = Made(rNode),
         \A q \in RestorePaths : Wanted(rNode) /\ q # PathOf(rNode)
           => target'[q] = IF rPc = "rename" /\ q = TmpOf(rNode) THEN None ELSE target[q],
         ~Wanted(rNode) => target' = target,
         rPc \in {"node", "rename"},
         rPc = "rename" => rNode \in FileNodes(rTree)
  PROVE  CleanSoFar'
<1>1. /\ rTree' = rTree /\ rSelected' = rSelected
      /\ \A n : PathOf(n)' = PathOf(n) /\ Made(n)' = Made(n) /\ Wanted(n)' = Wanted(n)
      /\ Nodes(rTree)' = Nodes(rTree) /\ FileNodes(rTree)' = FileNodes(rTree)
  BY DEF Job, PathOf, Made, Wanted, Nodes, FileNodes
<1>2. \A n \in Nodes(rTree) : Done(n)' <=> Done(n) \/ (n = rNode /\ Wanted(n))
  <2>1. \A n \in Nodes(rTree) : n < rNode + 1 <=> n < rNode \/ n = rNode
    BY NodeFacts DEF RestoreTypes
  <2> QED BY <1>1, <2>1 DEF Done
<1>3. FilesDone' = IF rNode \in FileNodes(rTree) \cap rSelected THEN FilesDone \cup {rNode}
                   ELSE FilesDone
  <2>1. \A n \in Nodes(rTree) : n < rNode + 1 <=> n < rNode \/ n = rNode
    BY NodeFacts DEF RestoreTypes
  <2> QED BY <1>1, <2>1, NodeFacts DEF FilesDone
<1>4. result'.files_restored = Cardinality(PathsDone')
  <2>1. CASE rNode \in FileNodes(rTree) \cap rSelected
    <3>1. PathsDone' = PathsDone \cup {PathOf(rNode)}
      BY <1>1, <1>3, <2>1 DEF PathsDone
    <3>2. PathOf(rNode) \notin PathsDone
      <4>1. \A n \in FilesDone : n \in Nodes(rTree) /\ n # rNode
        BY NodeFacts DEF FilesDone, RestoreTypes
      <4> QED BY <4>1, UnhinderedFacts DEF PathsDone
    <3>3. Cardinality(PathsDone') = Cardinality(PathsDone) + 1
      BY <3>1, <3>2, PathsDoneFinite, FS_AddElement
    <3> QED BY <2>1, <3>3 DEF CleanSoFar
  <2>2. CASE rNode \notin FileNodes(rTree) \cap rSelected
    <3>1. PathsDone' = PathsDone
      BY <1>1, <1>3, <2>2 DEF PathsDone
    <3> QED BY <2>2, <3>1 DEF CleanSoFar
  <2> QED BY <2>1, <2>2
<1>5. ASSUME NEW n \in Nodes(rTree), Done(n)' PROVE target'[PathOf(n)] = Made(n)
  <2>1. CASE n = rNode
    <3>1. Wanted(n)
      BY <1>1, <1>5 DEF Done
    <3> QED BY <2>1, <3>1
  <2>2. CASE n # rNode
    <3>1. Done(n) /\ target[PathOf(n)] = Made(n) /\ PathOf(n) # PathOf(rNode)
          /\ PathOf(n) \in RestorePaths
      BY <1>2, <1>5, <2>2, UnhinderedFacts, NodeFacts DEF CleanSoFar, TreeSoFar
    <3>2. rPc = "rename" => PathOf(n) # TmpOf(rNode)
      BY <2>2, UnhinderedFacts
    <3> QED BY <3>1, <3>2
  <2> QED BY <2>1, <2>2
<1>6. ASSUME NEW p \in RestorePaths, target'[p] # None
      PROVE  \E n \in Nodes(rTree) : Done(n)' /\ PathOf(n) = p
  <2>1. CASE p = PathOf(rNode) /\ Wanted(rNode)
    BY <1>2, <2>1
  <2>2. CASE ~(p = PathOf(rNode) /\ Wanted(rNode))
    <3>1. target[p] # None /\ ~(rPc = "rename" /\ p = TmpOf(rNode))
      <4>1. CASE Wanted(rNode)
        BY <1>6, <2>2, <4>1
      <4>2. CASE ~Wanted(rNode)
        <5>1. rPc # "rename"
          BY <4>2 DEF Wanted, RestoreTypes
        <5> QED BY <1>6, <4>2, <5>1
      <4> QED BY <4>1, <4>2
    <3>2. \E n \in Nodes(rTree) : Done(n) /\ PathOf(n) = p
      BY <3>1 DEF CleanSoFar, TreeSoFar
    <3> QED BY <1>2, <3>2
  <2> QED BY <2>1, <2>2
<1>7. TreeSoFar'
  BY <1>1, <1>5, <1>6 DEF TreeSoFar
<1> QED BY <1>4, <1>7 DEF CleanSoFar

\* The job does not change, nor what may hinder it, but by a fault.
LEMMA UnhinderedKept ==
  ASSUME RestoreTypes, UNCHANGED Job, rNode' \in {rNode, rNode + 1}, Unhindered',
         rFaulted' = rFaulted \/ rFaulted' = TRUE
  PROVE  Unhindered /\ rFaulted' = rFaulted /\ rFaulted' # TRUE
<1>1. /\ rTree' = rTree /\ rOpts' = rOpts /\ rBefore' = rBefore
      /\ \A n : Disturbed(n)' <=> Disturbed(n)
  BY JobKept
<1>2. rFaulted' = rFaulted /\ rFaulted' # TRUE /\ rLost' = rLost
  BY DEF Unhindered, Job
<1>3. Nodes(rTree)' = Nodes(rTree)
  BY <1>1 DEF Nodes
<1> QED BY <1>1, <1>2, <1>3 DEF Unhindered

LEMMA StartClean ==
  ASSUME RestoreTypes', StartRestore
  PROVE  CleanInv'
<1> SUFFICES ASSUME Unhindered' PROVE CleanSoFar'
  BY DEF CleanInv
<1>1. rPc' = "node" /\ rNode' = 1 /\ result' = NoResult /\ target' = rBefore'
  BY DEF StartRestore
<1>2. \A p \in RestorePaths : target'[p] = None
  BY <1>1, EntryKinds DEF Unhindered, RestoreTypes
<1>3. \A n \in Nodes(rTree)' : ~(n < 1)
  BY DEF RestoreTypes, Nodes
<1>4. FilesDone' = {}
  BY <1>1, <1>3 DEF FilesDone, FileNodes
<1>5. Cardinality(PathsDone') = 0
  <2>1. PathsDone' = {}
    BY <1>4 DEF PathsDone
  <2> QED BY <2>1, FS_EmptySet
<1> QED BY <1>1, <1>2, <1>3, <1>5 DEF CleanSoFar, TreeSoFar, Done, NoResult

LEMMA StepClean ==
  ASSUME RestoreTypes, RestoreTypes', RestoreInv, CleanInv, RestoreNext, ~StartRestore
  PROVE  CleanInv'
<1> SUFFICES ASSUME restores' > 0, Unhindered' PROVE CleanSoFar'
  BY DEF CleanInv
<1>1. UNCHANGED Job /\ rNode' \in {rNode, rNode + 1} /\ (rFaulted' = rFaulted \/ rFaulted' = TRUE)
      /\ rPc # "idle"
  BY DEF RestoreNext, EndRestore, CrashRestore, RestoreDir, RestoreDirFails, SkipFiltered,
         RefuseExisting, ReadFails, CountDryRun, ParentFails, OpenTmp, BeginWrite, WriteFails,
         EndWrite, Rename, RenameFails, RestoreLink, RestoreLinkFails, FileReady, At, Advance,
         FailFile, Fault, NoFault
<1>2. Unhindered /\ ~Fault
  BY <1>1, UnhinderedKept DEF Fault
<1>3. CleanSoFar
  BY <1>1, <1>2 DEF CleanInv, Job
<1>4. ~rOpts.dry_run /\ rLost = {}
  BY <1>2 DEF Unhindered
<1>5. rNode \in Nodes(rTree) \/ (rPc = "node" /\ rNode \notin Nodes(rTree))
  BY <1>1, NodeFacts DEF RestoreTypes
<1>6. /\ rTree' = rTree /\ rSelected' = rSelected
      /\ \A n : PathOf(n)' = PathOf(n) /\ Made(n)' = Made(n) /\ Wanted(n)' = Wanted(n)
      /\ Nodes(rTree)' = Nodes(rTree) /\ FileNodes(rTree)' = FileNodes(rTree)
  BY <1>1 DEF Job, PathOf, Made, Wanted, Nodes, FileNodes
\* A step inside a node.
<1>7. ASSUME rNode' = rNode, result' = result, rPc' # "rename" => rPc' \in {"open", "write", "idle"},
             rPc' = "idle" => rNode \notin Nodes(rTree),
             \A p \in RestorePaths :
               target'[p] = target[p] \/ (p = TmpOf(rNode) /\ rNode \in FileNodes(rTree)
                                            /\ rPc' \in {"write", "rename"}),
             rPc' = "open" \/ rPc' = "idle" => target' = target /\ rPc = "node"
      PROVE  CleanSoFar'
  <2>1. \A n \in Nodes(rTree) : Done(n)' <=> Done(n)
    BY <1>6, <1>7 DEF Done
  <2>2. PathsDone' = PathsDone
    <3>1. FilesDone' = FilesDone
      BY <1>6, <1>7 DEF FilesDone
    <3> QED BY <1>6, <3>1 DEF PathsDone
  <2>3. ASSUME NEW n \in Nodes(rTree), Done(n) PROVE target'[PathOf(n)] = Made(n)
    <3>1. target[PathOf(n)] = Made(n) /\ PathOf(n) \in RestorePaths
      BY <1>3, <2>3, NodeFacts DEF CleanSoFar, TreeSoFar
    <3>2. n # rNode
      BY <2>3, NodeFacts DEF Done, RestoreTypes
    <3>3. rNode \in FileNodes(rTree) => PathOf(n) # TmpOf(rNode)
      BY <1>2, <3>2, UnhinderedFacts
    <3> QED BY <1>7, <3>1, <3>3
  <2>4. ASSUME NEW p \in RestorePaths, target'[p] # None,
               ~(rPc' \in {"write", "rename"} /\ p = TmpOf(rNode))
        PROVE  \E n \in Nodes(rTree) : Done(n) /\ PathOf(n) = p
    <3>1. target[p] # None
      BY <1>7, <2>4
    <3>2. ~(rPc \in {"write", "rename"} /\ p = TmpOf(rNode))
      BY <1>7, <2>4
    <3> QED BY <1>3, <3>1, <3>2 DEF CleanSoFar, TreeSoFar
  <2>5. TmpOf(rNode)' = TmpOf(rNode)
    BY <1>6, <1>7 DEF TmpOf
  <2>6. TreeSoFar'
    BY <1>6, <2>1, <2>3, <2>4, <2>5 DEF TreeSoFar
  <2> QED BY <1>3, <1>6, <1>7, <2>2, <2>6 DEF CleanSoFar
<1>8. CASE EndRestore
  BY <1>7, <1>8, <1>1 DEF EndRestore
<1>9. CASE CrashRestore
  BY <1>1, <1>9, UnhinderedKept DEF CrashRestore
<1> DEFINE p == PathOf(rNode)
           t == TmpOf(rNode)
<1>10. rNode \in Nodes(rTree) =>
         /\ DirsCanExist(DirsAbove[p])
         /\ WithDirs(DirsAbove[p]) = target
         /\ rPc = "node" => DirsCanExist({p} \cup DirsAbove[p]) /\ ~Exists(p)
         /\ rPc = "node" /\ rTree[rNode].kind = "link" => LinkPossible /\ Cleared(p) = target
         /\ rPc = "open" => CanWrite(t)
         /\ rPc \in {"open", "write", "rename"} => WrittenAt(t) = t
         /\ rPc = "rename" => CanRename(t, p)
  BY <1>1, <1>2, <1>3, NothingFails DEF CleanSoFar
<1>11. rNode \in Nodes(rTree) =>
         /\ p \in RestorePaths /\ t \in RestorePaths /\ target \in [RestorePaths -> Entries]
         /\ DirsAbove[p] \subseteq RestorePaths
  BY NodeFacts DEF RestoreTypes
<1>12. CASE RestoreDirFails \/ RefuseExisting \/ ReadFails \/ CountDryRun \/ ParentFails
             \/ WriteFails \/ RenameFails \/ RestoreLinkFails
  <2>1. rNode \in Nodes(rTree)
    BY <1>12, <1>5 DEF RestoreDirFails, RefuseExisting, ReadFails, CountDryRun, ParentFails,
       WriteFails, RenameFails, RestoreLinkFails, At, FileReady
  <2>2. FALSE
    BY <1>2, <1>4, <1>10, <1>12, <2>1
       DEF RestoreDirFails, RefuseExisting, ReadFails, CountDryRun, ParentFails,
           WriteFails, RenameFails, RestoreLinkFails, At, FileReady, Refused
  <2> QED BY <2>2
<1>13. CASE SkipFiltered
  <2>1. /\ rNode \in Nodes(rTree) /\ rNode' = rNode + 1 /\ rPc' = "node" /\ rPc = "node"
        /\ rNode \in FileNodes(rTree) /\ rNode \notin rSelected /\ target' = target
        /\ result' = Skipped(result)
    BY <1>13 DEF SkipFiltered, At, Advance, FileNodes
  <2>2. result'.errors = result.errors /\ result'.files_restored = result.files_restored
    BY <2>1 DEF Skipped, RestoreTypes
  <2>3. ~Wanted(rNode)
    BY <2>1 DEF Wanted
  <2> QED BY <1>1, <1>2, <1>3, <2>1, <2>2, <2>3, NodePassed
<1>14. CASE RestoreDir
  <2> DEFINE dirs == {p} \cup DirsAbove[p]
  <2>1. /\ rNode \in Nodes(rTree) /\ rNode' = rNode + 1 /\ rPc' = "node" /\ rPc = "node"
        /\ rTree[rNode].kind = "dir" /\ rNode \notin FileNodes(rTree)
        /\ target' = IF rOpts.preserve THEN [WithDirs(dirs) EXCEPT ![p] = Dir(rTree[rNode].ro)]
                     ELSE WithDirs(dirs)
        /\ result' = [result EXCEPT !.directories = @ + 1]
    BY <1>4, <1>14 DEF RestoreDir, At, Advance, FileNodes
  <2>2. result'.errors = result.errors /\ result'.files_restored = result.files_restored
    BY <2>1 DEF RestoreTypes
  <2>3. target[p] = None /\ \A d \in DirsAbove[p] : target[d] = Dir(FALSE)
    BY <1>2, <1>3, <2>1, WayIsFree DEF CleanSoFar
  <2>4. rOpts.preserve => rTree[rNode].ro = FALSE
    BY <1>2, <2>1, NodeFacts DEF Unhindered
  <2>5. /\ WithDirs(dirs) \in [RestorePaths -> Entries]
        /\ \A q \in RestorePaths :
             WithDirs(dirs)[q] = IF q \in dirs /\ Kind(q) = "none" THEN Dir(FALSE) ELSE target[q]
    BY WithDirsTypes
  <2>6. p \in dirs /\ \A q \in dirs : q = p \/ Kind(q) = "dir"
    BY <2>3, EntryKinds DEF Kind
  <2>7. Kind(p) = "none"
    BY <2>3, EntryKinds DEF Kind
  <2> HIDE DEF dirs, p
  <2>8. target'[p] = Dir(FALSE) /\ \A q \in RestorePaths : q # p => target'[q] = target[q]
    BY <1>11, <2>1, <2>4, <2>5, <2>6, <2>7
  <2>9. target'[PathOf(rNode)] = Made(rNode)
        /\ \A q \in RestorePaths : q # PathOf(rNode) => target'[q] = target[q]
    BY <2>1, <2>8 DEF Made, p
  <2>10. Wanted(rNode)
    BY <2>1 DEF Wanted
  <2> QED BY <1>1, <1>2, <1>3, <2>1, <2>2, <2>9, <2>10, NodePassed
<1>15. CASE OpenTmp
  <2>1. target' = target
    <3>1. rNode \in Nodes(rTree) /\ target' = WithDirs(DirsAbove[PathOf(rNode)])
      BY <1>15 DEF OpenTmp, FileReady, At
    <3> QED BY <1>10, <3>1
  <2> QED BY <1>7, <1>15, <2>1 DEF OpenTmp, FileReady, At
<1>16. CASE BeginWrite \/ EndWrite
  <2>1. rNode \in FileNodes(rTree) /\ rNode \in Nodes(rTree)
    BY <1>16 DEF BeginWrite, EndWrite, RestoreInv, WriteOK, FileNodes
  <2>2. /\ rNode' = rNode /\ result' = result /\ rPc' \in {"write", "rename"}
        /\ \E x : target' = [target EXCEPT ![WrittenAt(t)] = File(x)]
        /\ rPc \in {"open", "write"}
    BY <1>16 DEF BeginWrite, EndWrite
  <2>3. WrittenAt(t) = t
    BY <1>10, <2>1, <2>2
  <2> HIDE DEF t
  <2>4. \A q \in RestorePaths : q # t => target'[q] = target[q]
    BY <1>11, <2>1, <2>2, <2>3
  <2> QED BY <1>7, <2>1, <2>2, <2>4 DEF t
<1>17. CASE Rename
  <2>1. /\ rNode \in FileNodes(rTree) /\ rNode \in Nodes(rTree) /\ rNode \in rSelected
        /\ target[WrittenAt(t)] = File(rNode) /\ rPc = "rename"
    BY <1>17 DEF Rename, RestoreInv, WriteOK, FileNodes, RestoreTypes
  <2>2. /\ rNode' = rNode + 1 /\ rPc' = "node"
        /\ result' = [result EXCEPT !.files_restored = @ + 1]
        /\ target' = [[target EXCEPT ![t] = None] EXCEPT ![p] = target[t]]
    BY <1>17 DEF Rename, Advance
  <2>3. target[t] = File(rNode)
    BY <1>10, <2>1
  <2>4. /\ result'.errors = result.errors
        /\ result'.files_restored = result.files_restored + 1
    BY <2>2 DEF RestoreTypes
  <2> HIDE DEF p, t
  <2>5. target'[p] = File(rNode)
        /\ \A q \in RestorePaths : q # p => target'[q] = IF q = t THEN None ELSE target[q]
    BY <1>11, <2>1, <2>2, <2>3
  <2>6. Wanted(rNode) /\ Made(rNode) = File(rNode)
    BY <2>1 DEF Wanted, Made, FileNodes
  <2>7. /\ target'[PathOf(rNode)] = Made(rNode)
        /\ \A q \in RestorePaths :
             q # PathOf(rNode) => target'[q] = IF q = TmpOf(rNode) THEN None ELSE target[q]
    BY <2>5, <2>6 DEF p, t
  <2> QED BY <1>1, <1>2, <1>3, <2>1, <2>2, <2>4, <2>6, <2>7, NodePassed
<1>18. CASE RestoreLink
  <2>1. /\ rNode \in Nodes(rTree) /\ rNode' = rNode + 1 /\ rPc' = "node" /\ rPc = "node"
        /\ rTree[rNode].kind = "link" /\ rNode \notin FileNodes(rTree)
        /\ target' = [Cleared(p) EXCEPT ![p] = Link(rTree[rNode].to)]
        /\ result' = [result EXCEPT !.symlinks = @ + 1]
    BY <1>4, <1>18 DEF RestoreLink, At, Advance, FileNodes
  <2>2. result'.errors = result.errors /\ result'.files_restored = result.files_restored
    BY <2>1 DEF RestoreTypes
  <2>3. Cleared(p) = target
    BY <1>10, <2>1
  <2> HIDE DEF p
  <2>4. target'[p] = Link(rTree[rNode].to)
        /\ \A q \in RestorePaths : q # p => target'[q] = target[q]
    BY <1>11, <2>1, <2>3
  <2>5. target'[PathOf(rNode)] = Made(rNode)
        /\ \A q \in RestorePaths : q # PathOf(rNode) => target'[q] = target[q]
    BY <2>1, <2>4 DEF Made, p
  <2>6. Wanted(rNode)
    BY <2>1 DEF Wanted
  <2> QED BY <1>1, <1>2, <1>3, <2>1, <2>2, <2>5, <2>6, NodePassed
<1> QED BY <1>8, <1>9, <1>12, <1>13, <1>14, <1>15, <1>16, <1>17, <1>18 DEF RestoreNext

\* Of a restore that nothing stood in the way of there is at its end exactly
\* the snapshot's tree in the target, no error, and the count the preview gives.
THEOREM CleanRestoreAlwaysExact == RestoreSpec => []CleanRestoreExact
<1>1. RestoreInit => CleanInv
  BY DEF RestoreInit, CleanInv
<1>2. RestoreTypes /\ RestoreTypes' /\ RestoreInv /\ CleanInv /\ [RestoreNext]_restoreVars
        => CleanInv'
  <2> SUFFICES ASSUME RestoreTypes, RestoreTypes', RestoreInv, CleanInv, [RestoreNext]_restoreVars
               PROVE  CleanInv'
    OBVIOUS
  <2>1. CASE UNCHANGED restoreVars
    <3>1. UNCHANGED Job /\ rNode' = rNode /\ target' = target /\ rPc' = rPc
          /\ result' = result /\ rFaulted' = rFaulted /\ restores' = restores
      BY <2>1 DEF restoreVars, Job
    <3>2. Unhindered' => Unhindered
      BY <3>1, UnhinderedKept
    <3>3. rTree' = rTree /\ rSelected' = rSelected
      BY <3>1 DEF Job
    <3>4. /\ Nodes(rTree)' = Nodes(rTree) /\ FileNodes(rTree)' = FileNodes(rTree)
          /\ \A n : PathOf(n)' = PathOf(n) /\ Made(n)' = Made(n)
      BY <3>3 DEF Nodes, FileNodes, PathOf, Made
    <3>5. (\A n : Done(n)' = Done(n)) /\ FilesDone' = FilesDone /\ TmpOf(rNode)' = TmpOf(rNode)
      BY <3>1, <3>3, <3>4 DEF Done, Wanted, FilesDone, TmpOf
    <3>6. PathsDone' = PathsDone
      BY <3>4, <3>5 DEF PathsDone
    <3>7. TreeSoFar => TreeSoFar'
      BY <3>1, <3>4, <3>5 DEF TreeSoFar
    <3>8. CleanSoFar => CleanSoFar'
      BY <3>1, <3>4, <3>6, <3>7 DEF CleanSoFar
    <3> QED BY <3>1, <3>2, <3>8 DEF CleanInv
  <2>2. CASE StartRestore
    BY <2>2, StartClean
  <2>3. CASE RestoreNext /\ ~StartRestore
    BY <2>3, StepClean
  <2> QED BY <2>1, <2>2, <2>3
<1>3. RestoreTypes /\ CleanInv => CleanRestoreExact
  <2> SUFFICES ASSUME RestoreTypes, CleanInv, Unhindered, rNode > Len(rTree), restores > 0
               PROVE  /\ result.errors = {}
                      /\ result.files_restored = Cardinality(Preview(rTree, rSelected))
                      /\ \A p \in RestorePaths :
                           IF \E n \in Nodes(rTree) :
                                PathOf(n) = p /\ n \notin FileNodes(rTree) \ rSelected
                           THEN \E n \in Nodes(rTree) : PathOf(n) = p /\ InPlace(n)
                           ELSE target[p] = None
    BY DEF CleanRestoreExact
  <2>1. CleanSoFar
    BY DEF CleanInv
  <2>2. \A n \in Nodes(rTree) : n < rNode
    BY NodeFacts DEF RestoreTypes
  <2>3. PathsDone = Preview(rTree, rSelected)
    <3>1. FilesDone = FileNodes(rTree) \cap rSelected
      BY <2>2, NodeFacts DEF FilesDone
    <3> QED BY <3>1 DEF PathsDone, Preview, PathOf
  <2>4. rPc \notin {"write", "rename"}
    BY <2>2, NodeFacts DEF RestoreTypes
  <2>5. ASSUME NEW n \in Nodes(rTree), n \notin FileNodes(rTree) \ rSelected PROVE InPlace(n)
    <3>1. Done(n)
      BY <2>2, <2>5 DEF Done, Wanted
    <3>2. target[PathOf(n)] = Made(n) /\ rTree[n].kind \in {"file", "link", "dir"}
      BY <2>1, <3>1, NodeFacts DEF CleanSoFar, TreeSoFar
    <3> QED BY <3>2, EntryKinds DEF InPlace, Made, PathOf
  <2>6. ASSUME NEW p \in RestorePaths, target[p] # None
        PROVE  \E n \in Nodes(rTree) : PathOf(n) = p /\ n \notin FileNodes(rTree) \ rSelected
    BY <2>1, <2>4, <2>6 DEF CleanSoFar, TreeSoFar, Done, Wanted
  <2> QED BY <2>1, <2>3, <2>5, <2>6 DEF CleanSoFar
<1> QED BY <1>1, <1>2, <1>3, RestoreInvariant, RestoreTypesAlways, PTL DEF RestoreSpec

-----------------------------------------------------------------------------
\* Encryption.

Keys == Passwords \X Nat
ChunkTypes == [content : EncContents, key : Keys \cup {NoKey}]
NodeTypes == [chunk : ChunkTypes, versions : Seq([of : Nat, chunk : ChunkTypes])]
Roots == EncFiles \cup {TheDirectory}

SnapshotOK(s) ==
  /\ s.root \in Roots
  /\ s.nodes \in [FilesOf(s.root) -> NodeTypes]
  /\ s.source \in [EncFiles -> EncContents]

\* A command that does not have the lock: an incremental backup has listed a
\* snapshot of the directory, and whoever has loaded a configuration found one.
OpeningOK(o) ==
  \/ o = NoCommand
  \/ /\ encConfig # "none"
     /\ o \in [kind : {"full", "incremental", "restore", "config"}, base : Nat,
               setting : {"none", "on", "off"}]
     /\ o.kind = "incremental" =>
          o.base \in DOMAIN encSnapshots /\ encSnapshots[o.base].root = TheDirectory

\* Types of what the properties are about.
EncTypeOK ==
  /\ opening = [u \in EncUsers |-> opening[u]]
  /\ encKey \in Keys \cup {NoKey}
  /\ keyFile \in Keys \cup {NoKey}
  /\ encSource \in [EncFiles -> EncContents]
  /\ encConfig \in {"none", "on", "off"}
  /\ encSalts \in Nat
  /\ encSnapshots \in Seq([root : Roots, nodes : UNION {[S -> NodeTypes] : S \in SUBSET EncFiles},
                           source : [EncFiles -> EncContents]])
  /\ \A s \in DOMAIN encSnapshots : SnapshotOK(encSnapshots[s])
  /\ encPc = "key" => encCommand.password \in Passwords

AllOpeningOK == \A u \in EncUsers : OpeningOK(opening[u])

\* A backup that runs has its arguments; an incremental one has a snapshot of
\* the directory to start from.
CommandOK ==
  encPc \in {"resolved", "store"} =>
    /\ encConfig # "none"
    /\ encCommand.kind \in Backups /\ encCommand.encrypt \in BOOLEAN
    /\ encCommand.root \in Roots /\ encCommand.setting \in {"on", "off"}
    /\ encCommand.kind = "incremental" =>
         /\ encCommand.root = TheDirectory
         /\ encCommand.base \in DOMAIN encSnapshots
         /\ encSnapshots[encCommand.base].root = TheDirectory

\* Nothing is stored and no key made before there is a repository; init is about
\* to make a key only while nothing is stored.
FreshOK ==
  /\ encConfig = "none" => encPc = "idle" /\ keyFile = NoKey /\ encSnapshots = <<>>
  /\ encPc = "key" => keyFile = NoKey /\ encSnapshots = <<>>

\* The key of a running command is that of the key file, or it has none; a backup
\* has none unless it was told to encrypt or loaded that it should.
KeyOK ==
  /\ encPc \in {"resolved", "store", "reading"} => encKey \in {NoKey, keyFile}
  /\ encPc = "resolved" =>
       (encKey # NoKey <=> UseEncryption(encCommand.encrypt, encCommand.setting))

\* A restore that reads has a key if, and only if, it loaded that there is one.
ReadingKey ==
  encPc = "reading" =>
    IF encCommand.setting = "on" THEN encKey = keyFile /\ keyFile # NoKey ELSE encKey = NoKey

\* The key a restore uses that runs with the current setting.
SettingKey == IF encConfig = "on" THEN keyFile ELSE NoKey

\* The chunk of file f in snapshot s.
ChunkOf(s, f) == encSnapshots[s].nodes[f].chunk

\* A snapshot has every file's content of the time it was taken.
ContentsOK ==
  \A s \in DOMAIN encSnapshots : \A f \in DOMAIN encSnapshots[s].nodes :
    ChunkOf(s, f).content = encSnapshots[s].source[f]

\* As long as backups store as the configuration says, every chunk has the key
\* of the current setting.
OneSetting ==
  ~mixed =>
    /\ \A s \in DOMAIN encSnapshots : \A f \in DOMAIN encSnapshots[s].nodes :
         ChunkOf(s, f).key = SettingKey
    /\ encSnapshots # <<>> /\ encConfig = "on" => keyFile # NoKey
    /\ encPc = "store" => encKey = SettingKey /\ (encConfig = "on" => keyFile # NoKey)

\* Unless something was encrypted while the configuration says that nothing is,
\* nothing is encrypted while it says so.
Announced ==
  ~unannounced =>
    /\ encConfig # "on" =>
         \A s \in DOMAIN encSnapshots : \A f \in DOMAIN encSnapshots[s].nodes :
           ChunkOf(s, f).key = NoKey
    /\ encPc = "store" /\ encConfig # "on" => encKey = NoKey

\* The inductive invariant.
EncInv ==
  /\ EncTypeOK /\ AllOpeningOK /\ CommandOK /\ FreshOK /\ KeyOK /\ ReadingKey
  /\ KeysKept /\ ContentsOK /\ OneSetting /\ Announced

-----------------------------------------------------------------------------

LEMMA InitEncInv == EncodingInit => EncInv
<1> SUFFICES ASSUME EncodingInit PROVE EncInv
  OBVIOUS
<1> USE DEF EncodingInit
<1>1. EncTypeOK /\ AllOpeningOK
  BY DEF EncTypeOK, AllOpeningOK, OpeningOK
<1>2. CommandOK /\ FreshOK /\ KeyOK /\ ReadingKey /\ KeysKept /\ ContentsOK
  BY DEF CommandOK, FreshOK, KeyOK, ReadingKey, KeysKept, ContentsOK
<1>3. OneSetting /\ Announced
  BY DEF OneSetting, Announced
<1> QED
  BY <1>1, <1>2, <1>3 DEF EncInv

\* Steps that leave the snapshots and the configuration alone and only free
\* users of their commands.
LEMMA OpeningKept ==
  ASSUME AllOpeningOK, UNCHANGED <<encConfig, encSnapshots>>,
         \A u \in EncUsers : opening'[u] \in {opening[u], NoCommand}
  PROVE  AllOpeningOK'
  BY DEF AllOpeningOK, OpeningOK

\* Steps that leave the snapshots alone, and the key file unless it makes one.
LEMMA StoredKept ==
  ASSUME EncInv, UNCHANGED encSnapshots, keyFile # NoKey => keyFile' = keyFile
  PROVE  KeysKept' /\ ContentsOK'
  BY DEF EncInv, KeysKept, ContentsOK, ChunkOf

\* A step that touches neither what is stored nor the command with the lock.
LEMMA OutsideInv ==
  ASSUME EncInv, EncTypeOK', AllOpeningOK',
         UNCHANGED <<encPc, encCommand, encKey, encConfig, keyFile, encSnapshots,
                     mixed, unannounced>>
  PROVE  EncInv'
<1> USE DEF EncInv
<1>1. CommandOK' /\ FreshOK' /\ KeyOK' /\ ReadingKey' /\ KeysKept' /\ ContentsOK'
  BY StoredKept DEF CommandOK, FreshOK, KeyOK, ReadingKey
<1>2. OneSetting' /\ Announced'
  BY DEF OneSetting, Announced, ChunkOf, SettingKey
<1> QED
  BY <1>1, <1>2

\* A command that ends, or init when it has made the key of a new repository.
LEMMA EndingInv ==
  ASSUME EncInv, encPc' = "idle",
         UNCHANGED <<opening, encCommand, encKey, encSource, encConfig, keyFile, encSnapshots,
                     encSalts, mixed, unannounced>>
  PROVE  EncInv'
<1> USE DEF EncInv
<1>1. EncTypeOK'
  BY DEF EncTypeOK, SnapshotOK
<1>2. AllOpeningOK'
  BY OpeningKept
<1>3. CommandOK' /\ FreshOK' /\ KeyOK' /\ ReadingKey' /\ KeysKept' /\ ContentsOK'
  BY StoredKept DEF CommandOK, FreshOK, KeyOK, ReadingKey
<1>4. OneSetting' /\ Announced'
  BY DEF OneSetting, Announced, ChunkOf, SettingKey
<1> QED
  BY <1>1, <1>2, <1>3, <1>4

LEMMA ChangeFileInv ==
  ASSUME EncInv, ChangeFile
  PROVE  EncInv'
<1> USE DEF ChangeFile
<1>1. EncTypeOK'
  BY DEF EncInv, EncTypeOK, SnapshotOK
<1>2. AllOpeningOK'
  BY OpeningKept DEF EncInv
<1> QED
  BY <1>1, <1>2, OutsideInv

LEMMA InitRepositoryInv ==
  ASSUME EncInv, InitRepository
  PROVE  EncInv'
<1> USE DEF EncInv, InitRepository, FreshOK
<1>1. encSnapshots = <<>> /\ encSnapshots' = <<>> /\ keyFile' = NoKey /\ encPc' \in {"key", "idle"}
  OBVIOUS
<1>2. EncTypeOK'
  BY <1>1 DEF EncTypeOK, SnapshotOK
<1>3. AllOpeningOK'
  BY DEF AllOpeningOK, OpeningOK
<1>4. CommandOK' /\ FreshOK' /\ KeyOK' /\ ReadingKey' /\ KeysKept' /\ ContentsOK'
  BY <1>1 DEF CommandOK, KeyOK, ReadingKey, KeysKept, ContentsOK
<1>5. OneSetting' /\ Announced'
  BY <1>1 DEF OneSetting, Announced
<1> QED
  BY <1>2, <1>3, <1>4, <1>5

LEMMA SaveInitKeyInv ==
  ASSUME EncInv, SaveInitKey
  PROVE  EncInv'
<1> USE DEF EncInv, SaveInitKey, FreshOK
<1>1. encSnapshots = <<>> /\ encSnapshots' = <<>> /\ encPc' = "idle" /\ encConfig # "none"
  OBVIOUS
<1>2. EncTypeOK'
  BY <1>1 DEF EncTypeOK, SnapshotOK, DeriveKey, Keys
<1>3. AllOpeningOK'
  BY OpeningKept
<1>4. CommandOK' /\ FreshOK' /\ KeyOK' /\ ReadingKey' /\ KeysKept' /\ ContentsOK'
  BY <1>1 DEF CommandOK, KeyOK, ReadingKey, KeysKept, ContentsOK
<1>5. OneSetting' /\ Announced'
  BY <1>1 DEF OneSetting, Announced
<1> QED
  BY <1>2, <1>3, <1>4, <1>5

-----------------------------------------------------------------------------
\* Opening the repository.

\* A user's command goes on: the others are left alone.
LEMMA OpeningSet ==
  ASSUME EncInv, NEW u \in EncUsers, NEW o, OpeningOK(o), opening' = [opening EXCEPT ![u] = o],
         UNCHANGED <<encConfig, encSnapshots>>
  PROVE  AllOpeningOK' /\ opening' = [v \in EncUsers |-> opening'[v]]
<1>1. /\ opening' = [v \in EncUsers |-> opening'[v]]
      /\ \A v \in EncUsers : opening'[v] = IF v = u THEN o ELSE opening[v]
  BY DEF EncInv, EncTypeOK
<1>2. OpeningOK(o)' /\ \A v \in EncUsers : OpeningOK(opening[v])
  BY DEF OpeningOK, EncInv, AllOpeningOK
<1> QED
  BY <1>1, <1>2 DEF AllOpeningOK, OpeningOK

LEMMA ListForIncrementalInv ==
  ASSUME EncInv, NEW u \in EncUsers, ListForIncremental(u)
  PROVE  EncInv'
<1> DEFINE o == [kind |-> "incremental", base |-> Len(encSnapshots), setting |-> "none"]
<1>1. /\ encSnapshots # <<>> /\ LastSnapshot.root = TheDirectory
      /\ opening' = [opening EXCEPT ![u] = o]
      /\ UNCHANGED <<encPc, encCommand, encKey, encSource, encConfig, keyFile, encSnapshots,
                     encSalts, mixed, unannounced>>
  BY DEF ListForIncremental
<1>2. Len(encSnapshots) \in DOMAIN encSnapshots /\ encConfig # "none"
  BY <1>1 DEF EncInv, EncTypeOK, FreshOK
<1>3. OpeningOK(o)
  BY <1>1, <1>2 DEF OpeningOK, LastSnapshot
<1> HIDE DEF o
<1>4. AllOpeningOK' /\ opening' = [v \in EncUsers |-> opening'[v]]
  BY <1>1, <1>3, OpeningSet
<1>5. EncTypeOK'
  BY <1>1, <1>4 DEF EncInv, EncTypeOK, SnapshotOK
<1> QED
  BY <1>1, <1>4, <1>5, OutsideInv

LEMMA LoadConfigInv ==
  ASSUME EncInv, NEW u \in EncUsers, LoadConfig(u)
  PROVE  EncInv'
<1>1. /\ encConfig # "none"
      /\ UNCHANGED <<encPc, encCommand, encKey, encSource, encConfig, keyFile, encSnapshots,
                     encSalts, mixed, unannounced>>
  BY DEF LoadConfig
<1>2. encConfig \in {"on", "off"}
  BY <1>1 DEF EncInv, EncTypeOK
<1>3. PICK o : OpeningOK(o) /\ opening' = [opening EXCEPT ![u] = o]
  <2>1. CASE opening[u] = NoCommand
    <3>1. PICK kind \in {"full", "restore", "config"} :
            opening' = [opening EXCEPT ![u] = [kind |-> kind, base |-> 0, setting |-> encConfig]]
      BY <2>1 DEF LoadConfig, NoCommand
    <3>2. OpeningOK([kind |-> kind, base |-> 0, setting |-> encConfig])
      BY <1>1, <1>2 DEF OpeningOK
    <3> QED
      BY <3>1, <3>2
  <2>2. CASE opening[u] # NoCommand
    <3> DEFINE o == [opening[u] EXCEPT !.setting = encConfig]
    <3>1. opening' = [opening EXCEPT ![u] = o] /\ opening[u].kind = "incremental"
      BY <2>2 DEF LoadConfig
    <3>2. OpeningOK(opening[u])
      BY DEF EncInv, AllOpeningOK
    <3>3. /\ o.kind = "incremental" /\ o.base = opening[u].base
          /\ o \in [kind : {"full", "incremental", "restore", "config"}, base : Nat,
                    setting : {"none", "on", "off"}]
      BY <1>2, <2>2, <3>1, <3>2 DEF OpeningOK
    <3> HIDE DEF o
    <3>4. OpeningOK(o)
      BY <1>1, <2>2, <3>1, <3>2, <3>3 DEF OpeningOK
    <3> QED
      BY <3>1, <3>4
  <2> QED
    BY <2>1, <2>2
<1>4. AllOpeningOK' /\ opening' = [v \in EncUsers |-> opening'[v]]
  BY <1>1, <1>3, OpeningSet
<1>5. EncTypeOK'
  BY <1>1, <1>4 DEF EncInv, EncTypeOK, SnapshotOK
<1> QED
  BY <1>1, <1>4, <1>5, OutsideInv

\* A user is without a command.
LEMMA FreedUser ==
  ASSUME EncInv, NEW u \in EncUsers, opening' = [opening EXCEPT ![u] = NoCommand]
  PROVE  /\ opening' = [v \in EncUsers |-> opening'[v]]
         /\ \A v \in EncUsers : opening'[v] \in {opening[v], NoCommand}
  BY DEF EncInv, EncTypeOK

LEMMA GivesUpInv ==
  ASSUME EncInv, NEW u \in EncUsers, GivesUp(u)
  PROVE  EncInv'
<1> USE DEF GivesUp
<1>1. EncTypeOK'
  BY FreedUser DEF EncInv, EncTypeOK, SnapshotOK
<1>2. AllOpeningOK'
  BY FreedUser, OpeningKept DEF EncInv
<1> QED
  BY <1>1, <1>2, OutsideInv

-----------------------------------------------------------------------------
\* With the lock.

\* What resolving a key does: the key file stays unless there is none, and a
\* command that goes on has its key.
LEMMA ResolvedKey ==
  ASSUME EncTypeOK, NEW p \in Passwords, NEW next, Resolved(p, next)
  PROVE  /\ encKey' \in Keys \cup {NoKey} /\ keyFile' \in Keys /\ encSalts' \in Nat
         /\ keyFile # NoKey => keyFile' = keyFile
         /\ encPc' \in {next, "idle"}
         /\ encPc' = next /\ next # "idle" => encKey' = keyFile'
<1>1. keyFile # NoKey => keyFile \in Keys
  BY DEF EncTypeOK
<1>2. DeriveKey(p) \in Keys
  BY DEF EncTypeOK, DeriveKey, Keys
<1> QED
  BY <1>1, <1>2 DEF Resolved, EncTypeOK

\* NoKey is not a key.
LEMMA NoKeyApart == NoKey \notin Keys
  BY EncodingAssumption DEF Keys

\* A key is made only where nothing has been stored under the current setting.
LEMMA KeyStays ==
  ASSUME EncInv, UNCHANGED <<encConfig, encSnapshots, mixed>>, encPc' # "store",
         keyFile # NoKey => keyFile' = keyFile
  PROVE  OneSetting'
<1> SUFFICES ASSUME ~mixed PROVE OneSetting'
  BY DEF OneSetting
<1>1. CASE encSnapshots = <<>>
  BY <1>1 DEF OneSetting
<1>2. CASE encSnapshots # <<>>
  <2>1. SettingKey' = SettingKey /\ (encConfig = "on" => keyFile' # NoKey)
    BY <1>2 DEF EncInv, OneSetting, SettingKey
  <2>2. \A s \in DOMAIN encSnapshots : \A f \in DOMAIN encSnapshots[s].nodes :
          ChunkOf(s, f)' = ChunkOf(s, f) /\ ChunkOf(s, f).key = SettingKey
    BY DEF EncInv, OneSetting, ChunkOf
  <2> QED
    BY <2>1, <2>2 DEF OneSetting
<1> QED
  BY <1>1, <1>2

LEMMA StartEncRestoreInv ==
  ASSUME EncInv, NEW u \in EncUsers, StartEncRestore(u)
  PROVE  EncInv'
<1> USE DEF EncInv
<1>1. /\ opening[u].kind = "restore" /\ encPc = "idle"
      /\ opening' = [opening EXCEPT ![u] = NoCommand] /\ encCommand' = opening[u]
      /\ UNCHANGED <<encSource, encConfig, encSnapshots, mixed, unannounced>>
      /\ IF opening[u].setting = "on" THEN \E p \in Passwords : Resolved(p, "reading")
         ELSE encKey' = NoKey /\ encPc' = "reading" /\ UNCHANGED <<keyFile, encSalts>>
  BY DEF StartEncRestore, TakesLock
<1>2. encConfig # "none"
  BY <1>1 DEF AllOpeningOK, OpeningOK, NoCommand
<1>3. /\ encKey' \in Keys \cup {NoKey} /\ keyFile' \in Keys \cup {NoKey} /\ encSalts' \in Nat
      /\ keyFile # NoKey => keyFile' = keyFile
      /\ encPc' \in {"reading", "idle"}
      /\ encPc' = "reading" =>
           IF opening[u].setting = "on" THEN encKey' = keyFile' /\ keyFile' # NoKey
           ELSE encKey' = NoKey
  <2>1. CASE opening[u].setting = "on"
    <3>1. PICK p \in Passwords : Resolved(p, "reading")
      BY <1>1, <2>1
    <3> QED
      BY <2>1, <3>1, ResolvedKey, NoKeyApart
  <2>2. CASE opening[u].setting # "on"
    BY <1>1, <2>2 DEF EncTypeOK
  <2> QED
    BY <2>1, <2>2
<1>4. EncTypeOK'
  BY <1>1, <1>3, FreedUser DEF EncTypeOK, SnapshotOK
<1>5. AllOpeningOK'
  BY <1>1, FreedUser, OpeningKept
<1>6. CommandOK' /\ FreshOK' /\ KeyOK' /\ ReadingKey' /\ KeysKept' /\ ContentsOK'
  BY <1>1, <1>2, <1>3, StoredKept DEF CommandOK, FreshOK, KeyOK, ReadingKey
<1>7. OneSetting'
  BY <1>1, <1>3, KeyStays DEF OneSetting
<1>8. Announced'
  BY <1>1, <1>3 DEF Announced, ChunkOf
<1> QED
  BY <1>4, <1>5, <1>6, <1>7, <1>8

LEMMA StartEncBackupInv ==
  ASSUME EncInv, NEW u \in EncUsers, StartEncBackup(u)
  PROVE  EncInv'
<1> USE DEF EncInv
<1> DEFINE o == opening[u]
<1>1. PICK root \in Roots, encrypt \in BOOLEAN, p \in Passwords :
        /\ o.kind = "incremental" => root = TheDirectory
        /\ encCommand' = [kind |-> o.kind, base |-> o.base, setting |-> o.setting,
                          root |-> root, encrypt |-> encrypt]
        /\ IF UseEncryption(encrypt, o.setting) THEN Resolved(p, "resolved")
           ELSE /\ encKey' = NoKey /\ encPc' = "resolved"
                /\ UNCHANGED <<keyFile, encSalts>>
  BY DEF StartEncBackup, Roots
<1>2. /\ UNCHANGED <<encSource, encConfig, encSnapshots, mixed, unannounced>>
      /\ o.kind \in Backups /\ encPc = "idle" /\ opening' = [opening EXCEPT ![u] = NoCommand]
      /\ o.setting # "none"
  BY DEF StartEncBackup, TakesLock
<1>3. encConfig # "none" /\ OpeningOK(o)
  BY <1>2 DEF AllOpeningOK, OpeningOK, NoCommand, Backups
<1>4. /\ encKey' \in Keys \cup {NoKey} /\ keyFile' \in Keys \cup {NoKey} /\ encSalts' \in Nat
      /\ keyFile # NoKey => keyFile' = keyFile
      /\ encPc' \in {"resolved", "idle"}
      /\ encPc' = "resolved" =>
           encKey' \in {NoKey, keyFile'} /\ (encKey' # NoKey <=> UseEncryption(encrypt, o.setting))
  <2>1. CASE UseEncryption(encrypt, o.setting)
    <3>1. Resolved(p, "resolved")
      BY <1>1, <2>1
    <3> QED
      BY <2>1, <3>1, ResolvedKey, NoKeyApart
  <2>2. CASE ~UseEncryption(encrypt, o.setting)
    BY <1>1, <2>2 DEF EncTypeOK
  <2> QED
    BY <2>1, <2>2
<1>5. /\ encCommand'.kind = o.kind /\ encCommand'.root = root /\ encCommand'.encrypt = encrypt
      /\ encCommand'.base = o.base /\ encCommand'.setting = o.setting
  BY <1>1
<1>6. EncTypeOK'
  BY <1>2, <1>4, FreedUser DEF EncTypeOK, SnapshotOK
<1>7. AllOpeningOK'
  BY <1>2, FreedUser, OpeningKept
<1>8. CommandOK'
  BY <1>1, <1>2, <1>3, <1>4, <1>5 DEF CommandOK, OpeningOK, NoCommand, Backups
<1>9. FreshOK' /\ KeyOK' /\ ReadingKey' /\ KeysKept' /\ ContentsOK'
  BY <1>2, <1>3, <1>4, <1>5, StoredKept DEF FreshOK, KeyOK, ReadingKey
<1>10. OneSetting'
  BY <1>2, <1>4, KeyStays DEF OneSetting
<1>11. Announced'
  BY <1>2, <1>4 DEF Announced, ChunkOf
<1> QED
  BY <1>6, <1>7, <1>8, <1>9, <1>10, <1>11

\* A backup stores as the configuration says unless it is at odds with it.
LEMMA AtOddsOnly ==
  ASSUME EncInv, encPc = "resolved", ~AtOdds
  PROVE  encKey # NoKey <=> NewConfig = "on"
<1>1. /\ encCommand.kind \in Backups /\ encCommand.encrypt \in BOOLEAN
      /\ encCommand.setting \in {"on", "off"} /\ encCommand.setting = encConfig
      /\ ~(encCommand.kind = "incremental" /\ encCommand.encrypt)
  BY DEF EncInv, CommandOK, AtOdds
<1>2. encKey # NoKey <=> (encCommand.encrypt \/ encCommand.setting = "on")
  BY DEF EncInv, KeyOK, UseEncryption
<1> QED
  BY <1>1, <1>2 DEF NewConfig, Backups

LEMMA SaveConfigInv ==
  ASSUME EncInv, SaveConfig
  PROVE  EncInv'
<1> USE DEF EncInv
<1>1. /\ encPc = "resolved" /\ encPc' = "store" /\ encConfig' = NewConfig
      /\ UNCHANGED <<opening, encCommand, encKey, encSource, keyFile, encSnapshots, encSalts>>
  BY DEF SaveConfig
<1>2. encConfig # "none" /\ NewConfig \in {encConfig, "on"}
  BY <1>1 DEF CommandOK, NewConfig
<1>3. EncTypeOK'
  BY <1>1, <1>2 DEF EncTypeOK, SnapshotOK
<1>4. AllOpeningOK'
  BY <1>1, <1>2 DEF AllOpeningOK, OpeningOK
<1>5. CommandOK' /\ FreshOK' /\ KeyOK' /\ ReadingKey' /\ KeysKept' /\ ContentsOK'
  BY <1>1, <1>2, StoredKept DEF CommandOK, FreshOK, KeyOK, ReadingKey
<1>6. OneSetting'
  <2> SUFFICES ASSUME ~mixed' PROVE OneSetting'
    BY DEF OneSetting
  <2>1. /\ ~mixed /\ (encKey # NoKey <=> NewConfig = "on")
        /\ NewConfig = encConfig \/ encSnapshots = <<>>
    BY <1>1, AtOddsOnly DEF SaveConfig
  <2>2. encKey' = SettingKey' /\ (encConfig' = "on" => keyFile' # NoKey)
    BY <1>1, <2>1 DEF KeyOK, SettingKey
  <2>3. CASE encSnapshots = <<>>
    BY <1>1, <2>2, <2>3 DEF OneSetting
  <2>4. CASE NewConfig = encConfig
    <3>1. SettingKey' = SettingKey
      BY <1>1, <2>4 DEF SettingKey
    <3>2. \A s \in DOMAIN encSnapshots : \A f \in DOMAIN encSnapshots[s].nodes :
            ChunkOf(s, f)' = ChunkOf(s, f) /\ ChunkOf(s, f).key = SettingKey
      BY <1>1, <2>1 DEF ChunkOf, OneSetting
    <3> QED
      BY <1>1, <2>1, <2>2, <2>4, <3>1, <3>2 DEF OneSetting
  <2> QED
    BY <2>1, <2>3, <2>4
<1>7. Announced'
  <2> SUFFICES ASSUME ~unannounced', encConfig' # "on" PROVE Announced'
    BY DEF Announced
  <2>1. ~unannounced /\ encKey = NoKey /\ encConfig # "on"
    BY <1>1, <1>2, AtOddsOnly DEF SaveConfig
  <2> QED
    BY <1>1, <2>1 DEF Announced, ChunkOf
<1> QED
  BY <1>3, <1>4, <1>5, <1>6, <1>7

LEMMA SaveLoadedConfigInv ==
  ASSUME EncInv, NEW u \in EncUsers, SaveLoadedConfig(u)
  PROVE  EncInv'
<1> USE DEF EncInv
<1> DEFINE set == opening[u].setting
<1>1. /\ opening[u].kind = "config" /\ encPc = "idle" /\ encConfig' = set
      /\ opening' = [opening EXCEPT ![u] = NoCommand] /\ set # "none"
      /\ UNCHANGED <<encPc, encCommand, encKey, encSource, keyFile, encSnapshots, encSalts>>
      /\ mixed' = (mixed \/ (set # encConfig /\ encSnapshots # <<>>))
      /\ unannounced' = (unannounced \/ (set # encConfig /\ encSnapshots # <<>> /\ set = "off"))
  BY DEF SaveLoadedConfig, TakesLock
<1>2. set \in {"on", "off"} /\ encConfig # "none"
  BY <1>1 DEF AllOpeningOK, OpeningOK, NoCommand
<1> HIDE DEF set
<1>3. EncTypeOK'
  BY <1>1, <1>2, FreedUser DEF EncTypeOK, SnapshotOK
<1>4. AllOpeningOK'
  BY <1>1, <1>2, FreedUser DEF AllOpeningOK, OpeningOK
<1>5. CommandOK' /\ FreshOK' /\ KeyOK' /\ ReadingKey' /\ KeysKept' /\ ContentsOK'
  BY <1>1, <1>2, StoredKept DEF CommandOK, FreshOK, KeyOK, ReadingKey
<1>6. CASE encSnapshots = <<>>
  <2>1. OneSetting' /\ Announced'
    BY <1>1, <1>6 DEF OneSetting, Announced
  <2> QED
    BY <1>3, <1>4, <1>5, <2>1
<1>7. CASE set = encConfig
  <2>1. OneSetting' /\ Announced'
    BY <1>1, <1>7 DEF OneSetting, Announced, ChunkOf, SettingKey
  <2> QED
    BY <1>3, <1>4, <1>5, <2>1
<1>8. CASE encSnapshots # <<>> /\ set # encConfig
  <2>1. OneSetting'
    BY <1>1, <1>8 DEF OneSetting
  <2>2. Announced'
    BY <1>1, <1>2, <1>8 DEF Announced
  <2> QED
    BY <1>3, <1>4, <1>5, <2>1, <2>2
<1> QED
  BY <1>6, <1>7, <1>8

-----------------------------------------------------------------------------
\* Saving a snapshot.

\* What is true of every node a running backup makes for file f: it has the
\* file's content, under the backup's key or that of an earlier chunk of f, and
\* its keys are kept.
NodeGood(node, f) ==
  /\ node \in NodeTypes
  /\ node.chunk.content = encSource[f]
  /\ \/ node.chunk.key = encKey
     \/ \E s \in DOMAIN encSnapshots :
          f \in DOMAIN encSnapshots[s].nodes /\ node.chunk.key = ChunkOf(s, f).key
  /\ \A c \in {node.chunk} \cup {node.versions[i].chunk : i \in DOMAIN node.versions} :
       c.key \in {NoKey, keyFile}

\* A file that is stored afresh, with or without a version.
LEMMA NewNodeGood ==
  ASSUME EncInv, encPc = "store", NEW f \in EncFiles,
         NEW old \in Seq([of : Nat, chunk : ChunkTypes]),
         \A i \in DOMAIN old : old[i].chunk.key \in {NoKey, keyFile}
  PROVE  NodeGood(NewNode(f, old), f)
<1>1. ProcessChunk(encSource[f]) \in ChunkTypes
  BY DEF EncInv, EncTypeOK, ProcessChunk, ChunkTypes
<1>2. encKey \in {NoKey, keyFile}
  BY DEF EncInv, KeyOK
<1>3. NewNode(f, old) \in NodeTypes
  BY <1>1 DEF NewNode, NodeTypes
<1> QED
  BY <1>1, <1>2, <1>3 DEF NodeGood, NewNode, ProcessChunk

\* A file without versions.
LEMMA FreshNodeGood ==
  ASSUME EncInv, encPc = "store", NEW f \in EncFiles
  PROVE  NodeGood(NewNode(f, <<>>), f)
<1> DEFINE none == <<>>
<1>1. none \in Seq([of : Nat, chunk : ChunkTypes]) /\ DOMAIN none = {}
  OBVIOUS
<1> HIDE DEF none
<1>2. NodeGood(NewNode(f, none), f)
  BY <1>1, NewNodeGood
<1> QED
  BY <1>2 DEF none

\* A file of a snapshot.
LEMMA StoredNode ==
  ASSUME EncInv, NEW s \in DOMAIN encSnapshots, NEW f \in FilesOf(encSnapshots[s].root)
  PROVE  /\ encSnapshots[s].nodes[f] \in NodeTypes /\ f \in DOMAIN encSnapshots[s].nodes
         /\ \A c \in {encSnapshots[s].nodes[f].chunk} \cup
                {encSnapshots[s].nodes[f].versions[i].chunk :
                   i \in DOMAIN encSnapshots[s].nodes[f].versions} : c.key \in {NoKey, keyFile}
<1>1. encSnapshots[s].nodes \in [FilesOf(encSnapshots[s].root) -> NodeTypes]
  BY DEF EncInv, EncTypeOK, SnapshotOK
<1> QED
  BY <1>1 DEF EncInv, KeysKept

LEMMA LastNode ==
  ASSUME EncInv, encSnapshots # <<>>, NEW f \in FilesOf(LastSnapshot.root)
  PROVE  /\ Len(encSnapshots) \in DOMAIN encSnapshots /\ Len(encSnapshots) \in Nat
         /\ LastSnapshot.nodes[f] \in NodeTypes /\ f \in DOMAIN LastSnapshot.nodes
         /\ LastSnapshot.nodes[f].chunk.key \in {NoKey, keyFile}
<1>1. Len(encSnapshots) \in DOMAIN encSnapshots /\ Len(encSnapshots) \in Nat
  BY DEF EncInv, EncTypeOK
<1> QED
  BY <1>1, StoredNode DEF LastSnapshot

\* A full backup's nodes, whether a chunk is taken over or stored.
LEMMA FullNodeGood ==
  ASSUME EncInv, encPc = "store", NEW f \in EncFiles
  PROVE  NodeGood(FullNode(f), f)
<1>1. CASE encSnapshots = <<>> \/ LastSnapshot.root # f
  BY <1>1, FreshNodeGood DEF FullNode
<1>2. CASE encSnapshots # <<>> /\ LastSnapshot.root = f
  <2> DEFINE old == LastSnapshot.nodes[f]
  <2>1. f \in FilesOf(LastSnapshot.root)
    BY <1>2, EncodingAssumption DEF FilesOf
  <2>2. /\ Len(encSnapshots) \in DOMAIN encSnapshots /\ Len(encSnapshots) \in Nat
        /\ old \in NodeTypes /\ f \in DOMAIN LastSnapshot.nodes
        /\ old.chunk.key \in {NoKey, keyFile} /\ old.chunk \in ChunkTypes
    BY <1>2, <2>1, LastNode DEF NodeTypes
  <2> HIDE DEF old
  <2>3. CASE old.chunk.content = encSource[f]
    <3>1. FullNode(f) = [old EXCEPT !.versions = <<>>]
      BY <1>2, <2>3 DEF FullNode, old
    <3>2. FullNode(f) \in NodeTypes /\ FullNode(f).chunk = old.chunk /\ FullNode(f).versions = <<>>
      <4>1. <<>> \in Seq([of : Nat, chunk : ChunkTypes])
        OBVIOUS
      <4>2. DOMAIN old = {"chunk", "versions"} /\ old = [chunk |-> old.chunk, versions |-> old.versions]
        BY <2>2 DEF NodeTypes
      <4>3. FullNode(f) = [chunk |-> old.chunk, versions |-> <<>>]
        BY <3>1, <4>2
      <4> QED
        BY <2>2, <4>1, <4>3 DEF NodeTypes
    <3>3. old.chunk.key = ChunkOf(Len(encSnapshots), f).key
      BY DEF ChunkOf, LastSnapshot, old
    <3> QED
      BY <2>2, <2>3, <3>2, <3>3 DEF NodeGood, LastSnapshot
  <2>4. CASE old.chunk.content # encSource[f]
    <3> DEFINE versions == <<[of |-> Len(encSnapshots), chunk |-> old.chunk]>>
    <3>1. FullNode(f) = NewNode(f, versions)
      BY <1>2, <2>4 DEF FullNode, old
    <3>2. versions \in Seq([of : Nat, chunk : ChunkTypes])
          /\ \A i \in DOMAIN versions : versions[i].chunk.key \in {NoKey, keyFile}
      BY <2>2
    <3> QED
      BY <3>1, <3>2, NewNodeGood
  <2> QED
    BY <2>3, <2>4
<1> QED
  BY <1>1, <1>2

\* An incremental backup's.
LEMMA IncrementalNodeGood ==
  ASSUME EncInv, encPc = "store", encCommand.kind = "incremental", NEW f \in EncFiles
  PROVE  NodeGood(IncrementalNodes[f], f)
<1> DEFINE b == encCommand.base
           old == encSnapshots[b].nodes[f]
<1>1. b \in DOMAIN encSnapshots /\ encSnapshots[b].root = TheDirectory
  BY DEF EncInv, CommandOK
<1>2. f \in FilesOf(encSnapshots[b].root)
  BY <1>1 DEF FilesOf
<1>3. CASE old.chunk.content = encSource[f]
  <2>1. IncrementalNodes[f] = old
    BY <1>3 DEF IncrementalNodes
  <2>2. old.chunk.key = ChunkOf(b, f).key
    BY DEF ChunkOf
  <2>3. /\ old \in NodeTypes /\ f \in DOMAIN encSnapshots[b].nodes
        /\ \A c \in {old.chunk} \cup {old.versions[i].chunk : i \in DOMAIN old.versions} :
             c.key \in {NoKey, keyFile}
    BY <1>1, <1>2, StoredNode
  <2> QED
    BY <1>1, <1>3, <2>1, <2>2, <2>3 DEF NodeGood
<1>4. CASE old.chunk.content # encSource[f]
  BY <1>4, FreshNodeGood DEF IncrementalNodes
<1> QED
  BY <1>3, <1>4

LEMMA SaveEncSnapshotInv ==
  ASSUME EncInv, SaveEncSnapshot
  PROVE  EncInv'
<1> DEFINE r == encSnapshots'[Len(encSnapshots) + 1]
<1>1. encPc = "store" /\ encPc' = "idle" /\ encConfig # "none"
      /\ UNCHANGED <<opening, encCommand, encKey, encSource, encConfig, keyFile, encSalts, mixed,
                     unannounced>>
  BY DEF SaveEncSnapshot, EncInv, CommandOK
<1>2. encCommand.root \in Roots /\ FilesOf(encCommand.root) \subseteq EncFiles
      /\ (encCommand.kind = "incremental" => FilesOf(encCommand.root) = EncFiles)
  BY <1>1 DEF EncInv, CommandOK, Roots, FilesOf
<1> DEFINE nodes == IF encCommand.kind = "full" THEN FullNodes ELSE IncrementalNodes
<1>3. nodes = [f \in FilesOf(encCommand.root) |-> nodes[f]]
      /\ \A f \in FilesOf(encCommand.root) : NodeGood(nodes[f], f)
  <2>1. CASE encCommand.kind = "full"
    BY <1>1, <1>2, <2>1, FullNodeGood DEF FullNodes
  <2>2. CASE encCommand.kind # "full"
    <3>1. encCommand.kind = "incremental"
      BY <1>1, <2>2 DEF EncInv, CommandOK, Backups
    <3>2. nodes = IncrementalNodes
      BY <2>2
    <3> QED
      BY <1>1, <1>2, <3>1, <3>2, IncrementalNodeGood DEF IncrementalNodes
  <2> QED
    BY <2>1, <2>2
<1>4. nodes \in [FilesOf(encCommand.root) -> NodeTypes]
  <2>1. \A f \in FilesOf(encCommand.root) : nodes[f] \in NodeTypes
    BY <1>3 DEF NodeGood
  <2> HIDE DEF nodes
  <2> QED
    BY <1>3, <2>1
<1> DEFINE new == [root |-> encCommand.root, nodes |-> nodes, source |-> encSource]
<1>5. encSnapshots' = Append(encSnapshots, new)
  BY DEF SaveEncSnapshot
<1> HIDE DEF nodes
<1>6. new \in [root : Roots, nodes : UNION {[S -> NodeTypes] : S \in SUBSET EncFiles},
               source : [EncFiles -> EncContents]]
  BY <1>2, <1>4 DEF EncInv, EncTypeOK
<1>7. /\ DOMAIN encSnapshots' = DOMAIN encSnapshots \cup {Len(encSnapshots) + 1}
      /\ \A s \in DOMAIN encSnapshots : encSnapshots'[s] = encSnapshots[s]
      /\ encSnapshots'[Len(encSnapshots) + 1] = new /\ encSnapshots' # <<>>
  BY <1>5, <1>6 DEF EncInv, EncTypeOK
<1> HIDE DEF new
<1>8. EncTypeOK'
  <2>1. SnapshotOK(new)
    BY <1>2, <1>4 DEF SnapshotOK, EncInv, EncTypeOK, new
  <2>2. \A s \in DOMAIN encSnapshots' : SnapshotOK(encSnapshots'[s])
    BY <1>7, <2>1 DEF EncInv, EncTypeOK
  <2>3. encSnapshots' \in Seq([root : Roots, nodes : UNION {[S -> NodeTypes] : S \in SUBSET EncFiles},
                           source : [EncFiles -> EncContents]])
    BY <1>5, <1>6 DEF EncInv, EncTypeOK
  <2> QED
    BY <1>1, <2>2, <2>3 DEF EncInv, EncTypeOK, SnapshotOK
<1>9. new.nodes = nodes /\ new.source = encSource /\ DOMAIN nodes = FilesOf(encCommand.root)
  BY <1>4 DEF new
<1>10. AllOpeningOK' /\ CommandOK' /\ FreshOK' /\ KeyOK' /\ ReadingKey'
  BY <1>1, <1>7 DEF EncInv, AllOpeningOK, OpeningOK, CommandOK, FreshOK, KeyOK, ReadingKey
<1>11. KeysKept'
  BY <1>1, <1>3, <1>7, <1>9 DEF EncInv, KeysKept, NodeGood
<1>12. ContentsOK'
  BY <1>1, <1>3, <1>7, <1>9 DEF EncInv, ContentsOK, ChunkOf, NodeGood
<1>13. OneSetting'
  <2> SUFFICES ASSUME ~mixed PROVE OneSetting'
    BY <1>1 DEF OneSetting
  <2>1. encKey = SettingKey /\ (encConfig = "on" => keyFile # NoKey) /\ SettingKey' = SettingKey
    BY <1>1 DEF EncInv, OneSetting, SettingKey
  <2>2. \A s \in DOMAIN encSnapshots : \A f \in DOMAIN encSnapshots[s].nodes :
          ChunkOf(s, f).key = SettingKey /\ ChunkOf(s, f)' = ChunkOf(s, f)
    BY <1>7 DEF EncInv, OneSetting, ChunkOf
  <2>3. \A f \in DOMAIN nodes : nodes[f].chunk.key = SettingKey
    BY <1>3, <1>9, <2>1, <2>2 DEF NodeGood
  <2>4. \A s \in DOMAIN encSnapshots' : \A f \in DOMAIN encSnapshots'[s].nodes :
          ChunkOf(s, f)'.key = SettingKey
    BY <1>7, <1>9, <2>2, <2>3 DEF ChunkOf
  <2> QED
    BY <1>1, <2>1, <2>4 DEF OneSetting
<1>14. Announced'
  <2> SUFFICES ASSUME ~unannounced, encConfig # "on" PROVE Announced'
    BY <1>1 DEF Announced
  <2>1. encKey = NoKey
    BY <1>1 DEF EncInv, Announced
  <2>2. \A s \in DOMAIN encSnapshots : \A f \in DOMAIN encSnapshots[s].nodes :
          ChunkOf(s, f).key = NoKey /\ ChunkOf(s, f)' = ChunkOf(s, f)
    BY <1>7 DEF EncInv, Announced, ChunkOf
  <2>3. \A f \in DOMAIN nodes : nodes[f].chunk.key = NoKey
    BY <1>3, <1>9, <2>1, <2>2 DEF NodeGood
  <2>4. \A s \in DOMAIN encSnapshots' : \A f \in DOMAIN encSnapshots'[s].nodes :
          ChunkOf(s, f)'.key = NoKey
    BY <1>7, <1>9, <2>2, <2>3 DEF ChunkOf
  <2> QED
    BY <1>1, <2>4 DEF Announced
<1> QED
  BY <1>8, <1>10, <1>11, <1>12, <1>13, <1>14 DEF EncInv

LEMMA NextEncInv == EncInv /\ [EncodingNext]_encVars => EncInv'
<1> SUFFICES ASSUME EncInv, [EncodingNext]_encVars PROVE EncInv'
  OBVIOUS
<1>1. CASE UNCHANGED encVars
  <2>1. EncTypeOK' /\ AllOpeningOK'
    BY <1>1 DEF encVars, EncInv, EncTypeOK, SnapshotOK, AllOpeningOK, OpeningOK
  <2> QED
    BY <1>1, <2>1, OutsideInv DEF encVars
<1>2. CASE SaveConfig \/ SaveEncSnapshot
  BY <1>2, SaveConfigInv, SaveEncSnapshotInv
<1>3. CASE EndEncRestore \/ CrashEnc
  BY <1>3, EndingInv DEF EndEncRestore, CrashEnc
<1>4. CASE ChangeFile \/ InitRepository \/ SaveInitKey
  BY <1>4, ChangeFileInv, InitRepositoryInv, SaveInitKeyInv
<1>5. ASSUME NEW u \in EncUsers,
             \/ ListForIncremental(u) \/ LoadConfig(u) \/ GivesUp(u)
             \/ StartEncBackup(u) \/ StartEncRestore(u) \/ SaveLoadedConfig(u)
      PROVE  EncInv'
  BY <1>5, ListForIncrementalInv, LoadConfigInv, GivesUpInv, StartEncBackupInv,
     StartEncRestoreInv, SaveLoadedConfigInv
<1> QED
  BY <1>1, <1>2, <1>3, <1>4, <1>5 DEF EncodingNext

-----------------------------------------------------------------------------

\* The inductive invariant holds in every reachable state.
THEOREM EncInvariant == EncodingSpec => []EncInv
  BY InitEncInv, NextEncInv, PTL DEF EncodingSpec

\* Whichever command made the key file and whichever died, every encrypted chunk
\* of every snapshot, versions included, has the key of the key file.
THEOREM KeysAlwaysKept == EncodingSpec => []KeysKept
<1>1. EncInv => KeysKept
  BY DEF EncInv
<1> QED
  BY <1>1, EncInvariant, PTL

\* As long as backups store as the configuration says, a restore that runs with
\* the current setting gives back every file of every snapshot as it was when
\* the snapshot was taken.
THEOREM AlwaysRestorableUnderOneSetting == EncodingSpec => []RestorableUnderOneSetting
<1>1. EncInv => RestorableUnderOneSetting
  <2> SUFFICES ASSUME EncInv, ReadsBySetting, ~mixed, NEW s \in DOMAIN encSnapshots,
                      NEW f \in DOMAIN encSnapshots[s].nodes
               PROVE  CommandReads(ChunkOf(s, f)) = Bytes(encSnapshots[s].source[f])
    BY DEF RestorableUnderOneSetting, ChunkOf
  <2>1. ChunkOf(s, f).key = SettingKey /\ ChunkOf(s, f).content = encSnapshots[s].source[f]
    BY DEF EncInv, OneSetting, ContentsOK
  <2>2. encKey = SettingKey
    BY DEF EncInv, ReadsBySetting, ReadingKey, SettingKey
  <2> QED
    BY <2>1, <2>2 DEF CommandReads
<1> QED
  BY <1>1, EncInvariant, PTL

\* A restore that runs with the current setting never passes stored bytes off as
\* a file, unless something was encrypted while the configuration says that
\* nothing is.
THEOREM NeverSilentGarbage == EncodingSpec => []NoSilentGarbage
<1>1. EncInv => NoSilentGarbage
  <2> SUFFICES ASSUME EncInv, ReadsBySetting, ~unannounced, NEW s \in DOMAIN encSnapshots,
                      NEW f \in DOMAIN encSnapshots[s].nodes
               PROVE  CommandReads(ChunkOf(s, f)) # Garbage
    BY DEF NoSilentGarbage, StoredChunks, ChunkOf
  <2>1. ChunkOf(s, f).key \in {NoKey, keyFile} /\ (encConfig # "on" => ChunkOf(s, f).key = NoKey)
    BY DEF EncInv, KeysKept, Announced, ChunkOf
  <2>2. IF encConfig = "on" THEN encKey = keyFile /\ encKey # NoKey ELSE encKey = NoKey
    BY DEF EncInv, ReadsBySetting, ReadingKey
  <2>3. CommandReads(ChunkOf(s, f)) \in {Failed, Bytes(ChunkOf(s, f).content)}
    BY <2>1, <2>2 DEF CommandReads
  <2>4. ChunkOf(s, f).content \in EncContents
    BY DEF EncInv, EncTypeOK, SnapshotOK, NodeTypes, ChunkTypes, ChunkOf
  <2>5. Bytes(ChunkOf(s, f).content) # Garbage
    BY <2>4, EncodingAssumption DEF Bytes, Garbage
  <2>6. Failed # Garbage
    <3>1. Failed.ok = FALSE /\ Garbage.ok = TRUE
      BY DEF Failed, Garbage
    <3> QED
      BY <3>1
  <2> QED
    BY <2>3, <2>5, <2>6
<1> QED
  BY <1>1, EncInvariant, PTL

===============================================================================
