------------------------------ MODULE Repository ------------------------------
(***************************************************************************)
(* The repository a backup lives in, and a process's open handle on it.    *)
(*                                                                         *)
(* On disk: pack files (data/pack-NNNNNN.pack), the chunk index            *)
(* (indexes/chunk_index.json), snapshot files (snapshots/<id>.json) and    *)
(* the lock file.  A process that runs a command opens the repository,     *)
(* which takes the exclusive lock and loads the index into memory; chunks  *)
(* are buffered by a pack writer, flushed into packs, and the in-memory    *)
(* index is written back.  Packs, the index and snapshots are replaced by  *)
(* writing a temporary file, syncing it and renaming it, so each write is  *)
(* one step here.                                                          *)
(*                                                                         *)
(* Abstractions: a chunk is identified with its hash; its place in a pack  *)
(* is the pack's id (the offset is left out); sizes are left out, so a     *)
(* pack writer may flush after any chunk.  A snapshot tree maps files to   *)
(* the chunk they hold: a file of several chunks is several members of     *)
(* Files.                                                                  *)
(***************************************************************************)
EXTENDS Integers, FiniteSets, Functions

CONSTANTS
  Procs,        \* the processes that run commands on the repository
  NoProc,       \* the lock's value when nobody holds it
  Chunks,       \* the chunks the backed-up files are cut into
  Files,        \* the files of the backed-up source
  DirRoot,      \* the root of a snapshot of a directory (not of one file)
  Commands,     \* the commands users run, a subset of AllCommands
  Faults,       \* the faults considered, a subset of {"crash", "io"}
  MaxCommands   \* bound: how many commands are started in a behaviour

AllCommands == {"full", "inc", "sys", "prune", "auto", "compact"}

ASSUME RepositoryAssumption ==
  /\ NoProc \notin Procs
  /\ DirRoot \notin Files
  /\ IsFiniteSet(Files)
  /\ Commands \subseteq AllCommands
  /\ Faults \subseteq {"crash", "io"}
  /\ MaxCommands \in Nat

VARIABLES
  packs,        \* disk: pack id -> the chunks stored in that pack file
  index,        \* disk: chunk -> [refs, pack], the saved chunk index
  snaps,        \* disk: snapshot -> [root, tree], the snapshot files
  lock,         \* the process that holds the exclusive flock, or NoProc
  mem,          \* handle: the chunk index in memory
  buf,          \* handle: chunks in the pack writer's buffer
  nextPack,     \* handle: the pack writer's next pack id
  pc,           \* where each process is in its command
  cmd,          \* the command each process runs
  clock,        \* the time of the newest snapshot ever saved
  started       \* how many commands have been started

diskVars == <<packs, index, snaps, clock>>
handleVars == <<mem, buf, nextPack>>
controlVars == <<lock, pc, cmd, started>>
repositoryVars == <<diskVars, handleVars, controlVars>>

-----------------------------------------------------------------------------
\* Finite maps.

EmptyMap == [x \in {} |-> x]
Put(f, k, v) == [x \in DOMAIN f \cup {k} |-> IF x = k THEN v ELSE f[x]]
Remove(f, k) == Restrict(f, DOMAIN f \ {k})

-----------------------------------------------------------------------------
\* The chunk index.

Meta == [refs : Nat, pack : Nat]

\* The pack id of a chunk that is still in the writer's buffer.
Pending == 0

IsIndex(idx) == DOMAIN idx \subseteq Chunks /\ idx \in [DOMAIN idx -> Meta]

AddRef(idx, c) == [idx EXCEPT ![c].refs = @ + 1]

\* After a flush: the chunks of pack k that the index knows are in pack k.
Relocate(idx, S, k) ==
  [c \in DOMAIN idx |-> IF c \in S THEN [idx[c] EXCEPT !.pack = k] ELSE idx[c]]

\* How often a snapshot tree refers to chunk c.
Uses(tree, c) == Cardinality({f \in DOMAIN tree : tree[f] = c})

\* Slip: a chunk that several files of the snapshot hold is decremented once.
DropRefsOnce(idx, tree) ==
  LET Used == {c \in DOMAIN idx : Uses(tree, c) > 0}
      Dead == {c \in Used : idx[c].refs <= 1}
  IN  [c \in DOMAIN idx \ Dead |->
         IF c \in Used THEN [idx[c] EXCEPT !.refs = @ - 1] ELSE idx[c]]

\* Deleting a snapshot: one decrement per use of a chunk (saturating at
\* zero), and an entry whose count reaches zero leaves the index.
DropRefs(idx, tree) ==
  LET Dead == {c \in DOMAIN idx : /\ Uses(tree, c) > 0
                                  /\ idx[c].refs <= Uses(tree, c)}
  IN  [c \in DOMAIN idx \ Dead |-> [idx[c] EXCEPT !.refs = @ - Uses(tree, c)]]

-----------------------------------------------------------------------------
\* Snapshots.  A snapshot's name is the time it was saved at, so that the
\* order of names is the order list_snapshots sorts by.  (Definitions whose
\* comment starts with "Slip" are variants no specification uses: each is a
\* mistake that one of the properties is known to catch.)

Tree(t) == DOMAIN t \subseteq Files /\ t \in [DOMAIN t -> Chunks]
IsSnapshots(S, last) ==
  /\ DOMAIN S \subseteq 1 .. last
  /\ \A s \in DOMAIN S : /\ DOMAIN S[s] = {"root", "tree"}
                         /\ S[s] = [root |-> S[s].root, tree |-> S[s].tree]
                         /\ S[s].root \in Files \cup {DirRoot}
                         /\ Tree(S[s].tree)

Newest == {s \in DOMAIN snaps : \A t \in DOMAIN snaps : t <= s}

ChunksOf(tree) == {tree[f] : f \in DOMAIN tree}

-----------------------------------------------------------------------------
\* Opening and closing.  The lock is tried without blocking: a command that
\* meets a held lock ends with an error.

MaxPackId == {m \in DOMAIN packs \cup {0} : \A k \in DOMAIN packs : k <= m}

\* Slip: the pack ids are numbered afresh by every handle.
OpenAtFirstId(p) ==
  /\ lock = NoProc
  /\ lock' = p
  /\ mem' = [mem EXCEPT ![p] = index]
  /\ buf' = [buf EXCEPT ![p] = {}]
  /\ nextPack' = [nextPack EXCEPT ![p] = 1]

Open(p) ==
  /\ lock = NoProc
  /\ lock' = p
  /\ mem' = [mem EXCEPT ![p] = index]
  /\ buf' = [buf EXCEPT ![p] = {}]
  /\ \E m \in MaxPackId : nextPack' = [nextPack EXCEPT ![p] = m + 1]

\* Slip: Drop does not unlock the file.
CloseKeepingLock(p) ==
  /\ lock' = lock
  /\ mem' = [mem EXCEPT ![p] = EmptyMap]
  /\ buf' = [buf EXCEPT ![p] = {}]
  /\ nextPack' = [nextPack EXCEPT ![p] = 0]

\* Dropping the handle: the flock goes, and what was only in memory with it.
Close(p) ==
  /\ lock' = IF lock = p THEN NoProc ELSE lock
  /\ mem' = [mem EXCEPT ![p] = EmptyMap]
  /\ buf' = [buf EXCEPT ![p] = {}]
  /\ nextPack' = [nextPack EXCEPT ![p] = 0]

-----------------------------------------------------------------------------
\* Storing chunks.

\* A pack file is written under the next id; the id is taken before the
\* write, and the buffer is emptied after it.
WritePack(p, S) ==
  /\ packs' = Put(packs, nextPack[p], S)
  /\ nextPack' = [nextPack EXCEPT ![p] = @ + 1]

StoreDuplicate(p, c) ==
  /\ c \in DOMAIN mem[p]
  /\ mem' = [mem EXCEPT ![p] = AddRef(@, c)]
  /\ UNCHANGED <<packs, buf, nextPack>>

StoreBuffered(p, c) ==
  /\ c \notin DOMAIN mem[p]
  /\ buf' = [buf EXCEPT ![p] = @ \cup {c}]
  /\ mem' = [mem EXCEPT ![p] = Put(@, c, [refs |-> 1, pack |-> Pending])]
  /\ UNCHANGED <<packs, nextPack>>

StoreFlushed(p, c) ==
  LET written == buf[p] \cup {c}
  IN  /\ c \notin DOMAIN mem[p]
      /\ WritePack(p, written)
      /\ buf' = [buf EXCEPT ![p] = {}]
      /\ mem' = [mem EXCEPT ![p] =
                   Put(Relocate(@, written, nextPack[p]), c,
                       [refs |-> 1, pack |-> nextPack[p]])]

StoreChunk(p, c) ==
  \/ StoreDuplicate(p, c)
  \/ StoreBuffered(p, c)
  \/ StoreFlushed(p, c)

\* Slip: the buffer is emptied before the write that then fails.
StoreChunkFailsLosing(p, c) ==
  /\ "io" \in Faults
  /\ c \notin DOMAIN mem[p]
  /\ buf' = [buf EXCEPT ![p] = {}]
  /\ nextPack' = [nextPack EXCEPT ![p] = @ + 1]
  /\ UNCHANGED <<packs, mem>>

\* The flush inside store_chunk fails: an error is returned with the chunk in
\* the buffer but not in the index, and one pack id is used up.
StoreChunkFails(p, c) ==
  /\ "io" \in Faults
  /\ c \notin DOMAIN mem[p]
  /\ buf' = [buf EXCEPT ![p] = @ \cup {c}]
  /\ nextPack' = [nextPack EXCEPT ![p] = @ + 1]
  /\ UNCHANGED <<packs, mem>>

FlushPending(p) ==
  IF buf[p] = {}
  THEN UNCHANGED <<packs, mem, buf, nextPack>>
  ELSE /\ WritePack(p, buf[p])
       /\ buf' = [buf EXCEPT ![p] = {}]
       /\ mem' = [mem EXCEPT ![p] = Relocate(@, buf[p], nextPack[p])]

SaveIndex(p) == index' = mem[p]

-----------------------------------------------------------------------------
\* Starting and ending a command.

Start(p, command) ==
  /\ command \in Commands
  /\ pc[p] = "idle"
  /\ started < MaxCommands
  /\ started' = started + 1
  /\ cmd' = [cmd EXCEPT ![p] = command]

Goto(p, label) == pc' = [pc EXCEPT ![p] = label] /\ UNCHANGED <<cmd, started>>

\* The command is over, by success, by an error or by a crash.
EndCommand(p) ==
  /\ pc' = [pc EXCEPT ![p] = "idle"]
  /\ cmd' = [cmd EXCEPT ![p] = "none"]
  /\ UNCHANGED started
  /\ Close(p)

RepositoryInit ==
  /\ packs = EmptyMap
  /\ index = EmptyMap
  /\ snaps = EmptyMap
  /\ lock = NoProc
  /\ mem = [p \in Procs |-> EmptyMap]
  /\ buf = [p \in Procs |-> {}]
  /\ nextPack = [p \in Procs |-> 0]
  /\ pc = [p \in Procs |-> "idle"]
  /\ cmd = [p \in Procs |-> "none"]
  /\ clock = 0
  /\ started = 0

-----------------------------------------------------------------------------
\* Properties of the repository.

RepositoryTypeOK ==
  /\ DOMAIN packs \subseteq Nat
  /\ packs \in [DOMAIN packs -> SUBSET Chunks]
  /\ IsIndex(index)
  /\ IsSnapshots(snaps, clock)
  /\ lock \in Procs \cup {NoProc}
  /\ DOMAIN mem = Procs
  /\ \A p \in Procs : IsIndex(mem[p])
  /\ buf \in [Procs -> SUBSET Chunks]
  /\ nextPack \in [Procs -> Nat]
  /\ DOMAIN pc = Procs
  /\ cmd \in [Procs -> AllCommands \cup {"none"}]
  /\ clock \in Nat
  /\ started \in Nat

Stored(idx, c) == idx[c].pack \in DOMAIN packs /\ c \in packs[idx[c].pack]

\* The saved index never lies: every entry names a pack file that exists and
\* holds the chunk (so no entry is saved while its chunk is only buffered).
\* This is what Repository::read_chunk needs to find a chunk.
IndexSound == \A c \in DOMAIN index : Stored(index, c)

\* A restore of the snapshot can read every chunk its tree names.
Restorable(tree) == \A c \in ChunksOf(tree) : c \in DOMAIN index /\ Stored(index, c)

\* Every snapshot on disk can be restored in full, at every moment, also while
\* commands run and after a crash.
SnapshotsRestorable == \A s \in DOMAIN snaps : Restorable(snaps[s].tree)

\* How many files of the snapshots on disk hold chunk c.
Occurrences(c) ==
  Cardinality({sf \in (DOMAIN snaps) \X Files :
                 sf[2] \in DOMAIN snaps[sf[1]].tree /\ snaps[sf[1]].tree[sf[2]] = c})

\* The saved reference counts never fall below the references that exist: a
\* count that is too low deletes a chunk some snapshot still needs.
RefsCover ==
  \A c \in Chunks :
    Occurrences(c) > 0 => c \in DOMAIN index /\ index[c].refs >= Occurrences(c)

\* A pack file is written once: no later step, of whichever command, writes
\* other chunks under the id of a pack that exists.
PacksWriteOnce ==
  [][\A k \in DOMAIN packs \cap DOMAIN packs' : packs'[k] = packs[k]]_packs

=============================================================================
