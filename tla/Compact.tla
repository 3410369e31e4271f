-------------------------------- MODULE Compact --------------------------------
(***************************************************************************)
(* The compact command.  cmd_compact collects the chunks the snapshots     *)
(* refer to under one lock, drops that lock, and calls compact_packs,      *)
(* which takes its own: it copies the live chunks into new packs, saves an *)
(* index that points into them and has no other entries, and only then     *)
(* deletes the old packs one by one.                                       *)
(***************************************************************************)
EXTENDS Repository

VARIABLES
  live,     \* the chunks a process found referenced before it took the lock
  old,      \* the packs that existed when the lock was taken
  copies,   \* <<pack, chunk>>: live chunks in old packs, still to be copied
  moved     \* chunk -> the new pack it was copied to

compactVars == <<live, old, copies, moved>>

ForgetCompact(p) ==
  /\ live' = [live EXCEPT ![p] = {}]
  /\ old' = [old EXCEPT ![p] = {}]
  /\ copies' = [copies EXCEPT ![p] = {}]
  /\ moved' = [moved EXCEPT ![p] = EmptyMap]

Referenced == UNION {ChunksOf(snaps[s].tree) : s \in DOMAIN snaps}

\* The first locked section: it flushes an empty buffer, saves the index it has
\* just loaded, and reads the snapshots.  Nothing on disk changes.
CompactCollect(p) ==
  /\ Start(p, "compact")
  /\ lock = NoProc
  /\ live' = [live EXCEPT ![p] = Referenced]
  /\ pc' = [pc EXCEPT ![p] = "compact_open"]
  /\ UNCHANGED <<diskVars, handleVars, lock, old, copies, moved>>

\* compact_packs takes the lock; with no packs there is nothing to do.  The
\* index is not loaded yet: only the next pack id is.
CompactOpen(p) ==
  /\ pc[p] = "compact_open"
  /\ lock = NoProc
  /\ DOMAIN packs # {}
  /\ lock' = p
  /\ \E m \in MaxPackId : nextPack' = [nextPack EXCEPT ![p] = m + 1]
  /\ old' = [old EXCEPT ![p] = DOMAIN packs]
  /\ copies' = [copies EXCEPT ![p] =
       {kc \in (DOMAIN packs) \X live[p] : kc[2] \in packs[kc[1]]}]
  /\ Goto(p, "compact_write")
  /\ UNCHANGED <<diskVars, mem, buf, live, moved>>

CompactNothing(p) ==
  /\ pc[p] = "compact_open"
  /\ lock = NoProc
  /\ DOMAIN packs = {}
  /\ EndCommand(p)
  /\ ForgetCompact(p)
  /\ UNCHANGED diskVars

\* A new pack takes the next copies, in the order of the old packs.  A chunk
\* that several old packs hold is copied several times; the last copy counts.
CompactWrite(p) ==
  /\ pc[p] = "compact_write"
  /\ \E batch \in (SUBSET copies[p]) \ {{}} :
       LET chunks == {kc[2] : kc \in batch}
       IN  /\ \A x \in batch, y \in copies[p] \ batch : x[1] <= y[1]
           /\ WritePack(p, chunks)
           /\ moved' = [moved EXCEPT ![p] =
                          [c \in DOMAIN @ \cup chunks |->
                             IF c \in chunks THEN nextPack[p] ELSE @[c]]]
           /\ copies' = [copies EXCEPT ![p] = @ \ batch]
  /\ UNCHANGED <<index, snaps, clock, controlVars, mem, buf, live, old>>

\* Slip: the entries still point into the old packs.
MovedIndexStale(p) ==
  [c \in DOMAIN index \cap live[p] |-> index[c]]

\* Slip: the entries of dead chunks stay.
MovedIndexAll(p) ==
  [c \in DOMAIN index |->
     IF c \in DOMAIN moved[p] THEN [index[c] EXCEPT !.pack = moved[p][c]]
                              ELSE index[c]]

\* The index loses the entries of dead chunks and points into the new packs.
MovedIndex(p) ==
  [c \in DOMAIN index \cap live[p] |->
     IF c \in DOMAIN moved[p] THEN [index[c] EXCEPT !.pack = moved[p][c]]
                              ELSE index[c]]

CompactIndex(p) ==
  /\ pc[p] = "compact_write"
  /\ copies[p] = {}
  /\ index' = MovedIndex(p)
  /\ Goto(p, "compact_delete")
  /\ UNCHANGED <<packs, snaps, clock, handleVars, lock, compactVars>>

CompactDelete(p) ==
  /\ pc[p] = "compact_delete"
  /\ \E k \in old[p] :
       /\ \A j \in old[p] : k <= j
       /\ packs' = Remove(packs, k)
       /\ old' = [old EXCEPT ![p] = @ \ {k}]
  /\ UNCHANGED <<index, snaps, clock, handleVars, controlVars, live, copies, moved>>

CompactDone(p) ==
  /\ pc[p] = "compact_delete"
  /\ old[p] = {}
  /\ EndCommand(p)
  /\ ForgetCompact(p)
  /\ UNCHANGED diskVars

CompactStep(p) ==
  \/ CompactCollect(p)
  \/ CompactOpen(p)
  \/ CompactNothing(p)
  \/ CompactWrite(p)
  \/ CompactIndex(p)
  \/ CompactDelete(p)
  \/ CompactDone(p)

=============================================================================
