--------------------------------- MODULE Prune ---------------------------------
(***************************************************************************)
(* Deleting snapshots: the prune command (prune_snapshots) and the         *)
(* automatic pruning of a backup over the storage limit                    *)
(* (delete_snapshots).  Both walk a list of snapshots, decrement the       *)
(* in-memory count of every chunk use, delete the snapshot file, and save  *)
(* the index once at the end.  They differ in when the list is read: prune *)
(* reads the snapshots before it has the lock, delete_snapshots after.     *)
(*                                                                         *)
(* The dates the retention policy counts by are left out: of the           *)
(* snapshots it may give up any set without the newest.                    *)
(***************************************************************************)
EXTENDS Repository

VARIABLE victims   \* the snapshots, as loaded, that a process still has to delete

NewestFirst(V) == {s \in V : \A t \in V : t <= s}
OldestFirst(V) == {s \in V : \A t \in V : s <= t}

ForgetVictims(p) == victims' = [victims EXCEPT ![p] = EmptyMap]

\* The sets of snapshots a policy may give up.  cmd_prune wants at least one of
\* the daily, weekly and monthly counts above zero, and the walk is from new to
\* old, so the newest is always kept; an older one is given up when enough newer
\* ones share its day, week and month.
GivenUp == SUBSET (DOMAIN snaps \ Newest)

\* prune: list the snapshots and choose those the policy does not keep.  No
\* lock is held yet.
PruneList(p) ==
  /\ Start(p, "prune")
  /\ DOMAIN snaps # {}
  /\ \E V \in GivenUp :
       victims' = [victims EXCEPT ![p] = Restrict(snaps, V)]
  /\ pc' = [pc EXCEPT ![p] = "prune_open"]
  /\ UNCHANGED <<diskVars, handleVars, lock>>

PruneOpen(p) ==
  /\ pc[p] = "prune_open"
  /\ Open(p)
  /\ Goto(p, "delete")
  /\ UNCHANGED <<diskVars, victims>>

\* Slip: the snapshots listed before the lock was taken are used as they are.
DeleteOpenStale(p) ==
  /\ pc[p] = "auto_prune"
  /\ Open(p)
  /\ Goto(p, "delete")
  /\ UNCHANGED <<diskVars, victims>>

\* Slip: the listed number of snapshots is deleted, oldest first, instead of
\* those that were listed.
DeleteOpenByCount(p) ==
  /\ pc[p] = "auto_prune"
  /\ Open(p)
  /\ \E V \in SUBSET DOMAIN snaps :
       /\ Cardinality(V) = Cardinality(DOMAIN victims[p])
       /\ \A v \in V, s \in DOMAIN snaps \ V : v < s
       /\ victims' = [victims EXCEPT ![p] = Restrict(snaps, V)]
  /\ Goto(p, "delete")
  /\ UNCHANGED diskVars

\* delete_snapshots: take the lock, then list; an id that is gone is skipped.
DeleteOpen(p) ==
  /\ pc[p] = "auto_prune"
  /\ Open(p)
  /\ victims' = [victims EXCEPT ![p] =
                   Restrict(snaps, DOMAIN victims[p] \cap DOMAIN snaps)]
  /\ Goto(p, "delete")
  /\ UNCHANGED diskVars

\* One turn of the loop: the counts go down in memory, the file goes on disk
\* (if it is still there).
DeleteOne(p) ==
  /\ pc[p] = "delete"
  /\ \E s \in IF cmd[p] = "prune" THEN NewestFirst(DOMAIN victims[p])
                                  ELSE OldestFirst(DOMAIN victims[p]) :
       /\ mem' = [mem EXCEPT ![p] = DropRefs(@, victims[p][s].tree)]
       /\ snaps' = Remove(snaps, s)
       /\ victims' = [victims EXCEPT ![p] = Remove(@, s)]
  /\ UNCHANGED <<packs, index, clock, buf, nextPack, controlVars>>

\* Slip: the storage limit is checked once more after every deletion.
DeleteSaveChecking(p) ==
  /\ pc[p] = "delete"
  /\ DOMAIN victims[p] = {}
  /\ SaveIndex(p)
  /\ \/ cmd[p] = "prune" /\ EndCommand(p)
     \/ cmd[p] # "prune" /\ Close(p) /\ Goto(p, "auto_prune")
  /\ UNCHANGED <<packs, snaps, clock, victims>>

\* The index is saved and the handle dropped; automatic pruning returns to the
\* backup, which opens the repository again.
DeleteSave(p) ==
  /\ pc[p] = "delete"
  /\ DOMAIN victims[p] = {}
  /\ SaveIndex(p)
  /\ \/ cmd[p] = "prune" /\ EndCommand(p)
     \/ cmd[p] # "prune" /\ Close(p) /\ Goto(p, "reopen")
  /\ UNCHANGED <<packs, snaps, clock, victims>>

\* auto-prune lists what is over the limit with the repository open, and with
\* --execute delete_snapshots opens it again: the lock is held by the command
\* itself, so it always ends with an error (OpenFails).  Without --execute, or
\* when nothing is over the limit, it ends as well, having changed nothing.
AutoPruneOpen(p) ==
  /\ Start(p, "auto")
  /\ Open(p)
  /\ pc' = [pc EXCEPT ![p] = "auto_delete"]
  /\ UNCHANGED <<diskVars, victims>>

PruneStep(p) ==
  \/ PruneList(p)
  \/ AutoPruneOpen(p)
  \/ PruneOpen(p)
  \/ DeleteOpen(p)
  \/ DeleteOne(p)
  \/ DeleteSave(p)

=============================================================================
