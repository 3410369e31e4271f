----------------------------- MODULE SnapshotStore -----------------------------
(***************************************************************************)
(* What the repository promises its users: a store of snapshots.  A saved  *)
(* snapshot has a name later than every earlier one; until it is deleted   *)
(* it restores to exactly the tree it was saved with.                      *)
(***************************************************************************)
EXTENDS Integers

CONSTANTS
  Trees     \* the directory trees that can be saved

VARIABLES
  store,    \* name -> the tree a restore of that snapshot produces
  last      \* the latest name ever given

Init ==
  /\ store = [s \in {} |-> {}]
  /\ last = 0

Save ==
  /\ last' = last + 1
  /\ DOMAIN store' = DOMAIN store \cup {last'}
  /\ \A s \in DOMAIN store : store'[s] = store[s]
  /\ store'[last'] \in Trees
  /\ store' = [s \in DOMAIN store' |-> store'[s]]

Delete ==
  /\ \E s \in DOMAIN store : store' = [t \in DOMAIN store \ {s} |-> store[t]]
  /\ UNCHANGED last

Next == Save \/ Delete

Spec == Init /\ [][Next]_<<store, last>>

=============================================================================
