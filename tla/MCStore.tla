-------------------------------- MODULE MCStore --------------------------------
(***************************************************************************)
(* A model-checking instance of BackupShield for the ways to use it that   *)
(* are safe: several processes that all run full backups, or any command   *)
(* of three kinds while nothing else runs.                                 *)
(***************************************************************************)
EXTENDS BackupShield, TLC

CONSTANTS
  MaxShared,  \* bound: how many full backups are started when several may run
  MaxAlone    \* bound: how many commands are started when one runs at a time

VARIABLE alone   \* whether one command runs at a time

\* Processes and files are interchangeable, chunks if both or neither may be
\* parity.
Symmetry == Permutations(Procs) \cup Permutations(Files) \cup Permutations(Chunks \ ParityChunks)
              \cup Permutations(ParityChunks)

Running == {p \in Procs : pc[p] # "idle"}

\* A write of a pack fails.
WriteFails ==
  \E p \in Procs, c \in Chunks :
    ParityFails(p, c) \/ \E f \in Files : StoreThenSkip(p, f, c) \/ FailFile(p, f, c)

MCInit == Init /\ alone \in BOOLEAN

MCNext ==
  /\ Next
  /\ UNCHANGED alone
  /\ IF alone
     THEN /\ started' <= MaxAlone
          /\ Cardinality(Running') <= 1
     ELSE /\ started' <= MaxShared
          /\ \A p \in Running' : cmd'[p] = "full"
          /\ ~WriteFails

MCSpec == MCInit /\ [][MCNext]_<<vars, alone>>

================================================================================
