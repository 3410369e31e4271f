---------------------------- MODULE MCBackupShield ----------------------------
(***************************************************************************)
(* Model-checking instances of BackupShield.                               *)
(***************************************************************************)
EXTENDS BackupShield, TLC

\* Processes and files are interchangeable, chunks if both or neither may be
\* parity.
Symmetry == Permutations(Procs) \cup Permutations(Files) \cup Permutations(Chunks \ ParityChunks)
              \cup Permutations(ParityChunks)

===============================================================================
