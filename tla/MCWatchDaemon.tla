----------------------------- MODULE MCWatchDaemon -----------------------------
(***************************************************************************)
(* Model-checking instances of WatchDaemon: the first file is at the root  *)
(* of the source, the others are in its directory, if it has one.          *)
(***************************************************************************)
EXTENDS WatchDaemon

CONSTANTS f1, f2, f3, d1

InOneDirectory == [f \in Files |-> IF f = f1 THEN Source ELSE d1]
AtTheRoot == [f \in Files |-> Source]

===============================================================================
