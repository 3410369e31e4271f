-------------------------------- MODULE Encoding --------------------------------
(***************************************************************************)
(* How chunks are encoded when they are stored and decoded when they are   *)
(* restored: the repository's encryption setting, its key file, and the    *)
(* three commands that write files back (restore, restore-version and      *)
(* restore-system).                                                        *)
(*                                                                         *)
(* Every chunk is compressed, then encrypted if the command has a key.     *)
(* Nothing in a stored chunk says whether it is encrypted: a restore goes  *)
(* by the setting at the time it runs.                                     *)
(*                                                                         *)
(* Abstractions: a file is one chunk; a snapshot is a single file or a     *)
(* directory of all files; a key is its password and salt, and salts are   *)
(* never drawn twice; what is not a compressed chunk, or was encrypted     *)
(* under another key, never decodes by accident.                           *)
(*                                                                         *)
(* A command loads the configuration first and tries for the lock then, so *)
(* that it may run with a setting another command has changed since; the   *)
(* rest it does with the lock.  What it is told (the source, --encrypt,    *)
(* the password) is drawn where it is first used.  init has the lock from  *)
(* its first step: two commands that race to make the repository are left  *)
(* out.                                                                    *)
(***************************************************************************)
EXTENDS Naturals, Sequences, FiniteSetsExt

CONSTANTS
  EncUsers,       \* who starts commands, one at a time each
  EncFiles,       \* the files of the source
  EncContents,    \* what a file may hold
  TheDirectory,   \* the source directory, as the root of a snapshot
  Passwords,      \* what users type
  NoKey,
  EncFaults,      \* a subset of {"crash"}
  MaxEncEdits,    \* bound: how often a file changes
  MaxEncCommands  \* bound: how many commands start

ASSUME EncodingAssumption ==
  /\ TheDirectory \notin EncFiles
  /\ "stored bytes" \notin EncContents
  /\ NoKey \notin (Passwords \X Nat)
  /\ EncFaults \subseteq {"crash"}
  /\ MaxEncEdits \in Nat /\ MaxEncCommands \in Nat

VARIABLES
  opening,        \* each user's command that does not have the lock yet
  encPc,          \* where the command that has the lock is
  encCommand,     \* its kind and arguments, and the setting it loaded
  encKey,         \* the key it has in memory
  encSource,      \* the users' files
  encConfig,      \* config.encryption_enabled on disk, once there is a repository
  keyFile,        \* the key keys/master.key stands for
  encSnapshots,   \* the snapshots, oldest first
  encSalts,       \* how many salts have been drawn
  encEdits,
  encCommands,
  mixed,          \* history: a backup AtOdds with the configuration stored otherwise
                  \* than that says, or the setting changed over stored chunks
  unannounced     \* history: such a backup encrypted, or the setting was turned
                  \* off over stored chunks

encVars == <<opening, encPc, encCommand, encKey, encSource, encConfig, keyFile, encSnapshots,
             encSalts, encEdits, encCommands, mixed, unannounced>>

NoCommand == [kind |-> "none", base |-> 0, setting |-> "none"]
Backups == {"full", "incremental"}

EncodingInit ==
  /\ opening = [u \in EncUsers |-> NoCommand]
  /\ encPc = "idle" /\ encCommand = NoCommand /\ encKey = NoKey
  /\ encSource \in [EncFiles -> EncContents]
  /\ encConfig = "none" /\ keyFile = NoKey
  /\ encSnapshots = <<>>
  /\ encSalts = 0 /\ encEdits = 0 /\ encCommands = 0
  /\ mixed = FALSE /\ unannounced = FALSE

ChangeFile ==
  /\ encPc = "idle" /\ encEdits < MaxEncEdits
  /\ \E f \in EncFiles, c \in EncContents : encSource' = [encSource EXCEPT ![f] = c]
  /\ encEdits' = encEdits + 1
  /\ UNCHANGED <<opening, encPc, encCommand, encKey, encConfig, keyFile, encSnapshots,
                 encSalts, encCommands, mixed, unannounced>>

-----------------------------------------------------------------------------
\* init

\* cmd_init saves the configuration, then derives and saves the key.
InitRepository ==
  /\ encPc = "idle" /\ encConfig = "none" /\ encCommands < MaxEncCommands
  /\ \E encrypt \in {"on", "off"}, p \in Passwords :
       /\ encConfig' = encrypt
       /\ encCommand' = [kind |-> "init", password |-> p]
       /\ encPc' = IF encrypt = "on" THEN "key" ELSE "idle"
  /\ encCommands' = encCommands + 1
  /\ UNCHANGED <<opening, encKey, encSource, keyFile, encSnapshots, encSalts, encEdits, mixed, unannounced>>

DeriveKey(p) == <<p, encSalts>>

SaveInitKey ==
  /\ encPc = "key"
  /\ keyFile' = DeriveKey(encCommand.password) /\ encSalts' = encSalts + 1
  /\ encPc' = "idle"
  /\ UNCHANGED <<opening, encCommand, encKey, encSource, encConfig, encSnapshots, encEdits,
                 encCommands, mixed, unannounced>>

-----------------------------------------------------------------------------
\* Repository::open

LastSnapshot == encSnapshots[Len(encSnapshots)]

\* An incremental backup lists the snapshots before it opens the repository;
\* it needs one (here, of the directory).
ListForIncremental(u) ==
  /\ opening[u] = NoCommand /\ encCommands < MaxEncCommands
  /\ encSnapshots # <<>> /\ LastSnapshot.root = TheDirectory
  /\ opening' = [opening EXCEPT ![u] =
       [kind |-> "incremental", base |-> Len(encSnapshots), setting |-> "none"]]
  /\ encCommands' = encCommands + 1
  /\ UNCHANGED <<encPc, encCommand, encKey, encSource, encConfig, keyFile, encSnapshots,
                 encSalts, encEdits, mixed, unannounced>>

\* The configuration is loaded before the lock is tried for.
LoadConfig(u) ==
  /\ encConfig # "none" /\ opening[u].setting = "none"
  /\ \/ /\ opening[u] = NoCommand /\ encCommands < MaxEncCommands
        /\ \E kind \in {"full", "restore", "config"} :
             opening' = [opening EXCEPT ![u] =
               [kind |-> kind, base |-> 0, setting |-> encConfig]]
        /\ encCommands' = encCommands + 1
     \/ /\ opening[u].kind = "incremental"
        /\ opening' = [opening EXCEPT ![u].setting = encConfig]
        /\ UNCHANGED encCommands
  /\ UNCHANGED <<encPc, encCommand, encKey, encSource, encConfig, keyFile, encSnapshots,
                 encSalts, encEdits, mixed, unannounced>>

\* The lock is free, and u's command has it.
TakesLock(u) ==
  /\ encPc = "idle" /\ opening[u].setting # "none"
  /\ opening' = [opening EXCEPT ![u] = NoCommand]

\* The lock is taken, or the command dies before it tries.
GivesUp(u) ==
  /\ opening[u] # NoCommand
  /\ \/ encPc # "idle" /\ opening[u].setting # "none"
     \/ "crash" \in EncFaults
  /\ opening' = [opening EXCEPT ![u] = NoCommand]
  /\ UNCHANGED <<encPc, encCommand, encKey, encSource, encConfig, keyFile, encSnapshots,
                 encSalts, encEdits, encCommands, mixed, unannounced>>

-----------------------------------------------------------------------------
\* resolve_encryption_key

\* Slip: a key derived afresh is used without being saved.
ResolvedUnsaved(p, next) ==
  \/ /\ keyFile # NoKey /\ keyFile[1] = p
     /\ encKey' = keyFile /\ encPc' = next
     /\ UNCHANGED <<keyFile, encSalts>>
  \/ /\ keyFile = NoKey
     /\ encKey' = DeriveKey(p) /\ encPc' = next
     /\ encSalts' = encSalts + 1
     /\ UNCHANGED keyFile
  \/ /\ keyFile # NoKey /\ keyFile[1] # p
     /\ encPc' = "idle" /\ UNCHANGED <<encKey, keyFile, encSalts>>

\* The key of the key file, if the password is its password; without a key
\* file, a new key, whose file is saved whatever the command is.  A wrong
\* password ends the command.
Resolved(p, next) ==
  \/ /\ keyFile # NoKey /\ keyFile[1] = p
     /\ encKey' = keyFile /\ encPc' = next
     /\ UNCHANGED <<keyFile, encSalts>>
  \/ /\ keyFile = NoKey
     /\ encKey' = DeriveKey(p) /\ encPc' = next
     /\ keyFile' = DeriveKey(p) /\ encSalts' = encSalts + 1
  \/ /\ keyFile # NoKey /\ keyFile[1] # p
     /\ encPc' = "idle" /\ UNCHANGED <<encKey, keyFile, encSalts>>

-----------------------------------------------------------------------------
\* backup

\* Slip: only the flag counts.
UseEncryptionAsked(encrypt, setting) == encrypt

UseEncryption(encrypt, setting) == encrypt \/ setting = "on"

StartEncBackup(u) ==
  /\ opening[u].kind \in Backups /\ TakesLock(u)
  /\ \E root \in EncFiles \cup {TheDirectory}, encrypt \in BOOLEAN, p \in Passwords :
       /\ opening[u].kind = "incremental" => root = TheDirectory
       /\ encCommand' = [kind |-> opening[u].kind, base |-> opening[u].base,
                         setting |-> opening[u].setting, root |-> root, encrypt |-> encrypt]
       /\ IF UseEncryption(encrypt, opening[u].setting) THEN Resolved(p, "resolved")
          ELSE /\ encKey' = NoKey /\ encPc' = "resolved"
               /\ UNCHANGED <<keyFile, encSalts>>
  /\ UNCHANGED <<encSource, encConfig, encSnapshots, encEdits, encCommands, mixed, unannounced>>

\* Slip: the setting is left as it is.
NewConfigKept == encConfig

\* A full backup told to encrypt that loaded "off" saves "on"; an incremental
\* one saves nothing.
NewConfig ==
  IF encCommand.kind = "full" /\ encCommand.encrypt /\ encCommand.setting = "off"
  THEN "on" ELSE encConfig

\* A backup that need not store as the configuration says: the setting it loaded
\* is out of date, or it is an incremental one that is told to encrypt.
AtOdds ==
  \/ encCommand.setting # encConfig
  \/ encCommand.kind = "incremental" /\ encCommand.encrypt

\* The configuration is saved, and the backup stores with its key from here on.
SaveConfig ==
  /\ encPc = "resolved"
  /\ encConfig' = NewConfig
  /\ mixed' = \/ mixed
              \/ AtOdds /\ (encKey # NoKey) # (NewConfig = "on")
              \/ NewConfig # encConfig /\ encSnapshots # <<>>
  /\ unannounced' = (unannounced \/ (AtOdds /\ encKey # NoKey /\ NewConfig # "on"))
  /\ encPc' = "store"
  /\ UNCHANGED <<opening, encCommand, encKey, encSource, keyFile, encSnapshots, encSalts,
                 encEdits, encCommands>>

\* process_chunk: compressed, then encrypted with the key, if there is one.
ProcessChunk(content) == [content |-> content, key |-> encKey]

\* A file as it is stored afresh, with the version it replaces.
NewNode(f, old) == [chunk |-> ProcessChunk(encSource[f]), versions |-> old]

FilesOf(root) == IF root = TheDirectory THEN EncFiles ELSE {root}

\* find_file with a bare name finds only a snapshot that is the single file:
\* its chunk is taken over if the file has not changed, and becomes a version
\* if it has.
FullNode(f) ==
  IF encSnapshots = <<>> \/ LastSnapshot.root # f THEN NewNode(f, <<>>)
  ELSE LET old == LastSnapshot.nodes[f]
       IN  IF old.chunk.content = encSource[f] THEN [old EXCEPT !.versions = <<>>]
           ELSE NewNode(f, <<[of |-> Len(encSnapshots), chunk |-> old.chunk]>>)

FullNodes == [f \in FilesOf(encCommand.root) |-> FullNode(f)]

\* Only the changed files are stored, the rest is the snapshot's that was the
\* last when the command listed them.
IncrementalNodes ==
  [f \in EncFiles |-> IF encSnapshots[encCommand.base].nodes[f].chunk.content = encSource[f]
                      THEN encSnapshots[encCommand.base].nodes[f] ELSE NewNode(f, <<>>)]

SaveEncSnapshot ==
  /\ encPc = "store"
  /\ encSnapshots' = Append(encSnapshots,
       [root |-> encCommand.root,
        nodes |-> IF encCommand.kind = "full" THEN FullNodes ELSE IncrementalNodes,
        source |-> encSource])
  /\ encPc' = "idle"
  /\ UNCHANGED <<opening, encCommand, encKey, encSource, encConfig, keyFile, encSalts,
                 encEdits, encCommands, mixed, unannounced>>

-----------------------------------------------------------------------------
\* The commands that write files back.

\* restore resolves the key, if the setting it loaded asks for one, before it
\* reads a snapshot, and has the lock to the end.
StartEncRestore(u) ==
  /\ opening[u].kind = "restore" /\ TakesLock(u)
  /\ encCommand' = opening[u]
  /\ IF opening[u].setting = "on" THEN \E p \in Passwords : Resolved(p, "reading")
     ELSE encKey' = NoKey /\ encPc' = "reading" /\ UNCHANGED <<keyFile, encSalts>>
  /\ UNCHANGED <<encSource, encConfig, encSnapshots, encEdits, encCommands, mixed, unannounced>>

EndEncRestore ==
  /\ encPc = "reading"
  /\ encPc' = "idle"
  /\ UNCHANGED <<opening, encCommand, encKey, encSource, encConfig, keyFile, encSnapshots,
                 encSalts, encEdits, encCommands, mixed, unannounced>>

-----------------------------------------------------------------------------

\* config changes a size or a count and saves the whole configuration it
\* loaded, the setting with it.
SaveLoadedConfig(u) ==
  /\ opening[u].kind = "config" /\ TakesLock(u)
  /\ encConfig' = opening[u].setting
  /\ LET turned == opening[u].setting # encConfig /\ encSnapshots # <<>>
     IN  /\ mixed' = (mixed \/ turned)
         /\ unannounced' = (unannounced \/ (turned /\ opening[u].setting = "off"))
  /\ UNCHANGED <<encPc, encCommand, encKey, encSource, keyFile, encSnapshots, encSalts,
                 encEdits, encCommands>>

CrashEnc ==
  /\ "crash" \in EncFaults /\ encPc # "idle"
  /\ encPc' = "idle"
  /\ UNCHANGED <<opening, encCommand, encKey, encSource, encConfig, keyFile, encSnapshots,
                 encSalts, encEdits, encCommands, mixed, unannounced>>

EncodingNext ==
  \/ ChangeFile \/ InitRepository \/ SaveInitKey
  \/ \E u \in EncUsers :
       \/ ListForIncremental(u) \/ LoadConfig(u) \/ GivesUp(u)
       \/ StartEncBackup(u) \/ StartEncRestore(u) \/ SaveLoadedConfig(u)
  \/ SaveConfig \/ SaveEncSnapshot \/ EndEncRestore \/ CrashEnc

EncodingSpec == EncodingInit /\ [][EncodingNext]_encVars

Bytes(content) == [ok |-> TRUE, content |-> content]
Garbage == [ok |-> TRUE, content |-> "stored bytes"]
Failed == [ok |-> FALSE]

\* restore, with the key it has: an encrypted chunk needs its key; what cannot be
\* decompressed is taken as it is ("may not be compressed").
CommandReads(chunk) ==
  CASE encKey # NoKey /\ chunk.key # encKey -> Failed
    [] encKey = NoKey /\ chunk.key # NoKey -> Garbage
    [] OTHER -> Bytes(chunk.content)

\* Restorer: what cannot be decrypted or decompressed is an error; without
\* the options, the stored bytes are the file's.
RestorerReads(chunk, key, compression_enabled) ==
  CASE key # NoKey /\ chunk.key # key -> Failed
    [] (key = NoKey /\ chunk.key # NoKey) /\ compression_enabled -> Failed
    [] ~compression_enabled -> Garbage
    [] OTHER -> Bytes(chunk.content)

\* cmd_restore_system sets neither encryption_key nor compression_enabled.
RestoreSystemReads(chunk) == RestorerReads(chunk, NoKey, FALSE)

\* cmd_restore_version: 0 is "latest".  The file is looked for in the snapshot
\* and, if it is not there, in the ones before it; a version it had there that
\* fits what was asked for goes before the file itself ...
Holders(f, version) ==
  LET last == IF version = 0 THEN Len(encSnapshots) ELSE version
  IN  {s \in 1..last : f \in DOMAIN encSnapshots[s].nodes}

VersionChunk(f, version) ==
  LET s == Max(Holders(f, version))
      versions == encSnapshots[s].nodes[f].versions
      wanted == {i \in DOMAIN versions : version = 0 \/ versions[i].of = version}
  IN  IF wanted # {} THEN versions[Min(wanted)].chunk ELSE encSnapshots[s].nodes[f].chunk

\* ... and the stored bytes of its chunk are written.
RestoreVersionReads(f, version) ==
  IF Holders(f, version) = {} THEN Failed
  ELSE RestorerReads(VersionChunk(f, version), NoKey, FALSE)

-----------------------------------------------------------------------------
\* Correctness.

StoredChunks ==
  UNION {{encSnapshots[s].nodes[f].chunk : f \in DOMAIN encSnapshots[s].nodes} :
           s \in DOMAIN encSnapshots}

\* Whenever a command dies and whichever command made the key, the key file
\* is that of every encrypted chunk of every snapshot, the versions of a file
\* included (resolve_encryption_key).
KeysKept ==
  \A s \in DOMAIN encSnapshots : \A f \in DOMAIN encSnapshots[s].nodes :
    LET node == encSnapshots[s].nodes[f]
    IN  \A c \in {node.chunk} \cup {node.versions[i].chunk : i \in DOMAIN node.versions} :
          c.key \in {NoKey, keyFile}

\* A restore that reads runs with the setting that is in the configuration: no
\* other command changed it between the restore's load and its lock.
ReadsBySetting == encPc = "reading" /\ encCommand.setting = encConfig

\* A restore that runs with the current setting gives every file of every snapshot
\* back as it was when the snapshot was taken, unless the setting changed once
\* there was a snapshot, or a backup that had loaded another one, or was an
\* incremental one told to encrypt, stored otherwise than the configuration says
\* (process_chunk, cmd_restore).
RestorableUnderOneSetting ==
  ReadsBySetting /\ ~mixed =>
    \A s \in DOMAIN encSnapshots : \A f \in DOMAIN encSnapshots[s].nodes :
      CommandReads(encSnapshots[s].nodes[f].chunk) = Bytes(encSnapshots[s].source[f])

\* Even then such a restore reports what it cannot read rather than writing stored
\* bytes, unless such a backup encrypted while the configuration says that nothing
\* is, or the setting was turned off once there was a snapshot.
NoSilentGarbage ==
  ReadsBySetting /\ ~unannounced => \A c \in StoredChunks : CommandReads(c) # Garbage

\* restore-system and restore-version give a file's content back, or an error
\* ("restore entire system from backup", "Restore a specific version of a
\* file").
NoGarbageWrittenBack ==
  /\ \A s \in DOMAIN encSnapshots : \A f \in DOMAIN encSnapshots[s].nodes :
       RestoreSystemReads(encSnapshots[s].nodes[f].chunk) # Garbage
  /\ \A f \in EncFiles, version \in 0..Len(encSnapshots) :
       RestoreVersionReads(f, version) # Garbage

===============================================================================
