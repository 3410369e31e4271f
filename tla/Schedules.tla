------------------------------- MODULE Schedules -------------------------------
(***************************************************************************)
(* backup --schedule and unschedule: automatic backups as jobs of launchd  *)
(* (macOS) or of the Windows task scheduler.  A job is known by its        *)
(* frequency alone.  launchd runs what it has loaded, and loads what the   *)
(* files in LaunchAgents say when the user logs in; the task scheduler     *)
(* keeps its tasks itself.                                                 *)
(*                                                                         *)
(* Abstractions: a job is what it backs up, the first source of the        *)
(* command line; how launchctl and schtasks answer is a free choice within *)
(* what is said at the actions.                                            *)
(***************************************************************************)
EXTENDS Naturals, FiniteSets, FiniteSetsExt

CONSTANTS
  Frequencies,      \* numbers, in the order unschedule takes them
  JobSources,       \* what can be backed up
  NoJobThere,
  MaxScheduleCommands,   \* bound: how many commands start
  MaxLogins              \* bound: how often the user logs in again

ASSUME SchedulesAssumption ==
  /\ Frequencies \subseteq Nat
  /\ NoJobThere \notin JobSources
  /\ MaxScheduleCommands \in Nat /\ MaxLogins \in Nat

VARIABLES
  platform,     \* "macos" or "windows"
  plists,       \* frequency -> the job its file in LaunchAgents says
  loaded,       \* frequency -> the job launchd has loaded, or the task
  scPc,         \* where the command is
  scCommand,    \* what it was asked for
  scLeft,       \* the frequencies unschedule has still to come to
  any_failed,   \* a task could not be removed
  scOutcome,    \* how the last command ended
  scBefore,     \* history: what was loaded when it started
  scPassed,     \* history: frequencies this unschedule found no file of, or could
                \* not unload
  scCommands, logins

schedulesVars == <<platform, plists, loaded, scPc, scCommand, scLeft, any_failed, scOutcome,
                   scBefore, scPassed, scCommands, logins>>

NoRequest == [kind |-> "none"]

SchedulesInit ==
  /\ platform \in {"macos", "windows"}
  /\ plists = [q \in Frequencies |-> NoJobThere] /\ loaded = plists
  /\ scPc = "idle" /\ scCommand = NoRequest /\ scLeft = {} /\ any_failed = FALSE
  /\ scOutcome = "none" /\ scBefore = loaded /\ scPassed = {}
  /\ scCommands = 0 /\ logins = 0

StartSchedulesCommand(command, step) ==
  /\ scPc = "idle" /\ scCommands < MaxScheduleCommands
  /\ scCommands' = scCommands + 1
  /\ scCommand' = command /\ scPc' = step
  /\ any_failed' = FALSE /\ scOutcome' = "running"
  /\ scBefore' = loaded /\ scPassed' = {}
  /\ UNCHANGED <<platform, logins>>

EndsWith(outcome) == scPc' = "idle" /\ scOutcome' = outcome

Same == UNCHANGED <<platform, scCommand, scBefore, scCommands, logins>>

-----------------------------------------------------------------------------
\* setup_schedule

\* setup_launchd writes the job's file over one of the same frequency.
WritePlist ==
  /\ platform = "macos"
  /\ \E q \in Frequencies, sources \in {<<x>> : x \in JobSources} \cup JobSources \X JobSources :
       /\ StartSchedulesCommand([kind |-> "schedule", frequency |-> q, sources |-> sources], "load")
       /\ plists' = [plists EXCEPT ![q] = sources[1]]
  /\ scLeft' = {} /\ UNCHANGED loaded

\* Slip: its exit status is not looked at.
LoadJobUnchecked ==
  /\ scPc = "load"
  /\ loaded' \in {loaded, [loaded EXCEPT ![scCommand.frequency] = plists[scCommand.frequency]]}
  /\ EndsWith("ok")
  /\ Same /\ UNCHANGED <<plists, scLeft, any_failed, scPassed>>

\* launchctl load: it succeeds, replacing nothing if a job of that name is
\* loaded (and the list that is asked for then may fail), ...
LoadJob ==
  /\ scPc = "load"
  /\ LET q == scCommand.frequency
     IN  loaded' = IF loaded[q] = NoJobThere THEN [loaded EXCEPT ![q] = plists[q]] ELSE loaded
  /\ EndsWith("ok") \/ EndsWith("error")
  /\ Same /\ UNCHANGED <<plists, scLeft, any_failed, scPassed>>

\* ... or is refused, and the file is removed.
LoadRefused ==
  /\ scPc = "load"
  /\ plists' = [plists EXCEPT ![scCommand.frequency] = NoJobThere]
  /\ EndsWith("refused")
  /\ Same /\ UNCHANGED <<loaded, scLeft, any_failed, scPassed>>

\* launchctl or schtasks cannot be run: the command ends where it is.
ToolMissing ==
  /\ \/ scPc = "load"
     \/ scPc = "unload" /\ scLeft # {} /\ (platform = "macos" => plists[Min(scLeft)] # NoJobThere)
  /\ EndsWith("error")
  /\ Same /\ UNCHANGED <<plists, loaded, scLeft, any_failed, scPassed>>

\* setup_windows_task: schtasks /create /f replaces the task, or fails.
CreateTask ==
  /\ platform = "windows"
  /\ \E q \in Frequencies, sources \in {<<x>> : x \in JobSources} \cup JobSources \X JobSources :
       /\ StartSchedulesCommand([kind |-> "schedule", frequency |-> q, sources |-> sources], "created")
       /\ loaded' \in {loaded, [loaded EXCEPT ![q] = sources[1]]}
  /\ scLeft' = {} /\ UNCHANGED plists

TaskCreated ==
  /\ scPc = "created"
  /\ \/ loaded[scCommand.frequency] = scCommand.sources[1] /\ EndsWith("ok")
     \/ loaded = scBefore /\ EndsWith("refused")
  /\ Same /\ UNCHANGED <<plists, loaded, scLeft, any_failed, scPassed>>

-----------------------------------------------------------------------------
\* unschedule, of one frequency or of all.

Unschedule ==
  /\ \E S \in {{q} : q \in Frequencies} \cup {Frequencies} :
       /\ StartSchedulesCommand([kind |-> "unschedule", frequencies |-> S], "unload")
       /\ scLeft' = S
  /\ UNCHANGED <<plists, loaded>>

Turn(q) == scPc = "unload" /\ scLeft # {} /\ q = Min(scLeft) /\ scLeft' = scLeft \ {q}

\* No file: whatever is loaded is passed over.
SkipMissing(q) ==
  /\ platform = "macos" /\ Turn(q)
  /\ plists[q] = NoJobThere
  /\ scPassed' = scPassed \cup {q}
  /\ Same /\ UNCHANGED <<plists, loaded, scPc, any_failed, scOutcome>>

\* launchctl unload, and whether it could or not, the file is removed.
UnloadJob(q) ==
  /\ platform = "macos" /\ Turn(q)
  /\ plists[q] # NoJobThere
  /\ \/ loaded' = [loaded EXCEPT ![q] = NoJobThere] /\ UNCHANGED scPassed
     \/ UNCHANGED loaded /\ scPassed' = scPassed \cup {q}
  /\ plists' = [plists EXCEPT ![q] = NoJobThere]
  /\ Same /\ UNCHANGED <<scPc, any_failed, scOutcome>>

\* The file cannot be removed: the frequencies after it are not come to.
RemovePlistFails(q) ==
  /\ platform = "macos" /\ Turn(q)
  /\ plists[q] # NoJobThere
  /\ \/ loaded' = [loaded EXCEPT ![q] = NoJobThere]
     \/ UNCHANGED loaded
  /\ EndsWith("error")
  /\ Same /\ UNCHANGED <<plists, any_failed, scPassed>>

\* Slip: only the last task decides whether one could not be removed.
DeleteTaskLast(q) ==
  /\ platform = "windows" /\ Turn(q)
  /\ \/ loaded' = [loaded EXCEPT ![q] = NoJobThere] /\ any_failed' = FALSE
     \/ loaded[q] # NoJobThere /\ UNCHANGED loaded /\ any_failed' = TRUE
  /\ Same /\ UNCHANGED <<plists, scPc, scOutcome, scPassed>>

\* schtasks /delete: a task that is not there is no failure; after one that
\* cannot be removed the others are tried.
DeleteTask(q) ==
  /\ platform = "windows" /\ Turn(q)
  /\ \/ loaded' = [loaded EXCEPT ![q] = NoJobThere] /\ UNCHANGED any_failed
     \/ loaded[q] # NoJobThere /\ UNCHANGED loaded /\ any_failed' = TRUE
  /\ Same /\ UNCHANGED <<plists, scPc, scOutcome, scPassed>>

UnscheduleEnds ==
  /\ scPc = "unload" /\ scLeft = {}
  /\ EndsWith(IF any_failed THEN "error" ELSE "ok")
  /\ Same /\ UNCHANGED <<plists, loaded, scLeft, any_failed, scPassed>>

-----------------------------------------------------------------------------
CrashSchedules ==
  /\ scPc # "idle"
  /\ EndsWith("crash")
  /\ Same /\ UNCHANGED <<plists, loaded, scLeft, any_failed, scPassed>>

\* The user logs in: launchd loads the files there are.
Login ==
  /\ scPc = "idle" /\ logins < MaxLogins
  /\ logins' = logins + 1
  /\ loaded' = IF platform = "macos" THEN plists ELSE loaded
  /\ UNCHANGED <<platform, plists, scPc, scCommand, scLeft, any_failed, scOutcome, scBefore,
                 scPassed, scCommands>>

SchedulesNext ==
  \/ WritePlist \/ LoadJob \/ LoadRefused \/ ToolMissing
  \/ CreateTask \/ TaskCreated
  \/ Unschedule \/ UnscheduleEnds
  \/ \E q \in Frequencies :
       SkipMissing(q) \/ UnloadJob(q) \/ RemovePlistFails(q) \/ DeleteTask(q)
  \/ CrashSchedules \/ Login

SchedulesSpec == SchedulesInit /\ [][SchedulesNext]_schedulesVars

-----------------------------------------------------------------------------
\* Correctness, from the end of a command to the start of the next, logins in
\* between included.

Asked(kind) == scCommand.kind = kind

\* What will run once the user has logged in again.
AfterLogin(q) == IF platform = "macos" THEN plists[q] ELSE loaded[q]

\* After a schedule command that reports success a job of that frequency runs,
\* now and after every login, and from the next login on it is the one asked
\* for; so it is at once unless another was loaded (setup_launchd,
\* setup_windows_task).
ScheduledRuns ==
  Asked("schedule") /\ scOutcome = "ok" =>
    LET q == scCommand.frequency
    IN  /\ loaded[q] # NoJobThere /\ AfterLogin(q) = scCommand.sources[1]
        /\ loaded[q] # scCommand.sources[1] => loaded[q] = scBefore[q] /\ platform = "macos"

\* After an unschedule that reports success no job it was asked to remove
\* starts at the next login; and none is running, but where launchctl could
\* not unload it, or it was loaded without a file (unschedule_launchd,
\* unschedule_windows_task).
UnscheduledStops ==
  Asked("unschedule") /\ scOutcome = "ok" =>
    \A q \in scCommand.frequencies :
      /\ AfterLogin(q) = NoJobThere
      /\ loaded[q] # NoJobThere => platform = "macos" /\ q \in scPassed

================================================================================
