---------------------------- MODULE PlatformProofs -----------------------------
(***************************************************************************)
(* What the program has the operating system do, however its tools answer  *)
(* and wherever a process ends early.                                      *)
(*                                                                         *)
(* Schedules: what schedule and unschedule report holds, for any set of    *)
(* frequencies and jobs, on macOS and on Windows.                          *)
(* ApfsSnapshot: for any number of processes that back up from snapshots,  *)
(* each reads its own, and none is left behind without a reason.           *)
(***************************************************************************)
EXTENDS Schedules, ApfsSnapshot, TLAPS

Jobs == [Frequencies -> JobSources \cup {NoJobThere}]

\* While a schedule command waits for the answer of launchctl or schtasks,
\* nothing but the job asked for can have changed.
Scheduling ==
  LET q == scCommand.frequency
      job == scCommand.sources[1]
  IN  /\ Asked("schedule") /\ scOutcome = "running"
      /\ q \in Frequencies /\ job \in JobSources
      /\ scPc = "load" => platform = "macos" /\ plists[q] = job /\ loaded = scBefore
      /\ scPc = "created" => platform = "windows"

\* What unschedule has come to is gone, or it remembers that it is not.
Unscheduled(q) ==
  /\ platform = "macos" => plists[q] = NoJobThere /\ (loaded[q] # NoJobThere => q \in scPassed)
  /\ platform = "windows" => loaded[q] = NoJobThere \/ any_failed

Unscheduling ==
  /\ Asked("unschedule") /\ scOutcome = "running"
  /\ scCommand.frequencies \subseteq Frequencies
  /\ \A q \in scCommand.frequencies \ scLeft : Unscheduled(q)

SchedulesInv ==
  /\ platform \in {"macos", "windows"}
  /\ plists \in Jobs /\ loaded \in Jobs /\ scBefore \in Jobs
  /\ scPc \in {"idle", "load", "created", "unload"}
  /\ scPc \in {"load", "created"} => Scheduling
  /\ scPc = "unload" => Unscheduling
  /\ Asked("schedule") => scCommand.frequency \in Frequencies /\ scCommand.sources[1] \in JobSources
  /\ Asked("unschedule") => scCommand.frequencies \subseteq Frequencies
  /\ ScheduledRuns /\ UnscheduledStops

LEMMA InitSchedules == SchedulesInit => SchedulesInv
  BY DEF SchedulesInit, SchedulesInv, Jobs, NoRequest, Asked, ScheduledRuns, UnscheduledStops

\* A command that starts has reported nothing.
LEMMA Reported ==
  ASSUME scOutcome # "ok"
  PROVE  ScheduledRuns /\ UnscheduledStops
  BY DEF ScheduledRuns, UnscheduledStops

LEMMA ScheduleStep ==
  ASSUME SchedulesInv, WritePlist \/ CreateTask \/ LoadJob \/ LoadRefused \/ TaskCreated
  PROVE  SchedulesInv'
<1> USE DEF SchedulesInv, Jobs, Same, EndsWith, Asked
<1>1. CASE WritePlist
  <2>1. PICK q \in Frequencies, sources \in {<<x>> : x \in JobSources} \cup JobSources \X JobSources :
          /\ StartSchedulesCommand([kind |-> "schedule", frequency |-> q, sources |-> sources], "load")
          /\ plists' = [plists EXCEPT ![q] = sources[1]]
    BY <1>1 DEF WritePlist
  <2>2. sources[1] \in JobSources /\ UNCHANGED <<loaded, platform>> /\ platform = "macos"
    BY <1>1, <2>1 DEF WritePlist, StartSchedulesCommand
  <2>3. (ScheduledRuns /\ UnscheduledStops)'
    BY <2>1 DEF StartSchedulesCommand, ScheduledRuns, UnscheduledStops
  <2> QED
    BY <2>1, <2>2, <2>3 DEF StartSchedulesCommand, Scheduling
<1>2. CASE CreateTask
  <2>1. PICK q \in Frequencies, sources \in {<<x>> : x \in JobSources} \cup JobSources \X JobSources :
          /\ StartSchedulesCommand([kind |-> "schedule", frequency |-> q, sources |-> sources], "created")
          /\ loaded' \in {loaded, [loaded EXCEPT ![q] = sources[1]]}
    BY <1>2 DEF CreateTask
  <2>2. sources[1] \in JobSources /\ UNCHANGED <<plists, platform>> /\ platform = "windows"
    BY <1>2, <2>1 DEF CreateTask, StartSchedulesCommand
  <2>3. (ScheduledRuns /\ UnscheduledStops)'
    BY <2>1 DEF StartSchedulesCommand, ScheduledRuns, UnscheduledStops
  <2> QED
    BY <2>1, <2>2, <2>3 DEF StartSchedulesCommand, Scheduling
<1>3. CASE LoadJob
  BY <1>3, SchedulesAssumption DEF LoadJob, Scheduling, ScheduledRuns, UnscheduledStops, AfterLogin
<1>4. CASE LoadRefused
  BY <1>4 DEF LoadRefused, Scheduling, ScheduledRuns, UnscheduledStops
<1>5. CASE TaskCreated
  BY <1>5, SchedulesAssumption DEF TaskCreated, Scheduling, ScheduledRuns, UnscheduledStops, AfterLogin
<1> QED
  BY <1>1, <1>2, <1>3, <1>4, <1>5

LEMMA UnscheduleStep ==
  ASSUME SchedulesInv,
         \/ Unschedule \/ UnscheduleEnds
         \/ \E q \in Frequencies :
              SkipMissing(q) \/ UnloadJob(q) \/ RemovePlistFails(q) \/ DeleteTask(q)
  PROVE  SchedulesInv'
<1> USE DEF SchedulesInv, Jobs, Same, EndsWith, Asked
<1>1. CASE Unschedule
  <2>1. PICK S \in {{q} : q \in Frequencies} \cup {Frequencies} :
          /\ StartSchedulesCommand([kind |-> "unschedule", frequencies |-> S], "unload")
          /\ scLeft' = S
    BY <1>1 DEF Unschedule
  <2>2. S \subseteq Frequencies /\ UNCHANGED <<plists, loaded, platform>>
    BY <1>1, <2>1 DEF Unschedule, StartSchedulesCommand
  <2>3. (ScheduledRuns /\ UnscheduledStops)'
    BY <2>1 DEF StartSchedulesCommand, ScheduledRuns, UnscheduledStops
  <2> QED
    BY <2>1, <2>2, <2>3 DEF StartSchedulesCommand, Unscheduling
<1>2. CASE UnscheduleEnds
  BY <1>2 DEF UnscheduleEnds, Unscheduling, Unscheduled, ScheduledRuns, UnscheduledStops, AfterLogin
<1>3. ASSUME NEW q \in Frequencies,
             SkipMissing(q) \/ UnloadJob(q) \/ RemovePlistFails(q) \/ DeleteTask(q)
      PROVE  SchedulesInv'
  <2>1. scPc = "unload" /\ scLeft' = scLeft \ {q} /\ UNCHANGED <<platform, scCommand, scBefore>>
    BY <1>3 DEF SkipMissing, UnloadJob, RemovePlistFails, DeleteTask, Turn
  <2>2. scOutcome' # "ok"
    BY <1>3, <2>1 DEF SkipMissing, UnloadJob, RemovePlistFails, DeleteTask, Unscheduling
  <2>3. (ScheduledRuns /\ UnscheduledStops)'
    BY <2>2 DEF ScheduledRuns, UnscheduledStops
  <2>4. plists' \in Jobs /\ loaded' \in Jobs
    BY <1>3 DEF SkipMissing, UnloadJob, RemovePlistFails, DeleteTask
  <2>5. CASE RemovePlistFails(q)
    BY <2>1, <2>3, <2>4, <2>5 DEF RemovePlistFails
  <2>6. CASE SkipMissing(q) \/ UnloadJob(q) \/ DeleteTask(q)
    <3>1. scPc' = scPc /\ scOutcome' = scOutcome
      BY <2>6 DEF SkipMissing, UnloadJob, DeleteTask
    <3>2. Unscheduled(q)'
      BY <2>1, <2>6 DEF SkipMissing, UnloadJob, DeleteTask, Unscheduled
    <3>3. ASSUME NEW r \in Frequencies \ {q}, Unscheduled(r) PROVE Unscheduled(r)'
      BY <2>1, <2>6, <3>3 DEF SkipMissing, UnloadJob, DeleteTask, Unscheduled
    <3> QED
      BY <2>1, <2>3, <2>4, <3>1, <3>2, <3>3 DEF Unscheduling
  <2> QED
    BY <1>3, <2>5, <2>6
<1> QED
  BY <1>1, <1>2, <1>3

LEMMA NextSchedules == SchedulesInv /\ [SchedulesNext]_schedulesVars => SchedulesInv'
<1> SUFFICES ASSUME SchedulesInv, [SchedulesNext]_schedulesVars PROVE SchedulesInv'
  OBVIOUS
<1> USE DEF SchedulesInv, Jobs, Same, EndsWith, Asked
<1>1. CASE ToolMissing \/ CrashSchedules
  BY <1>1 DEF ToolMissing, CrashSchedules, ScheduledRuns, UnscheduledStops
<1>2. CASE Login
  BY <1>2, SchedulesAssumption DEF Login, ScheduledRuns, UnscheduledStops, AfterLogin
<1>3. CASE UNCHANGED schedulesVars
  BY <1>3 DEF schedulesVars, Scheduling, Unscheduling, Unscheduled, ScheduledRuns,
     UnscheduledStops, AfterLogin
<1> QED
  BY <1>1, <1>2, <1>3, ScheduleStep, UnscheduleStep DEF SchedulesNext

\* After a schedule command that reports success a job of that frequency runs,
\* and from the next login on the one asked for; whatever the users log out and
\* in, and whichever jobs there were.
THEOREM AlwaysScheduledRuns == SchedulesSpec => []ScheduledRuns
<1>1. SchedulesInv => ScheduledRuns
  BY DEF SchedulesInv
<1> QED
  BY <1>1, InitSchedules, NextSchedules, PTL DEF SchedulesSpec

\* After an unschedule that reports success nothing it was asked to remove
\* starts again, and what still runs launchctl could not unload or had no file.
THEOREM AlwaysUnscheduledStops == SchedulesSpec => []UnscheduledStops
<1>1. SchedulesInv => UnscheduledStops
  BY DEF SchedulesInv
<1> QED
  BY <1>1, InitSchedules, NextSchedules, PTL DEF SchedulesSpec

-----------------------------------------------------------------------------
\* ApfsSnapshot.

Active(p) == apPc[p] # "idle"
Named(n) == \E p \in Backers : Active(p) /\ snapshot_name[p] = n

ApfsTypes ==
  /\ apfsMade \in 0 .. MaxApfsSnapshots
  /\ apfsSnapshots \subseteq 1 .. apfsMade
  /\ mounts \in [0 .. MaxSeconds -> Seq(Nat)]
  /\ seconds \in 1 .. MaxSeconds
  /\ apPc \in [Backers -> {"idle", "mount", "backup", "unmount", "delete"}]
  /\ apSource \in [Backers -> SourceKind]
  /\ snapshot_name \in [Backers -> Nat]
  /\ mount_point \in [Backers -> Nat]
  /\ apTaken \in [1 .. MaxApfsSnapshots -> 0 .. MaxSeconds]

\* What a guard's process knows of its snapshot: no other process has it, and
\* its mount point is the second it was mounted in; unless another guard took
\* the same one, nothing else is mounted there.
Guarded(p) ==
  LET n == snapshot_name[p]
      t == mount_point[p]
  IN  /\ n \in apfsSnapshots
      /\ \A q \in Backers \ {p} : Active(q) => snapshot_name[q] # n
      /\ apPc[p] = "mount" => apTaken[n] = Never
      /\ apPc[p] # "mount" => t \in 1 .. MaxSeconds /\ apTaken[n] = t
      /\ apPc[p] \in {"backup", "unmount"} /\ Apart(n) => mounts[t] = <<n>>
      /\ apPc[p] = "delete" /\ Apart(n) /\ n \notin apExcused => mounts[t] = <<>>

ApfsInv ==
  /\ ApfsTypes
  /\ \A n \in 1 .. MaxApfsSnapshots : n > apfsMade => apTaken[n] = Never
  /\ \A t \in 0 .. MaxSeconds : \A i \in DOMAIN mounts[t] :
       mounts[t][i] \in 1 .. MaxApfsSnapshots /\ apTaken[mounts[t][i]] = t /\ t # Never
  /\ \A p \in Backers : Active(p) => Guarded(p)
  /\ SnapshotsReleased

LEMMA InitApfs == ApfsInit => ApfsInv
  BY ApfsAssumption DEF ApfsInit, ApfsInv, ApfsTypes, Active, Never, SnapshotsReleased, SourceKind


\* The snapshot of a guard has been made.
LEMMA GuardedMade ==
  ASSUME ApfsTypes, NEW p \in Backers, snapshot_name[p] \in apfsSnapshots
  PROVE  /\ snapshot_name[p] \in 1 .. apfsMade
         /\ snapshot_name[p] \in 1 .. MaxApfsSnapshots
<1>1. snapshot_name[p] \in 1 .. apfsMade
  BY DEF ApfsTypes
<1>2. apfsMade \in Nat /\ apfsMade <= MaxApfsSnapshots /\ MaxApfsSnapshots \in Nat
  BY ApfsAssumption DEF ApfsTypes
<1> QED
  BY <1>1, <1>2

LEMMA ApfsCreates == ASSUME ApfsInv, NEW p \in Backers, CreateSnapshot(p) PROVE ApfsInv'
<1> USE DEF ApfsInv, CreateSnapshot, ApfsGoto
<1>2. apfsMade' = apfsMade + 1 /\ apfsMade' \in 1 .. MaxApfsSnapshots /\ apfsMade \in Nat
  BY ApfsAssumption DEF ApfsTypes
<1>1. ApfsTypes'
  <2>1. apfsSnapshots' \subseteq 1 .. apfsMade'
    BY <1>2 DEF ApfsTypes
  <2>2. apSource' \in [Backers -> SourceKind] /\ snapshot_name' \in [Backers -> Nat]
    BY <1>2, ApfsAssumption DEF ApfsTypes
  <2> QED
    BY <1>2, <2>1, <2>2 DEF ApfsTypes
<1>3. /\ snapshot_name'[p] = apfsMade' /\ apPc'[p] = "mount"
      /\ \A q \in Backers \ {p} :
           /\ snapshot_name'[q] = snapshot_name[q] /\ apPc'[q] = apPc[q]
  BY DEF ApfsTypes
<1>4. \A n \in 1 .. MaxApfsSnapshots : n > apfsMade' => apTaken'[n] = Never
  BY <1>2
<1>5. \A t \in 0 .. MaxSeconds : \A i \in DOMAIN mounts'[t] :
       mounts'[t][i] \in 1 .. MaxApfsSnapshots /\ apTaken'[mounts'[t][i]] = t /\ t # Never
  OBVIOUS
<1>6. \A q \in Backers \ {p} : Active(q)' => snapshot_name'[q] \in 1 .. apfsMade /\ Active(q)
  BY <1>3 DEF Active, Guarded, ApfsTypes
<1>7. Guarded(p)'
  <2>1. \A q \in Backers \ {p} : Active(q)' => snapshot_name'[q] # apfsMade'
    BY <1>2, <1>6
  <2>2. apTaken'[apfsMade'] = Never
    BY <1>2
  <2> QED
    BY <1>2, <1>3, <2>1, <2>2 DEF Guarded
<1>8. ASSUME NEW q \in Backers \ {p}, Active(q)' PROVE Guarded(q)'
  <2>1. Guarded(q) /\ snapshot_name[q] # apfsMade'
    BY <1>2, <1>3, <1>6, <1>8 DEF Active
  <2>2. Apart(snapshot_name[q])' <=> Apart(snapshot_name[q])
    BY <1>3 DEF Apart
  <2>3. \A r \in Backers \ {q} : Active(r)' => snapshot_name'[r] # snapshot_name'[q]
    BY <1>3, <2>1 DEF Active, Guarded
  <2> QED
    BY <1>3, <2>1, <2>2, <2>3 DEF Guarded
<1>9. SnapshotsReleased'
  <2> SUFFICES ASSUME NEW n \in (apfsSnapshots \ apExcused)', Apart(n)'
               PROVE  Named(n)'
    BY DEF SnapshotsReleased, Named, Active
  <2>1. CASE n = apfsMade'
    BY <1>3, <2>1 DEF Named, Active
  <2>2. CASE n # apfsMade'
    <3>1. n \in apfsSnapshots \ apExcused /\ Apart(n)
      BY <2>2 DEF Apart
    <3>2. PICK q \in Backers : apPc[q] # "idle" /\ snapshot_name[q] = n
      BY <3>1 DEF SnapshotsReleased
    <3>3. q # p
      BY <3>2
    <3> QED
      BY <1>3, <3>2, <3>3 DEF Named, Active
  <2> QED
    BY <2>1, <2>2
<1> QED
  BY <1>1, <1>4, <1>5, <1>7, <1>8, <1>9

LEMMA ApfsMounts == ASSUME ApfsInv, NEW p \in Backers, MountSnapshot(p) PROVE ApfsInv'
<1> DEFINE n == snapshot_name[p]
           t == seconds
<1> USE DEF ApfsInv, MountSnapshot, ApfsGoto, MountPoint
<1>1. /\ Guarded(p) /\ n \in 1 .. MaxApfsSnapshots /\ n <= apfsMade /\ apTaken[n] = Never
      /\ t \in 1 .. MaxSeconds /\ n \in Nat
  <2>1. Guarded(p)
    BY DEF Active
  <2>2. n \in apfsSnapshots /\ apTaken[n] = Never
    BY <2>1 DEF Guarded
  <2> QED
    BY <2>1, <2>2, GuardedMade DEF ApfsTypes
<1>2. ApfsTypes'
  <2>1. mounts' \in [0 .. MaxSeconds -> Seq(Nat)]
    <3>1. mounts \in [0 .. MaxSeconds -> Seq(Nat)] /\ t \in 0 .. MaxSeconds
      BY <1>1 DEF ApfsTypes
    <3>2. mounts' = [mounts EXCEPT ![t] = Append(mounts[t], n)]
      BY <1>1
    <3>3. Append(mounts[t], n) \in Seq(Nat)
      BY <1>1, <3>1
    <3> QED
      BY <3>1, <3>2, <3>3
  <2>2. apTaken' \in [1 .. MaxApfsSnapshots -> 0 .. MaxSeconds] /\ mount_point' \in [Backers -> Nat]
    BY <1>1 DEF ApfsTypes
  <2> QED
    BY <2>1, <2>2 DEF ApfsTypes
<1>3. /\ apTaken'[n] = t /\ \A m \in 1 .. MaxApfsSnapshots \ {n} : apTaken'[m] = apTaken[m]
      /\ mounts'[t] = Append(mounts[t], n)
      /\ \A u \in 0 .. MaxSeconds \ {t} : mounts'[u] = mounts[u]
      /\ mount_point'[p] = t /\ apPc'[p] = "backup"
      /\ \A q \in Backers \ {p} : mount_point'[q] = mount_point[q] /\ apPc'[q] = apPc[q]
      /\ DOMAIN apTaken = 1 .. MaxApfsSnapshots /\ DOMAIN apTaken' = 1 .. MaxApfsSnapshots
      /\ mounts[t] \in Seq(Nat)
  BY <1>1 DEF ApfsTypes
<1>4. \A m \in 1 .. MaxApfsSnapshots : m > apfsMade' => apTaken'[m] = Never
  BY <1>1, <1>3 DEF ApfsTypes
<1>5. ASSUME NEW u \in 0 .. MaxSeconds, NEW i \in DOMAIN mounts'[u]
      PROVE  mounts'[u][i] \in 1 .. MaxApfsSnapshots /\ apTaken'[mounts'[u][i]] = u /\ u # Never
  <2>1. CASE u = t /\ i = Len(mounts[t]) + 1
    BY <1>1, <1>3, <2>1 DEF Never
  <2>2. CASE ~(u = t /\ i = Len(mounts[t]) + 1)
    <3>1. i \in DOMAIN mounts[u] /\ mounts'[u][i] = mounts[u][i]
      BY <1>3, <1>5, <2>2
    <3>2. mounts[u][i] \in 1 .. MaxApfsSnapshots /\ apTaken[mounts[u][i]] = u /\ u # Never
      BY <3>1
    <3>3. mounts[u][i] # n
      BY <1>1, <3>2
    <3> QED
      BY <1>3, <3>1, <3>2, <3>3
  <2> QED
    BY <2>1, <2>2
\* Who had its mount point to itself and still has took it in another second.
<1>6. ASSUME NEW m \in 1 .. MaxApfsSnapshots \ {n}, Apart(m)'
      PROVE  Apart(m) /\ apTaken[m] # t
  BY <1>1, <1>3, <1>6 DEF Apart, Never
<1>7. Apart(n)' => mounts[t] = <<>>
  <2> SUFFICES ASSUME Apart(n)', mounts[t] # <<>> PROVE FALSE
    OBVIOUS
  <2>1. 1 \in DOMAIN mounts[t]
    BY <1>3
  <2>2. mounts[t][1] \in 1 .. MaxApfsSnapshots /\ apTaken[mounts[t][1]] = t /\ t # Never
    BY <1>1, <2>1
  <2>3. mounts[t][1] # n /\ apTaken'[mounts[t][1]] = t
    BY <1>1, <1>3, <2>2
  <2> QED
    BY <1>3, <2>2, <2>3 DEF Apart
<1>8. Guarded(p)'
  <2>1. Apart(n)' => mounts'[t] = <<n>>
    <3>1. Append(<<>>, n) = <<n>>
      BY <1>1
    <3> QED
      BY <1>3, <1>7, <3>1
  <2>2. \A q \in Backers \ {p} : Active(q)' => Active(q)
    BY <1>3 DEF Active
  <2> QED
    BY <1>1, <1>3, <2>1, <2>2 DEF Guarded
<1>9. ASSUME NEW q \in Backers \ {p}, Active(q)' PROVE Guarded(q)'
  <2>0. Active(q) /\ Guarded(q) /\ snapshot_name[q] # n
    <3>1. Active(q)
      BY <1>3, <1>9 DEF Active
    <3> QED
      BY <1>1, <3>1 DEF Guarded
  <2>1. snapshot_name[q] \in 1 .. MaxApfsSnapshots \ {n}
    BY <2>0, GuardedMade DEF Guarded
  <2>2. \A r \in Backers \ {q} : Active(r)' => snapshot_name'[r] # snapshot_name'[q]
    BY <1>1, <1>3, <2>0 DEF Active, Guarded
  <2>3. ASSUME Apart(snapshot_name[q])', apPc[q] # "mount"
        PROVE  Apart(snapshot_name[q]) /\ mounts'[mount_point[q]] = mounts[mount_point[q]]
    BY <1>3, <1>6, <2>0, <2>1, <2>3 DEF Guarded
  <2> QED
    <3>1. /\ snapshot_name'[q] \in apfsSnapshots' /\ UNCHANGED <<apPc[q], mount_point[q]>>
          /\ apPc[q] = "mount" => apTaken'[snapshot_name'[q]] = Never
          /\ apPc[q] # "mount" => /\ mount_point[q] \in 1 .. MaxSeconds
                                  /\ apTaken'[snapshot_name'[q]] = mount_point[q]
      BY <1>3, <2>0, <2>1 DEF Guarded
    <3> QED
      BY <2>0, <2>2, <2>3, <3>1 DEF Guarded
<1>10. SnapshotsReleased'
  <2> SUFFICES ASSUME NEW m \in (apfsSnapshots \ apExcused)', Apart(m)'
               PROVE  Named(m)'
    BY DEF SnapshotsReleased, Named, Active
  <2>1. CASE m = n
    BY <1>3, <2>1 DEF Named, Active
  <2>2. CASE m # n
    <3>1. m \in 1 .. MaxApfsSnapshots /\ m \in apfsSnapshots \ apExcused
      BY ApfsAssumption DEF ApfsTypes
    <3>4. Apart(m)
      BY <1>6, <2>2, <3>1
    <3>2. PICK q \in Backers : apPc[q] # "idle" /\ snapshot_name[q] = m
      BY <3>1, <3>4 DEF SnapshotsReleased
    <3> QED
      BY <1>3, <2>2, <3>2 DEF Named, Active
  <2> QED
    BY <2>1, <2>2
<1> QED
  BY <1>2, <1>4, <1>5, <1>8, <1>9, <1>10

LEMMA ApfsUnmounts == ASSUME ApfsInv, NEW p \in Backers, Unmount(p) PROVE ApfsInv'
<1> DEFINE n == snapshot_name[p]
           t == mount_point[p]
           stack == mounts[t]
<1> USE DEF ApfsInv, ApfsGoto
<1>1. Guarded(p) /\ n \in 1 .. MaxApfsSnapshots /\ t \in 1 .. MaxSeconds /\ apTaken[n] = t
  <2>1. apPc[p] = "unmount" /\ Guarded(p)
    BY DEF Active, Unmount
  <2> QED
    BY <2>1, GuardedMade DEF Guarded
<1>2. stack \in Seq(Nat)
  BY <1>1 DEF ApfsTypes
<1>3. /\ UNCHANGED <<apfsSnapshots, apfsMade, seconds, apSource, snapshot_name, mount_point, apTaken>>
      /\ apPc'[p] = "delete" /\ apPc[p] = "unmount"
      /\ \A q \in Backers \ {p} : apPc'[q] = apPc[q]
      /\ \A m : Apart(m)' <=> Apart(m)
  BY DEF Unmount, ApfsTypes, Apart
<1>4. \/ /\ stack # <<>> /\ UNCHANGED apExcused
         /\ mounts' = [mounts EXCEPT ![t] = SubSeq(stack, 1, Len(stack) - 1)]
      \/ /\ mounts' = mounts /\ stack = <<>> /\ apExcused' = apExcused
      \/ /\ mounts' = mounts /\ apExcused' = apExcused \cup {n}
  BY DEF Unmount
<1>5. ASSUME stack # <<>>
      PROVE  /\ SubSeq(stack, 1, Len(stack) - 1) \in Seq(Nat)
             /\ \A i \in DOMAIN SubSeq(stack, 1, Len(stack) - 1) :
                  i \in DOMAIN stack /\ SubSeq(stack, 1, Len(stack) - 1)[i] = stack[i]
             /\ Len(stack) = 1 => SubSeq(stack, 1, Len(stack) - 1) = <<>>
  <2>1. /\ Len(stack) \in Nat /\ Len(stack) >= 1
        /\ \A i \in 1 .. Len(stack) : stack[i] \in Nat
    BY <1>2, <1>5
  <2>2. SubSeq(stack, 1, Len(stack) - 1) = [i \in 1 .. Len(stack) - 1 |-> stack[i]]
    BY <1>2, <2>1
  <2>3. SubSeq(stack, 1, Len(stack) - 1) \in Seq(Nat)
    BY <2>1, <2>2
  <2> QED
    <3>1. DOMAIN SubSeq(stack, 1, Len(stack) - 1) = 1 .. Len(stack) - 1
      BY <2>2
    <3>2. 1 .. Len(stack) - 1 \subseteq DOMAIN stack
      BY <1>2, <2>1
    <3>3. Len(stack) = 1 => SubSeq(stack, 1, Len(stack) - 1) = <<>>
      BY <1>2
    <3> QED
      BY <2>2, <2>3, <3>1, <3>2, <3>3
<1>6. ApfsTypes'
  <2>1. mounts' \in [0 .. MaxSeconds -> Seq(Nat)]
    BY <1>1, <1>4, <1>5 DEF ApfsTypes
  <2>2. apPc' \in [Backers -> {"idle", "mount", "backup", "unmount", "delete"}]
    BY DEF ApfsTypes, Unmount
  <2> QED
    BY <1>3, <2>1, <2>2 DEF ApfsTypes
<1>7. \A u \in 0 .. MaxSeconds : u # t => mounts'[u] = mounts[u]
  BY <1>4 DEF ApfsTypes
<1>8. ASSUME NEW u \in 0 .. MaxSeconds, NEW i \in DOMAIN mounts'[u]
      PROVE  mounts'[u][i] \in 1 .. MaxApfsSnapshots /\ apTaken'[mounts'[u][i]] = u /\ u # Never
  <2>1. i \in DOMAIN mounts[u] /\ mounts'[u][i] = mounts[u][i]
    BY <1>4, <1>5, <1>7, <1>8 DEF ApfsTypes
  <2> QED
    BY <1>3, <2>1
<1>9. Guarded(p)'
  <2>1. ASSUME Apart(n), n \notin apExcused' PROVE mounts'[t] = <<>>
    <3>1. stack = <<n>>
      BY <1>1, <1>3, <2>1 DEF Guarded
    <3>2. stack # <<>> /\ Len(stack) = 1
      BY <3>1
    <3> QED
      <4>1. UNCHANGED apExcused \/ n \in apExcused'
        BY <1>4
      <4>2. mounts' = [mounts EXCEPT ![t] = SubSeq(stack, 1, Len(stack) - 1)]
        BY <1>4, <2>1, <3>2
      <4>3. t \in DOMAIN mounts
        BY <1>1 DEF ApfsTypes
      <4> QED
        BY <1>5, <3>2, <4>2, <4>3
  <2> QED
    BY <1>1, <1>3, <2>1 DEF Guarded, Active
<1>10. ASSUME NEW q \in Backers \ {p}, Active(q)' PROVE Guarded(q)'
  <2>1. Active(q) /\ Guarded(q) /\ snapshot_name[q] # n
    BY <1>1, <1>3, <1>10 DEF Active, Guarded
  <2>2. \A r \in Backers \ {q} : Active(r)' => snapshot_name'[r] # snapshot_name'[q]
    BY <1>1, <1>3, <2>1 DEF Active, Guarded
  <2>3. ASSUME Apart(snapshot_name[q]), apPc[q] # "mount"
        PROVE  mounts'[mount_point[q]] = mounts[mount_point[q]]
    <3>1. mount_point[q] # t
      BY <1>1, <2>1, <2>3 DEF Apart, Guarded, Never, ApfsTypes
    <3>2. mount_point[q] \in 0 .. MaxSeconds
      BY <2>1, <2>3 DEF Guarded
    <3> QED
      BY <1>7, <3>1, <3>2
  <2>4. snapshot_name[q] \notin apExcused' => snapshot_name[q] \notin apExcused
    BY <1>4
  <2> QED
    BY <1>3, <2>1, <2>2, <2>3, <2>4 DEF Guarded
<1>11. SnapshotsReleased'
  <2> SUFFICES ASSUME NEW m \in (apfsSnapshots \ apExcused)', Apart(m)'
               PROVE  Named(m)'
    BY DEF SnapshotsReleased, Named, Active
  <2>1. Apart(m) /\ m \in apfsSnapshots \ apExcused
    BY <1>3, <1>4
  <2>2. PICK q \in Backers : apPc[q] # "idle" /\ snapshot_name[q] = m
    BY <2>1 DEF SnapshotsReleased
  <2> QED
    BY <1>3, <2>2 DEF Named, Active
<1>12. \A m \in 1 .. MaxApfsSnapshots : m > apfsMade' => apTaken'[m] = Never
  BY <1>3
<1> QED
  BY <1>6, <1>8, <1>9, <1>10, <1>11, <1>12

LEMMA ApfsDeletes == ASSUME ApfsInv, NEW p \in Backers, DeleteSnapshot(p) PROVE ApfsInv'
<1> DEFINE n == snapshot_name[p]
           t == mount_point[p]
<1> USE DEF ApfsInv, ApfsGoto
<1>1. Guarded(p) /\ n \in 1 .. MaxApfsSnapshots /\ t \in 1 .. MaxSeconds /\ apTaken[n] = t
  <2>1. apPc[p] = "delete" /\ Guarded(p)
    BY DEF Active, DeleteSnapshot
  <2> QED
    BY <2>1, GuardedMade DEF Guarded
<1>2. /\ UNCHANGED <<apfsMade, mounts, seconds, apSource, snapshot_name, mount_point, apTaken>>
      /\ apPc'[p] = "idle" /\ apPc[p] = "delete"
      /\ \A q \in Backers \ {p} : apPc'[q] = apPc[q]
      /\ \A m : Apart(m)' <=> Apart(m)
  BY DEF DeleteSnapshot, ApfsTypes, Apart
<1>3. /\ apfsSnapshots' \subseteq apfsSnapshots /\ apfsSnapshots \ {n} \subseteq apfsSnapshots'
      /\ apExcused \subseteq apExcused'
  BY DEF DeleteSnapshot
<1>4. ApfsTypes'
  BY <1>2, <1>3 DEF ApfsTypes, DeleteSnapshot
<1>5. ASSUME NEW q \in Backers, Active(q)' PROVE Guarded(q)'
  <2>1. q # p /\ Active(q) /\ Guarded(q) /\ snapshot_name[q] # n
    BY <1>1, <1>2, <1>5 DEF Active, Guarded
  <2>2. \A r \in Backers \ {q} : Active(r)' => Active(r)
    BY <1>2 DEF Active
  <2> QED
    BY <1>2, <1>3, <2>1, <2>2 DEF Guarded
\* Nothing is mounted at the mount point of a snapshot that is not excused, so
\* the snapshot is not mounted at all and goes.
<1>6. ASSUME Apart(n), n \notin apExcused' PROVE n \notin apfsSnapshots'
  <2>1. mounts[t] = <<>>
    BY <1>1, <1>2, <1>3, <1>6 DEF Guarded
  <2>2. ~Mounted(n)
    <3> SUFFICES ASSUME NEW u \in 0 .. MaxSeconds, NEW i \in DOMAIN mounts[u], mounts[u][i] = n
                 PROVE  FALSE
      BY DEF Mounted, ApfsTypes
    <3>1. u = t
      BY <1>1
    <3> QED
      BY <2>1, <3>1
  <2> QED
    BY <1>6, <2>2 DEF DeleteSnapshot
<1>7. SnapshotsReleased'
  <2> SUFFICES ASSUME NEW m \in (apfsSnapshots \ apExcused)', Apart(m)'
               PROVE  Named(m)'
    BY DEF SnapshotsReleased, Named, Active
  <2>1. Apart(m) /\ m \in apfsSnapshots \ apExcused /\ m # n
    BY <1>2, <1>3, <1>6
  <2>2. PICK q \in Backers : apPc[q] # "idle" /\ snapshot_name[q] = m
    BY <2>1 DEF SnapshotsReleased
  <2> QED
    BY <1>2, <2>1, <2>2 DEF Named, Active
<1> QED
  BY <1>2, <1>4, <1>5, <1>7

\* The backup ends, a mount fails, a process dies: the volumes stay as they are.
LEMMA ApfsLeaves ==
  ASSUME ApfsInv, NEW p \in Backers, MountFails(p) \/ BackupEnds(p) \/ CrashBacker(p)
  PROVE  ApfsInv'
<1> USE DEF ApfsInv, ApfsGoto, MountFails, BackupEnds, CrashBacker
<1>1. /\ UNCHANGED <<apfsSnapshots, apfsMade, mounts, seconds, apSource, snapshot_name,
                     mount_point, apTaken>>
      /\ \/ apPc'[p] = "idle" /\ apExcused' = apExcused \cup {snapshot_name[p]}
         \/ apPc[p] = "backup" /\ apPc'[p] = "unmount" /\ apExcused' = apExcused
      /\ \A q \in Backers \ {p} : apPc'[q] = apPc[q]
      /\ \A m : Apart(m)' <=> Apart(m)
      /\ apPc[p] # "idle"
  BY DEF ApfsTypes, Apart
<1>2. ApfsTypes'
  BY DEF ApfsTypes
<1>3. ASSUME NEW q \in Backers, Active(q)' PROVE Guarded(q)'
  <2>1. Guarded(q) /\ \A r \in Backers : Active(r)' => Active(r)
    BY <1>1, <1>3 DEF Active
  <2>2. \/ apPc'[q] = apPc[q]
        \/ apPc[q] = "backup" /\ apPc'[q] = "unmount"
    BY <1>1, <1>3 DEF Active
  <2>3. snapshot_name[q] \notin apExcused' => snapshot_name[q] \notin apExcused
    BY <1>1
  <2> QED
    BY <1>1, <2>1, <2>2, <2>3 DEF Guarded
<1>4. SnapshotsReleased'
  <2> SUFFICES ASSUME NEW m \in (apfsSnapshots \ apExcused)', Apart(m)'
               PROVE  Named(m)'
    BY DEF SnapshotsReleased, Named, Active
  <2>1. Apart(m) /\ m \in apfsSnapshots \ apExcused
    BY <1>1
  <2>2. PICK q \in Backers : apPc[q] # "idle" /\ snapshot_name[q] = m
    BY <2>1 DEF SnapshotsReleased
  <2> QED
    BY <1>1, <2>2 DEF Named, Active
<1> QED
  BY <1>1, <1>2, <1>3, <1>4

LEMMA NextApfs == ApfsInv /\ [ApfsNext]_apfsVars => ApfsInv'
<1> SUFFICES ASSUME ApfsInv, [ApfsNext]_apfsVars PROVE ApfsInv'
  OBVIOUS
<1>1. CASE Tick \/ UNCHANGED apfsVars
  <2>1. /\ UNCHANGED <<apfsSnapshots, apfsMade, mounts, apPc, apSource, snapshot_name,
                        mount_point, apTaken, apExcused>>
        /\ seconds' \in 1 .. MaxSeconds
    BY <1>1, ApfsAssumption DEF Tick, apfsVars, ApfsInv, ApfsTypes
  <2>2. \A n : Apart(n)' <=> Apart(n)
    BY <2>1 DEF Apart
  <2>3. ApfsTypes' /\ SnapshotsReleased'
    BY <2>1, <2>2 DEF ApfsInv, ApfsTypes, SnapshotsReleased
  <2>4. \A p \in Backers : Active(p)' => Guarded(p)'
    BY <2>1, <2>2 DEF ApfsInv, Active, Guarded
  <2> QED
    BY <2>1, <2>3, <2>4 DEF ApfsInv
<1> QED
  BY <1>1, ApfsCreates, ApfsMounts, ApfsUnmounts, ApfsDeletes, ApfsLeaves DEF ApfsNext

\* While it backs up, a process reads its own snapshot.
THEOREM AlwaysOwnSnapshotRead == ApfsSpec => []OwnSnapshotRead
<1>1. ApfsInv => OwnSnapshotRead
  <2> SUFFICES ASSUME ApfsInv, NEW p \in Backers, apPc[p] = "backup",
                      apSource[p].written = "canonical", Apart(snapshot_name[p])
               PROVE  ReadFrom(p) = snapshot_name[p] /\ snapshot_name[p] \in apfsSnapshots
    BY DEF OwnSnapshotRead
  <2>1. snapshot_name[p] \in apfsSnapshots /\ mounts[mount_point[p]] = <<snapshot_name[p]>>
    BY DEF ApfsInv, Active, Guarded
  <2> QED
    BY <2>1 DEF ReadFrom, Rebased, SeenAt
<1> QED
  BY <1>1, InitApfs, NextApfs, PTL DEF ApfsSpec

THEOREM AlwaysSnapshotsReleased == ApfsSpec => []SnapshotsReleased
<1>1. ApfsInv => SnapshotsReleased
  BY DEF ApfsInv
<1> QED
  BY <1>1, InitApfs, NextApfs, PTL DEF ApfsSpec

================================================================================
