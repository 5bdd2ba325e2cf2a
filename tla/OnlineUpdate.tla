------------------------------ MODULE OnlineUpdate ------------------------------
(***************************************************************************)
(* The online update: the job and its goroutine (update.go), the automatic *)
(* installation at night (update_auto.go), the detached script that swaps  *)
(* the frontend and the program and restarts the service                   *)
(* (update_restart.sh.tmpl), and start.sh, which the process guardian runs *)
(* and which tries the new version and rolls it back (guardian_start.sh).  *)
(*                                                                         *)
(* Memory is lost when the process ends; job files, result files, the      *)
(* handoff, the program, the frontend and the configuration keys are not.  *)
(* The frontend shares its directory with the program ("overlay", the      *)
(* layout of the panel the guardian belongs to).                           *)
(***************************************************************************)
EXTENDS Naturals, FiniteSets

CONSTANTS
  MaxJobs,      \* bound on the jobs launched
  MaxFaults     \* bound on killed processes and scripts, machine restarts, lost writes and
                \* files that cannot be put back

ASSUME UpdateAssumption == MaxJobs \in Nat \ {0} /\ MaxFaults \in Nat

Jobs == 1..MaxJobs   \* identities are times, so they only grow
None == 0            \* no job

MaxAttempts == 2

VARIABLES
  guarded,    \* whether a guardian owns the process
  healthy,    \* whether the new version starts
  bin, front, \* version of the program and of the frontend on disk
  binBackup, frontBackup,  \* job -> what its script set aside, "none" once moved back
  file,       \* job -> status in <id>.json
  result,     \* job -> <id>.json.result
  handoff, attempts,       \* pending-restart/handoff.sh and pending-restart/attempts
  torn,       \* handoff.sh is there, but only half of it
  trial,      \* the job whose handoff.sh start.sh has read
  proc, ver,  \* the service process and the version it was started from
  mem, runningID,          \* updateStore of that process
  waiting,    \* jobs its waitAndSettleOnlineUpdateJobs goroutine looks after
  work,       \* job -> the goroutine runOnlineUpdateJob
  script,     \* job -> how far its script is
  guard,      \* how far start.sh is
  watch, watchJob,         \* the goroutine of StartOnlineUpdateWatcher
  pendingKey, failedKey,   \* auto_pending_job; whether auto_failed_version is the new version
  auto, faults,            \* history: automatic jobs, faults
  lost,       \* history: jobs whose worker was killed or whose handoff was taken away
  unrestored  \* history: a rollback could not copy the program back

disk   == <<bin, front, binBackup, frontBackup>>
memory == <<mem, runningID, waiting, work, watch, watchJob>>
keys   == <<pendingKey, failedKey>>
hist   == <<auto, lost, faults, unrestored>>
pending == <<handoff, attempts, torn, trial>>
shell  == <<script, guard, pending>>
process == <<proc, ver>>
vars == <<guarded, healthy, disk, file, result, shell, process, memory, keys, hist>>

Alive(j) == script[j] \notin {"none", "ended"}   \* its script runs

Open  == {"running", "restarting"}
Final == {"success", "failed"}

Programs == {"old", "new", "broken"}   \* a program written halfway does not start

TypeOK ==
  /\ guarded \in BOOLEAN /\ healthy \in BOOLEAN
  /\ bin \in Programs /\ front \in {"old", "new", "gone"}
  /\ binBackup \in [Jobs -> {"none"} \cup Programs]
  /\ frontBackup \in [Jobs -> {"none", "old", "new", "gone"}]
  /\ file \in [Jobs -> {"none"} \cup Open \cup Final]
  /\ result \in [Jobs -> {"none"} \cup Final]
  /\ handoff \in Jobs \cup {None} /\ attempts \in 0..MaxAttempts
  /\ torn \in BOOLEAN /\ trial \in Jobs \cup {None}
  /\ proc \in {"down", "booting", "serving"} /\ ver \in Programs
  /\ mem \in [Jobs -> {"none"} \cup Open \cup Final]
  /\ runningID \in Jobs \cup {None}
  /\ waiting \in SUBSET Jobs
  /\ work \in [Jobs -> {"none", "prepare", "spawned", "finishing"}]
  /\ script \in [Jobs -> {"none", "start", "switched", "swapped", "armed", "stopped", "replaced",
                          "checking", "undoBin", "undoFront", "undone", "revived", "ended"}]
  /\ guard \in {"off", "plain", "check", "marked", "undoBin", "undoFront", "undone", "written"}
  /\ watch \in {"idle", "settled", "launched"} /\ watchJob \in Jobs \cup {None}
  /\ pendingKey \in Jobs \cup {None} /\ failedKey \in BOOLEAN
  /\ auto \subseteq Jobs /\ lost \subseteq Jobs /\ faults \in 0..MaxFaults
  /\ unrestored \in BOOLEAN
  /\ runningID # None => mem[runningID] \in Open

Init ==
  /\ guarded \in BOOLEAN /\ healthy \in BOOLEAN
  /\ bin = "old" /\ front = "old"
  /\ binBackup = [j \in Jobs |-> "none"] /\ frontBackup = [j \in Jobs |-> "none"]
  /\ file = [j \in Jobs |-> "none"] /\ result = [j \in Jobs |-> "none"]
  /\ handoff = None /\ attempts = 0 /\ torn = FALSE /\ trial = None
  /\ proc = "serving" /\ ver = "old"
  /\ mem = [j \in Jobs |-> "none"] /\ runningID = None /\ waiting = {}
  /\ work = [j \in Jobs |-> "none"] /\ script = [j \in Jobs |-> "none"]
  /\ guard = IF guarded THEN "plain" ELSE "off"
  /\ watch = "idle" /\ watchJob = None
  /\ pendingKey = None /\ failedKey = FALSE
  /\ auto = {} /\ lost = {} /\ faults = 0 /\ unrestored = FALSE

\* Bounds what goes wrong from outside.
Fault == faults < MaxFaults /\ faults' = faults + 1

--------------------------------------------------------------------------------
\* The job in the service process.

\* loadOnlineUpdateJob with reconcileOnlineUpdateJobResult: the result file wins. The
\* caller writes what it reads back to the job file.
Reported(j) == IF result[j] # "none" THEN result[j] ELSE file[j]
Reconciled(js) == [j \in Jobs |-> IF j \in js THEN Reported(j) ELSE file[j]]

\* reserveOnlineUpdateJob: the running job is first settled by its result file.
Settleable(j) == mem[j] = "restarting" /\ result[j] # "none"
CanReserve == runningID # None => Settleable(runningID)
SettledFirst(f) == [j \in Jobs |-> IF j = runningID THEN result[j] ELSE f[j]]

\* launchOnlineUpdateJob, from reserveOnlineUpdateJob to the goroutine's start; only the
\* old version finds the new one to be an update.
Launch(j) ==
  /\ proc = "serving" /\ ver = "old"
  /\ CanReserve
  /\ file[j] = "none" /\ \A i \in 1..(j - 1) : file[i] # "none"
  /\ file' = [SettledFirst(file) EXCEPT ![j] = "running"]
  /\ mem' = [SettledFirst(mem) EXCEPT ![j] = "running"]
  /\ runningID' = j
  /\ work' = [work EXCEPT ![j] = "prepare"]
  /\ UNCHANGED <<guarded, healthy, disk, result, shell, process, waiting, lost, faults, unrestored>>

Apply(j) == Launch(j) /\ UNCHANGED <<watch, watchJob, keys, auto>>

Freed(j) == IF runningID = j THEN None ELSE runningID

\* Mutant: finishOnlineUpdateJob does not free the running job.
PrepareFailsKeepsSlot(j) ==
  /\ work[j] = "prepare"
  /\ work' = [work EXCEPT ![j] = "none"]
  /\ mem' = [mem EXCEPT ![j] = "failed"]
  /\ file' = [file EXCEPT ![j] = "failed"]
  /\ UNCHANGED <<guarded, healthy, disk, result, shell, process, runningID, waiting, watch, watchJob, keys, hist>>

\* executeOnlineUpdate fails before the script runs: signature, permissions, download,
\* package, database backup.
PrepareFails(j) ==
  /\ work[j] = "prepare"
  /\ work' = [work EXCEPT ![j] = "none"]
  /\ mem' = [mem EXCEPT ![j] = "failed"]
  /\ file' = [file EXCEPT ![j] = "failed"]
  /\ runningID' = Freed(j)
  /\ UNCHANGED <<guarded, healthy, disk, result, shell, process, waiting, watch, watchJob, keys, hist>>

\* executeOnlineUpdate starts the script in a session of its own; the package takes longer
\* than the watcher takes to save the identity of a job it has launched, this or the last.
Spawn(j) ==
  /\ work[j] = "prepare" /\ watch # "launched"
  /\ work' = [work EXCEPT ![j] = "spawned"]
  /\ script' = [script EXCEPT ![j] = "start"]
  /\ UNCHANGED <<guarded, healthy, disk, file, result, guard, pending, process, mem, runningID,
                 waiting, watch, watchJob, keys, hist>>

\* finishOnlineUpdateJob(restarting): memory under the lock, the file after it.
FinishMemory(j) ==
  /\ work[j] = "spawned"
  /\ work' = [work EXCEPT ![j] = "finishing"]
  /\ mem' = [mem EXCEPT ![j] = "restarting"]
  /\ UNCHANGED <<guarded, healthy, disk, file, result, shell, process, runningID, waiting, watch, watchJob,
                 keys, hist>>

FinishFile(j) ==
  /\ work[j] = "finishing"
  /\ work' = [work EXCEPT ![j] = "none"]
  /\ file' = [file EXCEPT ![j] = "restarting"]
  /\ UNCHANGED <<guarded, healthy, disk, result, shell, process, mem, runningID, waiting, watch, watchJob,
                 keys, hist>>

\* AdminOnlineUpdateJob: snapshotOnlineUpdateJob settles a restarting job of this process by
\* its result, and reads any other from its file.
Poll(j) ==
  /\ proc = "serving"
  /\ result[j] # "none"
  /\ \/ /\ Settleable(j)
        /\ mem' = [mem EXCEPT ![j] = result[j]]
        /\ runningID' = Freed(j)
     \/ mem[j] = "none" /\ UNCHANGED <<mem, runningID>>
  /\ file' = Reconciled({j})
  /\ UNCHANGED <<guarded, healthy, disk, result, shell, process, waiting, work, watch, watchJob, keys, hist>>

\* healStaleMatchedRestartingJob, on every reading of the version: a minute after the job's
\* last entry, the target version runs and no handoff is pending.
Heal(j) ==
  /\ proc = "serving" /\ ver = "new"
  /\ handoff = None /\ ~torn
  /\ Reported(j) \in Open
  /\ file' = [file EXCEPT ![j] = "success"]
  /\ mem' = [mem EXCEPT ![j] = "success"]
  /\ runningID' = Freed(j)
  /\ UNCHANGED <<guarded, healthy, disk, result, shell, process, waiting, work, watch, watchJob, keys, hist>>

--------------------------------------------------------------------------------
\* The service process.

NoMemory == [j \in Jobs |-> "none"]

\* The process ends: memory goes, and with it the goroutines of its jobs, its waiter and
\* its watcher.
Forget ==
  /\ mem' = NoMemory /\ runningID' = None /\ waiting' = {} /\ work' = NoMemory
  /\ watch' = "idle" /\ watchJob' = None

Down == Forget /\ proc' = "down" /\ ver' = ver

Dropped == lost \cup {j \in Jobs : work[j] = "prepare"}
Orphaned == Dropped \cup {j \in Jobs : Alive(j)}   \* when the process was not to be stopped

Start == proc' = "booting" /\ ver' = bin

\* main: migrations, then SettleOnlineUpdateJobsAfterRestart looks for open jobs of the
\* version that runs, then the port is opened. A broken version never gets there.
Listen ==
  /\ proc = "booting"
  /\ ver = "old" \/ (ver = "new" /\ healthy)
  /\ proc' = "serving"
  /\ file' = Reconciled(Jobs)
  /\ waiting' = {j \in Jobs : ver = "new" /\ Reported(j) \in Open}
  /\ UNCHANGED <<guarded, healthy, disk, result, shell, ver, mem, runningID, work, watch, watchJob, keys, hist>>

\* waitAndSettleOnlineUpdateJobs: a result ends the wait.
WaiterSees(j) ==
  /\ j \in waiting
  /\ Reported(j) \in Final
  /\ waiting' = waiting \ {j}
  /\ file' = Reconciled({j})
  /\ UNCHANGED <<guarded, healthy, disk, result, shell, process, mem, runningID, work, watch, watchJob, keys, hist>>

\* The windows are longer than the health check that watches this process.
WindowOver == guard \notin {"check", "marked"} /\ \A j \in Jobs : script[j] # "checking"

WaiterExpires(j) ==
  /\ j \in waiting
  /\ Reported(j) \in Open
  /\ WindowOver
  /\ waiting' = waiting \ {j}
  /\ file' = [file EXCEPT ![j] = "success"]
  /\ UNCHANGED <<guarded, healthy, disk, result, shell, process, mem, runningID, work, watch, watchJob, keys, hist>>

--------------------------------------------------------------------------------
\* The nightly installation: runOnlineUpdateWatch.

\* The first watch of a process comes a minute after its start, the next ones by the hour. In
\* a minute the script of the process before is done, unless it checks the new version; in an
\* hour so is everything an automatic job of this process does.
WatchDue ==
  /\ \A j \in Jobs : mem[j] = "none" => script[j] \in {"none", "checking", "ended"}
  /\ \A j \in auto : mem[j] # "none" => work[j] = "none" /\ ~Alive(j)

\* Mutant: the failed version is not remembered.
WatchSettleForgets ==
  /\ watch = "idle"
  /\ WatchDue
  /\ proc = "serving"
  /\ watch' = "settled"
  /\ IF pendingKey # None /\ Reported(pendingKey) \in Final \cup {"none"}
     THEN pendingKey' = None /\ failedKey' = failedKey /\ file' = Reconciled({pendingKey})
     ELSE UNCHANGED <<keys, file>>
  /\ UNCHANGED <<guarded, healthy, disk, result, shell, process, mem, runningID, waiting, work, watchJob, hist>>

\* settleOnlineUpdateAutoResult.
WatchSettle ==
  /\ watch = "idle"
  /\ WatchDue
  /\ proc = "serving"
  /\ watch' = "settled"
  /\ IF pendingKey # None /\ Reported(pendingKey) \in Final \cup {"none"}
     THEN /\ failedKey' = (failedKey \/ Reported(pendingKey) = "failed")
          /\ pendingKey' = None
          /\ file' = Reconciled({pendingKey})
     ELSE UNCHANGED <<keys, file>>
  /\ UNCHANGED <<guarded, healthy, disk, result, shell, process, mem, runningID, waiting, work, watchJob, hist>>

\* maybeAutoApplyOnlineUpdate, after the manifest has been fetched.
WatchLaunch(j) ==
  /\ watch = "settled"
  /\ ~failedKey
  /\ Launch(j)
  /\ watch' = "launched" /\ watchJob' = j
  /\ auto' = auto \cup {j}
  /\ UNCHANGED keys

\* Out of hours, switched off, nothing to install, failed before, or a job is running.
WatchPasses ==
  /\ watch = "settled"
  /\ watch' = "idle"
  /\ UNCHANGED <<guarded, healthy, disk, file, result, shell, process, mem, runningID, waiting, work, watchJob,
                 keys, hist>>

\* The job's identity is saved; an error is ignored.
WatchSaves ==
  /\ watch = "launched"
  /\ watch' = "idle" /\ watchJob' = None
  /\ \/ pendingKey' = watchJob /\ UNCHANGED faults
     \/ Fault /\ UNCHANGED pendingKey
  /\ UNCHANGED <<guarded, healthy, disk, file, result, shell, process, mem, runningID, waiting, work, failedKey,
                 auto, lost, unrestored>>

--------------------------------------------------------------------------------
\* The script update_restart.sh.tmpl, which outlives the process that started it.

At(j, s) == script[j] = s
Goto(j, s) == script' = [script EXCEPT ![j] = s]

\* guardian_owns_pid: the process that launched the job is still the one that runs.
OwnsPid(j) == guarded /\ proc # "down" /\ mem[j] # "none"

fixed == <<guarded, healthy, file, keys, faults, unrestored>>

\* The overlay: what is there moves to the backup, the new files take its place.
SwitchFrontend(j) ==
  /\ At(j, "start") /\ Goto(j, "switched")
  /\ frontBackup' = [frontBackup EXCEPT ![j] = front]
  /\ front' = "new"
  /\ UNCHANGED <<fixed, bin, binBackup, result, guard, pending, process, memory, auto, lost>>

\* No directory, no space, no permission: nothing has been touched.
StartFails(j) ==
  /\ At(j, "start") /\ Goto(j, "revived")
  /\ UNCHANGED <<fixed, disk, result, guard, pending, process, memory, auto, lost>>

\* The guardian owns the process: replace the program under it.
SwapBinary(j) ==
  /\ At(j, "switched") /\ OwnsPid(j) /\ Goto(j, "swapped")
  /\ binBackup' = [binBackup EXCEPT ![j] = bin]
  /\ bin' = "new"
  /\ UNCHANGED <<fixed, front, frontBackup, result, guard, pending, process, memory, auto, lost>>

\* No new binary, no backup, no curl: the frontend goes back. After the swap the old
\* program is copied back first.
SwitchedFails(j) ==
  /\ At(j, "switched") /\ Goto(j, "undoFront")
  /\ UNCHANGED <<fixed, disk, result, guard, pending, process, memory, auto, lost>>

\* rm -rf "$pending"
TakenAway == lost' = IF handoff = None THEN lost ELSE lost \cup {handoff}

\* install_guardian_start fails, or write_pending_handoff does, which leaves as much of
\* handoff.sh as it has written.
SwappedFails(j) ==
  /\ At(j, "swapped") /\ Goto(j, "undoBin")
  /\ \/ UNCHANGED <<handoff, attempts, torn, lost>>
     \/ TakenAway /\ handoff' = None /\ attempts' = 0 /\ torn' \in BOOLEAN
  /\ UNCHANGED <<fixed, disk, result, guard, trial, process, memory, auto>>

\* install_guardian_start and write_pending_handoff.
WriteHandoff(j) ==
  /\ At(j, "swapped") /\ Goto(j, "armed")
  /\ TakenAway /\ handoff' = j /\ attempts' = 0 /\ torn' = FALSE
  /\ UNCHANGED <<fixed, disk, result, guard, trial, process, memory, auto>>

\* stop_pid APP_PID: the guardian does the rest.
StopApp(j) ==
  /\ At(j, "armed") /\ Goto(j, "ended")
  /\ IF OwnsPid(j)
     THEN Down /\ guard' = "off" /\ lost' = Dropped
     ELSE UNCHANGED <<process, memory, lost, guard>>
  /\ UNCHANGED <<fixed, disk, result, pending, auto>>

\* Nobody owns it: back up, stop whatever of ours holds the port.
StopOld(j) ==
  /\ At(j, "switched") /\ ~OwnsPid(j) /\ Goto(j, "stopped")
  /\ binBackup' = [binBackup EXCEPT ![j] = bin]
  /\ Down /\ guard' = "off" /\ lost' = Dropped
  /\ UNCHANGED <<fixed, bin, front, frontBackup, result, pending, auto>>

ReplaceBinary(j) ==
  /\ At(j, "stopped") /\ proc = "down" /\ Goto(j, "replaced")
  /\ bin' = "new"
  /\ UNCHANGED <<fixed, front, binBackup, frontBackup, result, guard, pending, process, memory, auto, lost>>

\* The port is taken again, or the program cannot be replaced or started: bring_old_back.
StandaloneFails(j) ==
  /\ At(j, "stopped") \/ (At(j, "replaced") /\ proc # "down")
  /\ Goto(j, "undoBin")
  /\ UNCHANGED <<fixed, disk, result, guard, pending, process, memory, auto, lost>>

\* Under a guardian start.sh does it, which does nothing with half a handoff.
StartNew(j) ==
  /\ At(j, "replaced") /\ proc = "down" /\ (guarded => handoff = None) /\ Goto(j, "checking")
  /\ IF guarded /\ torn
     THEN UNCHANGED <<process, guard>>
     ELSE Start /\ guard' = IF guarded THEN "plain" ELSE "off"
  /\ UNCHANGED <<fixed, disk, result, pending, memory, auto, lost>>

Serves(v) == proc = "serving" /\ ver = v

\* health_version, then finish_job success.
CheckPasses(j) ==
  /\ At(j, "checking") /\ Serves("new") /\ Goto(j, "ended")
  /\ result' = [result EXCEPT ![j] = "success"]
  /\ UNCHANGED <<fixed, disk, guard, pending, process, memory, auto, lost>>

\* rollback_failed_update stops what was started.
CheckFails(j) ==
  /\ At(j, "checking") /\ ~Serves("new") /\ Goto(j, "undoBin")
  /\ Down /\ guard' = "off" /\ lost' = Dropped
  /\ UNCHANGED <<fixed, disk, result, pending, auto>>

\* Moving a backup back: the placed files are removed, then what was moved aside, if it is
\* still there, returns.
PutBack(j) ==
  /\ front' = IF frontBackup[j] = "none" THEN "gone" ELSE frontBackup[j]
  /\ frontBackup' = [frontBackup EXCEPT ![j] = "none"]

UndoBinary(j) ==
  /\ At(j, "undoBin") /\ Goto(j, "undoFront")
  /\ bin' = binBackup[j]
  /\ UNCHANGED <<fixed, front, binBackup, frontBackup, result, guard, pending, process, memory, auto, lost>>

\* Mutant: only the program goes back.
UndoFrontendSkipped(j) ==
  /\ At(j, "undoFront") /\ Goto(j, "undone")
  /\ UNCHANGED <<fixed, disk, result, guard, pending, process, memory, auto, lost>>

UndoFrontend(j) ==
  /\ At(j, "undoFront") /\ Goto(j, "undone")
  /\ PutBack(j)
  /\ UNCHANGED <<fixed, bin, binBackup, result, guard, pending, process, memory, auto, lost>>

\* The previous version is started when nothing listens; a guardian starts it itself.
Revive(j) ==
  /\ At(j, "undone") /\ Goto(j, "revived")
  /\ IF proc = "down" /\ ~guarded THEN Start ELSE UNCHANGED process
  /\ UNCHANGED <<fixed, disk, result, guard, pending, memory, auto, lost>>

WriteFailed(j) ==
  /\ At(j, "revived") /\ Goto(j, "ended")
  /\ result' = [result EXCEPT ![j] = "failed"]
  /\ UNCHANGED <<fixed, disk, guard, pending, process, memory, auto, lost>>

--------------------------------------------------------------------------------
\* start.sh under the guardian.

here == <<guarded, healthy, file, script, keys, hist>>

\* One turn of the loop: it is counted before the program is started as a child; while the
\* port stays taken nothing is started, and the update is rolled back.
Attempt(n) ==
  /\ attempts' = n
  /\ \/ Start /\ guard' = "check"
     \/ proc' = "down" /\ ver' = ver /\ guard' = "undoBin"

\* The guardian runs start.sh whenever nothing runs. Without a handoff it becomes the
\* program, with one it tries the new version, and at half a handoff it breaks off.
GuardStart ==
  /\ guarded /\ guard = "off" /\ proc = "down"
  /\ ~torn
  /\ trial' = handoff
  /\ IF handoff = None THEN Start /\ guard' = "plain" /\ UNCHANGED attempts
     ELSE IF attempts < MaxAttempts THEN Attempt(attempts + 1)
     ELSE guard' = "undoBin" /\ UNCHANGED <<process, attempts>>
  /\ UNCHANGED <<here, disk, result, handoff, torn, memory>>

\* handoff_health_ok and finish_handoff success.
GuardPasses ==
  /\ guard = "check" /\ Serves("new")
  /\ result' = [result EXCEPT ![trial] = "success"]
  /\ guard' = "marked"
  /\ UNCHANGED <<here, disk, pending, process, memory>>

\* The child exited or does not answer in time: stop it, then the next attempt or the rollback.
GuardFails ==
  /\ guard = "check" /\ ~Serves("new")
  /\ Forget /\ lost' = Orphaned
  /\ IF attempts < MaxAttempts
     THEN Attempt(attempts + 1)
     ELSE proc' = "down" /\ guard' = "undoBin" /\ UNCHANGED <<ver, attempts>>
  /\ UNCHANGED <<guarded, healthy, disk, file, result, script, handoff, torn, trial, keys, auto, faults,
                 unrestored>>

Cleared == handoff' = None /\ attempts' = 0 /\ torn' = FALSE /\ UNCHANGED trial
Exec == IF proc = "down" THEN "off" ELSE "plain"

\* rm -rf PENDING_DIR, the last step of handoff_mark_success; then start.sh waits for its child.
GuardForgets ==
  /\ guard = "marked"
  /\ Cleared /\ guard' = Exec
  /\ UNCHANGED <<here, disk, result, process, memory>>

\* Mutant: the failure is not recorded.
GuardWritesNothing ==
  /\ guard = "undone" /\ guard' = "written"
  /\ UNCHANGED <<here, disk, result, pending, process, memory>>

\* Mutant: the backup is not found.
GuardUndoBinarySkipped ==
  /\ guard = "undoBin"
  /\ guard' = "undoFront"
  /\ UNCHANGED <<here, disk, result, pending, process, memory>>

\* handoff_rollback, step by step.
GuardUndoBinary ==
  /\ guard = "undoBin"
  /\ bin' = binBackup[trial]
  /\ guard' = "undoFront"
  /\ UNCHANGED <<here, front, binBackup, frontBackup, result, pending, process, memory>>

GuardUndoFrontend ==
  /\ guard = "undoFront"
  /\ PutBack(trial)
  /\ guard' = "undone"
  /\ UNCHANGED <<here, bin, binBackup, result, pending, process, memory>>

GuardWritesFailed ==
  /\ guard = "undone"
  /\ result' = [result EXCEPT ![trial] = "failed"]
  /\ guard' = "written"
  /\ UNCHANGED <<here, disk, pending, process, memory>>

\* The previous version takes its place; after a port that stayed taken, when the guardian
\* runs start.sh again.
GuardExec ==
  /\ guard = "written"
  /\ Cleared
  /\ \/ Start /\ guard' = "plain"
     \/ guard' = "off" /\ UNCHANGED process
  /\ UNCHANGED <<here, disk, result, memory>>

--------------------------------------------------------------------------------
\* Faults.

\* The service process is killed. start.sh notices when it is its parent.
ProcessDies ==
  /\ Fault
  /\ proc # "down"
  /\ Down
  /\ lost' = Orphaned
  /\ guard' = IF guard = "plain" THEN "off" ELSE guard
  /\ UNCHANGED <<guarded, healthy, disk, file, result, script, pending, keys, auto, unrestored>>

\* A script is killed where it stands.
ScriptKilled(j) ==
  /\ Fault
  /\ Alive(j) /\ Goto(j, "ended")
  /\ lost' = lost \cup {j}
  /\ UNCHANGED <<guarded, healthy, disk, file, result, guard, pending, process, memory, keys, auto,
                 unrestored>>

\* The machine restarts.
MachineRestarts ==
  /\ Fault
  /\ Down
  /\ guard' = "off"
  /\ script' = [j \in Jobs |-> IF Alive(j) THEN "ended" ELSE script[j]]
  /\ lost' = Orphaned
  /\ UNCHANGED <<guarded, healthy, disk, file, result, pending, keys, auto, unrestored>>

\* A rollback ignores what it cannot put back: the program stays as it is or is written
\* halfway, the frontend stays away.
ProgramStays == bin' \in {bin, "broken"} /\ unrestored' = TRUE /\ UNCHANGED front
FrontendStays == front' = "gone" /\ UNCHANGED <<bin, unrestored>>

UndoFails(j) ==
  /\ Fault
  /\ \/ At(j, "undoBin") /\ Goto(j, "undoFront") /\ ProgramStays
     \/ At(j, "undoFront") /\ Goto(j, "undone") /\ FrontendStays
  /\ UNCHANGED <<guarded, healthy, binBackup, frontBackup, file, result, guard, pending, process, memory,
                 keys, auto, lost>>

GuardUndoFails ==
  /\ Fault
  /\ \/ guard = "undoBin" /\ guard' = "undoFront" /\ ProgramStays
     \/ guard = "undoFront" /\ guard' = "undone" /\ FrontendStays
  /\ UNCHANGED <<guarded, healthy, binBackup, frontBackup, file, result, script, pending, process, memory,
                 keys, auto, lost>>

\* Without a guardian the operator starts the service after a fault.
OperatorStarts ==
  /\ ~guarded /\ proc = "down"
  /\ \A j \in Jobs : ~Alive(j)
  /\ Start
  /\ UNCHANGED <<guarded, healthy, disk, file, result, shell, memory, keys, hist>>

--------------------------------------------------------------------------------

Service(j) == PrepareFails(j) \/ Spawn(j) \/ FinishMemory(j) \/ FinishFile(j)
Script(j) ==
  \/ SwitchFrontend(j) \/ StartFails(j) \/ SwapBinary(j) \/ SwitchedFails(j) \/ SwappedFails(j)
  \/ WriteHandoff(j) \/ StopApp(j) \/ StopOld(j) \/ ReplaceBinary(j) \/ StandaloneFails(j) \/ StartNew(j)
  \/ CheckPasses(j) \/ CheckFails(j) \/ UndoBinary(j) \/ UndoFrontend(j) \/ Revive(j) \/ WriteFailed(j)
Guard ==
  \/ GuardStart \/ GuardPasses \/ GuardFails \/ GuardForgets
  \/ GuardUndoBinary \/ GuardUndoFrontend \/ GuardWritesFailed \/ GuardExec
Watcher == WatchSettle \/ WatchPasses \/ WatchSaves \/ \E j \in Jobs : WatchLaunch(j)
Waiter(j) == WaiterSees(j) \/ WaiterExpires(j)
Faults ==
  ProcessDies \/ MachineRestarts \/ GuardUndoFails \/ \E j \in Jobs : ScriptKilled(j) \/ UndoFails(j)

Next ==
  \/ \E j \in Jobs : Apply(j) \/ Service(j) \/ Script(j) \/ Poll(j) \/ Heal(j) \/ Waiter(j)
  \/ Listen \/ Guard \/ Watcher \/ Faults \/ OperatorStarts

\* Goroutines, scripts and start.sh run; the guardian restarts what it owns. Nobody has to
\* look at a job, and nothing has to fail.
Spec ==
  /\ Init /\ [][Next]_vars
  /\ WF_vars(Listen) /\ WF_vars(Guard) /\ WF_vars(WatchSaves)
  /\ \A j \in Jobs : WF_vars(Service(j)) /\ WF_vars(Script(j)) /\ WF_vars(Waiter(j))

--------------------------------------------------------------------------------
\* What should hold.

\* Left alone, an update ends whole, also when half a handoff was left behind: when nothing is
\* under way, program and frontend are of one version, the new one exactly if a job was
\* reported done, and it is what runs.
Quiet ==
  /\ handoff = None /\ guard \in {"off", "plain"}
  /\ \A j \in Jobs : work[j] = "none" /\ ~Alive(j)

WholeOutcome ==
  faults = 0 /\ Quiet
    => /\ bin = front
       /\ bin = "new" <=> \E j \in Jobs : Reported(j) = "success"
       /\ proc # "down" => ver = bin

\* A version whose automatic installation failed is not installed automatically again,
\* as long as no process was killed and no key lost.
AutoFailsOnce == faults = 0 => Cardinality({j \in auto : Reported(j) = "failed"}) <= 1

\* A job ends, and stops keeping the next one out, unless its goroutine or its script was
\* killed or its handoff taken away: after a rollback that was broken off, the old version may
\* serve, and be updated, while start.sh still waits for the new one.
JobsEnd ==
  \A j \in Jobs :
    file[j] # "none" ~> lost # {} \/ (Reported(j) \in Final /\ (runningID = j => Settleable(j)))

\* Under a guardian the site comes back from every update and every fault, whatever the new
\* version is worth, unless a script was killed between its steps, half a handoff lies in the
\* way of start.sh, or the old program could not be copied back.
SiteComesBack ==
  guarded /\ proc # "serving" ~> proc = "serving" \/ lost # {} \/ torn \/ unrestored

================================================================================
