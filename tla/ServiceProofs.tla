----------------------------- MODULE ServiceProofs -----------------------------
(***************************************************************************)
(* Theorems about the service process: its replacement by an update        *)
(* (OnlineUpdate), for any number of jobs, and its pool of database        *)
(* connections (DBPool), for any number of requests, pools and             *)
(* connections.                                                            *)
(***************************************************************************)
EXTENDS OnlineUpdate, DBPool, FiniteSetTheorems, FunctionTheorems, TLAPS

--------------------------------------------------------------------------------
(* The online update: the inductive invariant *)

\* What is read back has been written: a rollback always finds the old program.
Backups ==
  /\ \A j \in Jobs : script[j] \in {"swapped", "armed", "stopped", "replaced", "checking", "undoBin"}
                       => binBackup[j] # "none"
  /\ handoff # None => binBackup[handoff] # "none"
  /\ guard \notin {"off", "plain"} => trial # None /\ binBackup[trial] # "none"

\* The states of a script that may still change the program, the frontend or the process.
Changing == {"start", "switched", "swapped", "armed", "stopped", "replaced", "checking",
             "undoBin", "undoFront", "undone"}

\* A job that may: its goroutine prepares, its script changes things, or start.sh tries
\* its version.
InWork(j) == work[j] = "prepare" \/ script[j] \in Changing \/ handoff = j

\* There is never more than one.
OneAtWork == \A i, j \in Jobs : InWork(i) /\ InWork(j) => i = j

\* The process that launched a job still runs, and its reservation still stands.
Launcher(j) == proc = "serving" /\ ver = "old" /\ runningID = j /\ mem[j] # "none"

\* start.sh has become the program, or there is no guardian.
Home == guard = IF guarded THEN "plain" ELSE "off"

\* Between updates the service is whole.
AtRest ==
  (\A j \in Jobs : ~InWork(j))
    => /\ bin = front
       /\ bin = "new" <=> \E j \in Jobs : result[j] = "success"
       /\ \/ proc # "down" /\ ver = bin /\ Home
          \/ proc = "down" /\ guarded /\ guard = "off"

\* The new version of a standalone update answers.
Answers(j) == script[j] = "checking" /\ proc = "serving"

\* What a job's files and goroutines say of how far it is.
Record(j) ==
  /\ script[j] = "none"
       => /\ result[j] = "none"
          /\ \/ file[j] \in {"none", "failed"} /\ work[j] = "none"
             \/ file[j] = "running" /\ work[j] = "prepare"
  /\ script[j] # "none" => file[j] # "none" /\ work[j] # "prepare"
  /\ Alive(j) => result[j] = "none"
  /\ script[j] = "ended" /\ handoff # j => result[j] # "none"
  /\ handoff = j => script[j] \in {"armed", "ended"}
  /\ script[j] = "armed" => handoff = j
  /\ j \in waiting => script[j] # "none" /\ proc = "serving" /\ ver = "new"
  /\ work[j] # "none" => proc = "serving"
  /\ file[j] = "success" /\ result[j] = "none" => script[j] = "revived" \/ Answers(j)
  /\ script[j] # "none" /\ file[j] = "failed" => result[j] = "failed"

\* start.sh tries the job whose handoff is pending.
Sourced == guard \notin {"off", "plain"} => trial = handoff

Records == Sourced /\ \A j \in Jobs : Record(j)

Trial == bin = "new" /\ front = "new"
Saved(j) == binBackup[j] = "old" /\ frontBackup[j] = "old"

\* What each step of a job's script leaves behind.
Stage(j) ==
  /\ work[j] = "prepare" \/ script[j] = "start" => bin = "old" /\ front = "old" /\ Launcher(j) /\ Home
  /\ script[j] = "switched" => bin = "old" /\ front = "new" /\ frontBackup[j] = "old" /\ Launcher(j) /\ Home
  /\ script[j] \in {"swapped", "armed"} => guarded /\ Trial /\ Saved(j) /\ Launcher(j) /\ Home
  /\ script[j] = "stopped" => ~guarded /\ bin = "old" /\ front = "new" /\ Saved(j) /\ proc = "down" /\ Home
  /\ script[j] = "replaced" => ~guarded /\ Trial /\ Saved(j) /\ proc = "down" /\ Home
  /\ script[j] = "checking" => ~guarded /\ Trial /\ Saved(j) /\ proc # "down" /\ ver = "new" /\ Home
  /\ script[j] \in {"undoBin", "undoFront", "undone"} => Home /\ (Launcher(j) \/ (~guarded /\ proc = "down"))
  /\ script[j] = "undoBin" => front = "new" /\ Saved(j)
  /\ script[j] = "undoFront" => bin = "old" /\ front = "new" /\ frontBackup[j] = "old"
  /\ script[j] = "undone" => bin = "old" /\ front = "old"

\* What each step of start.sh leaves behind, once the script has left the job to it.
OnTrial(j) ==
  handoff = j /\ script[j] = "ended"
    => /\ guarded /\ guard # "plain"
       /\ guard \in {"off", "check", "marked", "undoBin"} => Trial /\ Saved(j)
       /\ guard = "undoFront" => bin = "old" /\ front = "new" /\ frontBackup[j] = "old"
       /\ guard \in {"undone", "written"} => bin = "old" /\ front = "old"
       /\ guard = "check" => proc # "down" /\ ver = "new"
       /\ guard = "marked" => proc = "serving" /\ ver = "new"
       /\ guard \in {"off", "undoBin", "undoFront", "undone", "written"} => proc = "down"
       /\ result[j] = IF guard = "marked" THEN "success" ELSE IF guard = "written" THEN "failed" ELSE "none"

Stages == \A j \in Jobs : InWork(j) => Stage(j) /\ OnTrial(j) /\ \A i \in Jobs \ {j} : result[i] # "success"

Done(j) == result[j] = "success" \/ Answers(j)

\* Of the automatic jobs at most one has not succeeded, and it is known: the watcher holds
\* it, its key is saved, or the failure is remembered.
AutoKeys ==
  /\ watch = "launched" => watchJob \in auto /\ handoff = None /\ \A j \in Jobs : script[j] \notin Changing
  /\ watch # "launched" => watchJob = None
  /\ watch # "idle" => proc = "serving" /\ (pendingKey = None \/ (watch = "settled" /\ ver = "new"))
  /\ pendingKey # None => pendingKey \in auto
  /\ \A j \in auto : file[j] # "none" /\ (Done(j) \/ j \in {watchJob, pendingKey} \/ failedKey)
  /\ \A i, j \in auto : ~Done(i) /\ ~Done(j) => i = j

\* Types and backups survive every fault; the rest holds as long as there was none.
Types == TypeOK /\ Backups
Undisturbed == OneAtWork /\ Records /\ AtRest /\ Stages /\ AutoKeys
UpdateInv == Types /\ (faults = 0 => Undisturbed)

--------------------------------------------------------------------------------
(* The online update: its steps *)

LEMMA NoneNotJob == None \notin Jobs
BY DEF None, Jobs

\* settleOnlineUpdateAutoResult remembers a failure, and never forgets one.
LEMMA FailureKept == ASSUME Types, WatchSettle
                     PROVE  /\ failedKey' \in BOOLEAN
                            /\ failedKey => failedKey'
                            /\ pendingKey # None /\ Reported(pendingKey) = "failed" => failedKey'
<1>1. failedKey' = (failedKey \/ Reported(pendingKey) = "failed") \/ failedKey' = failedKey
  BY Zenon DEF WatchSettle, keys
<1>2. failedKey' \in BOOLEAN
  <2>1. (failedKey \/ Reported(pendingKey) = "failed") \in BOOLEAN
    BY Zenon
  <2>2. failedKey \in BOOLEAN
    BY DEF Types, TypeOK
  <2> QED
    BY <1>1, <2>1, <2>2, Zenon
<1>3. ASSUME failedKey PROVE failedKey'
  BY <1>1, <1>3, Zenon
<1>4. ASSUME pendingKey # None, Reported(pendingKey) = "failed" PROVE failedKey'
  <2>1. failedKey' = (failedKey \/ Reported(pendingKey) = "failed")
    BY <1>4 DEF WatchSettle, Final
  <2> QED
    BY <1>4, <2>1, Zenon
<1> QED
  BY <1>2, <1>3, <1>4

\* A step without a fault leaves a history without one.
LEMMA NoFault == ASSUME Types, faults' = 0, NEW j \in Jobs
                 PROVE  ~ProcessDies /\ ~MachineRestarts /\ ~GuardUndoFails /\ ~ScriptKilled(j) /\ ~UndoFails(j)
BY DEF Types, TypeOK, ProcessDies, MachineRestarts, GuardUndoFails, ScriptKilled, UndoFails, Fault

\* Without a fault, start.sh is past "plain" only for a job its script has left to it.
LEMMA HandedOver ==
  UpdateInv /\ faults = 0 /\ guard \notin {"off", "plain"} => handoff \in Jobs /\ script[handoff] = "ended"
<1> SUFFICES ASSUME UpdateInv, faults = 0, guard \notin {"off", "plain"}
             PROVE  handoff \in Jobs /\ script[handoff] = "ended"
  OBVIOUS
<1>1. handoff \in Jobs
  BY DEF UpdateInv, Types, TypeOK, Backups, Undisturbed, Records, Sourced
<1>2. script[handoff] \in {"armed", "ended"}
  BY <1>1 DEF UpdateInv, Undisturbed, Records, Record
<1>3. script[handoff] # "armed"
  BY <1>1 DEF UpdateInv, Undisturbed, Stages, Stage, InWork, Home
<1> QED
  BY <1>1, <1>2, <1>3

\* The invariant holds at the start.
LEMMA UpdateInitInv == Init => UpdateInv
<1> SUFFICES ASSUME Init PROVE UpdateInv
  OBVIOUS
<1> USE NoneNotJob DEF Init
<1>1. TypeOK
  <2>1. /\ guarded \in BOOLEAN /\ healthy \in BOOLEAN /\ failedKey \in BOOLEAN
        /\ torn \in BOOLEAN /\ unrestored \in BOOLEAN
    BY Zenon
  <2>2. attempts \in 0..MaxAttempts /\ faults \in 0..MaxFaults
    BY UpdateAssumption DEF MaxAttempts
  <2> QED
    BY <2>1, <2>2 DEF TypeOK, Programs
<1>2. Backups
  BY DEF Backups
<1>3. \A j \in Jobs : ~InWork(j)
  BY DEF InWork, Changing
<1>4. OneAtWork /\ Stages
  BY <1>3 DEF OneAtWork, Stages
<1>5. Records /\ AtRest /\ AutoKeys
  BY DEF Records, Record, Answers, Sourced, AtRest, Home, AutoKeys, Alive
<1> QED
  BY <1>1, <1>2, <1>4, <1>5 DEF UpdateInv, Types, Undisturbed

\* Every step keeps the types, whatever fault it is.
LEMMA TypeStep == Types /\ [Next]_vars => TypeOK'
<1> SUFFICES ASSUME Types, [Next]_vars PROVE TypeOK'
  OBVIOUS
<1> USE NoneNotJob, UpdateAssumption
        DEF Types, TypeOK, Programs, Backups, MaxAttempts, Open, Final, Alive, disk, memory, keys, hist,
            pending, shell, process, fixed, here
<1>1. ASSUME NEW j \in Jobs, Apply(j) PROVE TypeOK'
  BY <1>1 DEF Apply, Launch, CanReserve, Settleable, SettledFirst
<1>2. ASSUME NEW j \in Jobs, PrepareFails(j) PROVE TypeOK'
  BY <1>2 DEF PrepareFails, Freed
<1>3. ASSUME NEW j \in Jobs, Spawn(j) PROVE TypeOK'
  BY <1>3 DEF Spawn
<1>4. ASSUME NEW j \in Jobs, FinishMemory(j) PROVE TypeOK'
  BY <1>4 DEF FinishMemory
<1>5. ASSUME NEW j \in Jobs, FinishFile(j) PROVE TypeOK'
  BY <1>5 DEF FinishFile
<1>6. ASSUME NEW j \in Jobs, SwitchFrontend(j) PROVE TypeOK'
  BY <1>6 DEF SwitchFrontend, At, Goto
<1>7. ASSUME NEW j \in Jobs, StartFails(j) PROVE TypeOK'
  BY <1>7 DEF StartFails, At, Goto
<1>8. ASSUME NEW j \in Jobs, SwapBinary(j) PROVE TypeOK'
  BY <1>8 DEF SwapBinary, At, Goto, OwnsPid
<1>9. ASSUME NEW j \in Jobs, SwitchedFails(j) PROVE TypeOK'
  BY <1>9 DEF SwitchedFails, At, Goto
<1>10. ASSUME NEW j \in Jobs, SwappedFails(j) PROVE TypeOK'
  BY <1>10 DEF SwappedFails, TakenAway, At, Goto
<1>11. ASSUME NEW j \in Jobs, WriteHandoff(j) PROVE TypeOK'
  <2>1. torn' \in BOOLEAN
    BY <1>11, Zenon DEF WriteHandoff
  <2> QED
    BY <1>11, <2>1 DEF WriteHandoff, TakenAway, At, Goto
<1>12. ASSUME NEW j \in Jobs, StopApp(j) PROVE TypeOK'
  BY <1>12 DEF StopApp, At, Goto, OwnsPid, Down, Forget, NoMemory, Dropped
<1>13. ASSUME NEW j \in Jobs, StopOld(j) PROVE TypeOK'
  BY <1>13 DEF StopOld, At, Goto, OwnsPid, Down, Forget, NoMemory, Dropped
<1>14. ASSUME NEW j \in Jobs, ReplaceBinary(j) PROVE TypeOK'
  BY <1>14 DEF ReplaceBinary, At, Goto
<1>15. ASSUME NEW j \in Jobs, StandaloneFails(j) PROVE TypeOK'
  BY <1>15 DEF StandaloneFails, At, Goto
<1>16. ASSUME NEW j \in Jobs, StartNew(j) PROVE TypeOK'
  BY <1>16 DEF StartNew, At, Goto, Start
<1>17. ASSUME NEW j \in Jobs, CheckPasses(j) PROVE TypeOK'
  BY <1>17 DEF CheckPasses, At, Goto, Serves
<1>18. ASSUME NEW j \in Jobs, CheckFails(j) PROVE TypeOK'
  BY <1>18 DEF CheckFails, At, Goto, Serves, Down, Forget, NoMemory, Dropped
<1>19. ASSUME NEW j \in Jobs, UndoBinary(j) PROVE TypeOK'
  BY <1>19 DEF UndoBinary, At, Goto
<1>20. ASSUME NEW j \in Jobs, UndoFrontend(j) PROVE TypeOK'
  BY <1>20 DEF UndoFrontend, At, Goto, PutBack
<1>21. ASSUME NEW j \in Jobs, Revive(j) PROVE TypeOK'
  BY <1>21 DEF Revive, At, Goto, Start
<1>22. ASSUME NEW j \in Jobs, WriteFailed(j) PROVE TypeOK'
  BY <1>22 DEF WriteFailed, At, Goto
<1>23. ASSUME NEW j \in Jobs, Poll(j) PROVE TypeOK'
  BY <1>23 DEF Poll, Settleable, Freed, Reconciled, Reported
<1>24. ASSUME NEW j \in Jobs, Heal(j) PROVE TypeOK'
  BY <1>24 DEF Heal, Freed, Reported
<1>25. ASSUME NEW j \in Jobs, WaiterSees(j) PROVE TypeOK'
  BY <1>25 DEF WaiterSees, Reconciled, Reported
<1>26. ASSUME NEW j \in Jobs, WaiterExpires(j) PROVE TypeOK'
  BY <1>26 DEF WaiterExpires, Reported, WindowOver
<1>27. ASSUME Listen PROVE TypeOK'
  BY <1>27 DEF Listen, Reconciled, Reported
<1>28. ASSUME GuardStart PROVE TypeOK'
  BY <1>28 DEF GuardStart, Attempt, Start
<1>29. ASSUME GuardPasses PROVE TypeOK'
  BY <1>29 DEF GuardPasses, Serves
<1>30. ASSUME GuardFails PROVE TypeOK'
  BY <1>30 DEF GuardFails, Attempt, Serves, Forget, NoMemory, Start, Dropped, Orphaned
<1>31. ASSUME GuardForgets PROVE TypeOK'
  <2>1. torn' \in BOOLEAN
    BY <1>31, Zenon DEF GuardForgets, Cleared
  <2> QED
    BY <1>31, <2>1 DEF GuardForgets, Cleared, Exec
<1>32. ASSUME GuardUndoBinary PROVE TypeOK'
  BY <1>32 DEF GuardUndoBinary
<1>33. ASSUME GuardUndoFrontend PROVE TypeOK'
  BY <1>33 DEF GuardUndoFrontend, PutBack
<1>34. ASSUME GuardWritesFailed PROVE TypeOK'
  BY <1>34 DEF GuardWritesFailed
<1>35. ASSUME GuardExec PROVE TypeOK'
  <2>1. torn' \in BOOLEAN
    BY <1>35, Zenon DEF GuardExec, Cleared
  <2> QED
    BY <1>35, <2>1 DEF GuardExec, Cleared, Start
<1>36. ASSUME WatchSettle PROVE TypeOK'
  <2>1. Reconciled({pendingKey}) \in [Jobs -> {"none"} \cup Open \cup Final]
    BY DEF Reconciled, Reported
  <2>2. file' \in [Jobs -> {"none"} \cup Open \cup Final]
    BY <1>36, <2>1 DEF WatchSettle
  <2>3. failedKey' \in BOOLEAN
    BY <1>36, FailureKept
  <2> QED
    BY <1>36, <2>2, <2>3 DEF WatchSettle
<1>37. ASSUME WatchPasses PROVE TypeOK'
  BY <1>37 DEF WatchPasses
<1>38. ASSUME WatchSaves PROVE TypeOK'
  BY <1>38 DEF WatchSaves, Fault
<1>39. ASSUME NEW j \in Jobs, WatchLaunch(j) PROVE TypeOK'
  BY <1>39 DEF WatchLaunch, Launch, CanReserve, Settleable, SettledFirst
<1>40. ASSUME ProcessDies PROVE TypeOK'
  BY <1>40 DEF ProcessDies, Fault, Down, Forget, NoMemory, Dropped, Orphaned
<1>41. ASSUME MachineRestarts PROVE TypeOK'
  BY <1>41 DEF MachineRestarts, Fault, Down, Forget, NoMemory, Dropped, Orphaned
<1>42. ASSUME NEW j \in Jobs, ScriptKilled(j) PROVE TypeOK'
  BY <1>42 DEF ScriptKilled, Fault, Goto
<1>421. ASSUME NEW j \in Jobs, UndoFails(j) PROVE TypeOK'
  <2>1. unrestored' \in BOOLEAN
    BY <1>421, Zenon DEF UndoFails, ProgramStays, FrontendStays, Types, TypeOK
  <2> QED
    BY <1>421, <2>1 DEF UndoFails, ProgramStays, FrontendStays, Fault, At, Goto
<1>422. ASSUME GuardUndoFails PROVE TypeOK'
  <2>1. unrestored' \in BOOLEAN
    BY <1>422, Zenon DEF GuardUndoFails, ProgramStays, FrontendStays, Types, TypeOK
  <2> QED
    BY <1>422, <2>1 DEF GuardUndoFails, ProgramStays, FrontendStays, Fault
<1>43. ASSUME OperatorStarts PROVE TypeOK'
  BY <1>43 DEF OperatorStarts, Start
<1>44. CASE UNCHANGED vars
  BY <1>44 DEF vars
<1> HIDE DEF Types, TypeOK, Programs, Backups, MaxAttempts, Open, Final, Alive, disk, memory, keys, hist, pending,
     shell, process, fixed, here
<1>45. ASSUME NEW j \in Jobs, Service(j) PROVE TypeOK'
  BY <1>45, <1>2, <1>3, <1>4, <1>5 DEF Service
<1>46. ASSUME NEW j \in Jobs, Script(j) PROVE TypeOK'
  BY <1>46, <1>6, <1>7, <1>8, <1>9, <1>10, <1>11, <1>12, <1>13, <1>14, <1>15, <1>16, <1>17, <1>18,
     <1>19, <1>20, <1>21, <1>22 DEF Script
<1>47. CASE Guard
  BY <1>47, <1>28, <1>29, <1>30, <1>31, <1>32, <1>33, <1>34, <1>35 DEF Guard
<1>48. CASE Watcher
  BY <1>48, <1>36, <1>37, <1>38, <1>39 DEF Watcher
<1>49. CASE Faults
  BY <1>49, <1>40, <1>41, <1>42, <1>421, <1>422 DEF Faults
<1> QED
  BY <1>1, <1>23, <1>24, <1>25, <1>26, <1>27, <1>43, <1>44, <1>45, <1>46, <1>47, <1>48, <1>49 DEF Next,
     Waiter

\* Every step keeps the backups a rollback needs.
LEMMA BackupStep == Types /\ [Next]_vars => Backups'
<1> SUFFICES ASSUME Types, [Next]_vars PROVE Backups'
  OBVIOUS
<1> USE NoneNotJob
        DEF Types, TypeOK, Programs, Backups, Alive, disk, memory, keys, hist, pending, shell, process, fixed,
            here
<1>1. ASSUME NEW j \in Jobs, Apply(j) PROVE Backups'
  BY <1>1 DEF Apply, Launch, CanReserve, Settleable, SettledFirst
<1>2. ASSUME NEW j \in Jobs, PrepareFails(j) PROVE Backups'
  BY <1>2 DEF PrepareFails, Freed
<1>3. ASSUME NEW j \in Jobs, Spawn(j) PROVE Backups'
  BY <1>3 DEF Spawn
<1>4. ASSUME NEW j \in Jobs, FinishMemory(j) PROVE Backups'
  BY <1>4 DEF FinishMemory
<1>5. ASSUME NEW j \in Jobs, FinishFile(j) PROVE Backups'
  BY <1>5 DEF FinishFile
<1>6. ASSUME NEW j \in Jobs, SwitchFrontend(j) PROVE Backups'
  BY <1>6 DEF SwitchFrontend, At, Goto
<1>7. ASSUME NEW j \in Jobs, StartFails(j) PROVE Backups'
  BY <1>7 DEF StartFails, At, Goto
<1>8. ASSUME NEW j \in Jobs, SwapBinary(j) PROVE Backups'
  BY <1>8 DEF SwapBinary, At, Goto, OwnsPid
<1>9. ASSUME NEW j \in Jobs, SwitchedFails(j) PROVE Backups'
  BY <1>9 DEF SwitchedFails, At, Goto
<1>10. ASSUME NEW j \in Jobs, SwappedFails(j) PROVE Backups'
  BY <1>10 DEF SwappedFails, TakenAway, At, Goto
<1>11. ASSUME NEW j \in Jobs, WriteHandoff(j) PROVE Backups'
  BY <1>11 DEF WriteHandoff, TakenAway, At, Goto
<1>12. ASSUME NEW j \in Jobs, StopApp(j) PROVE Backups'
  BY <1>12 DEF StopApp, At, Goto, OwnsPid, Down, Forget, NoMemory, Dropped
<1>13. ASSUME NEW j \in Jobs, StopOld(j) PROVE Backups'
  BY <1>13 DEF StopOld, At, Goto, OwnsPid, Down, Forget, NoMemory, Dropped
<1>14. ASSUME NEW j \in Jobs, ReplaceBinary(j) PROVE Backups'
  BY <1>14 DEF ReplaceBinary, At, Goto
<1>15. ASSUME NEW j \in Jobs, StandaloneFails(j) PROVE Backups'
  BY <1>15 DEF StandaloneFails, At, Goto
<1>16. ASSUME NEW j \in Jobs, StartNew(j) PROVE Backups'
  BY <1>16 DEF StartNew, At, Goto, Start
<1>17. ASSUME NEW j \in Jobs, CheckPasses(j) PROVE Backups'
  BY <1>17 DEF CheckPasses, At, Goto, Serves
<1>18. ASSUME NEW j \in Jobs, CheckFails(j) PROVE Backups'
  BY <1>18 DEF CheckFails, At, Goto, Serves, Down, Forget, NoMemory, Dropped
<1>19. ASSUME NEW j \in Jobs, UndoBinary(j) PROVE Backups'
  BY <1>19 DEF UndoBinary, At, Goto
<1>20. ASSUME NEW j \in Jobs, UndoFrontend(j) PROVE Backups'
  BY <1>20 DEF UndoFrontend, At, Goto, PutBack
<1>21. ASSUME NEW j \in Jobs, Revive(j) PROVE Backups'
  BY <1>21 DEF Revive, At, Goto, Start
<1>22. ASSUME NEW j \in Jobs, WriteFailed(j) PROVE Backups'
  BY <1>22 DEF WriteFailed, At, Goto
<1>23. ASSUME NEW j \in Jobs, Poll(j) PROVE Backups'
  BY <1>23 DEF Poll, Settleable, Freed, Reconciled, Reported
<1>24. ASSUME NEW j \in Jobs, Heal(j) PROVE Backups'
  BY <1>24 DEF Heal, Freed, Reported
<1>25. ASSUME NEW j \in Jobs, WaiterSees(j) PROVE Backups'
  BY <1>25 DEF WaiterSees, Reconciled, Reported
<1>26. ASSUME NEW j \in Jobs, WaiterExpires(j) PROVE Backups'
  BY <1>26 DEF WaiterExpires, Reported, WindowOver
<1>27. ASSUME Listen PROVE Backups'
  BY <1>27 DEF Listen, Reconciled, Reported
<1>28. ASSUME GuardStart PROVE Backups'
  BY <1>28 DEF GuardStart, Attempt, Start
<1>29. ASSUME GuardPasses PROVE Backups'
  BY <1>29 DEF GuardPasses, Serves
<1>30. ASSUME GuardFails PROVE Backups'
  BY <1>30 DEF GuardFails, Attempt, Serves, Forget, NoMemory, Start, Dropped, Orphaned
<1>31. ASSUME GuardForgets PROVE Backups'
  BY <1>31 DEF GuardForgets, Cleared, Exec
<1>32. ASSUME GuardUndoBinary PROVE Backups'
  BY <1>32 DEF GuardUndoBinary
<1>33. ASSUME GuardUndoFrontend PROVE Backups'
  BY <1>33 DEF GuardUndoFrontend, PutBack
<1>34. ASSUME GuardWritesFailed PROVE Backups'
  BY <1>34 DEF GuardWritesFailed
<1>35. ASSUME GuardExec PROVE Backups'
  BY <1>35 DEF GuardExec, Cleared, Start
<1>36. ASSUME WatchSettle PROVE Backups'
  BY <1>36 DEF WatchSettle, WatchDue, Reconciled, Reported
<1>37. ASSUME WatchPasses PROVE Backups'
  BY <1>37 DEF WatchPasses
<1>38. ASSUME WatchSaves PROVE Backups'
  BY <1>38 DEF WatchSaves, Fault
<1>39. ASSUME NEW j \in Jobs, WatchLaunch(j) PROVE Backups'
  BY <1>39 DEF WatchLaunch, Launch, CanReserve, Settleable, SettledFirst
<1>40. ASSUME ProcessDies PROVE Backups'
  BY <1>40 DEF ProcessDies, Fault, Down, Forget, NoMemory, Dropped, Orphaned
<1>41. ASSUME MachineRestarts PROVE Backups'
  BY <1>41 DEF MachineRestarts, Fault, Down, Forget, NoMemory, Dropped, Orphaned
<1>42. ASSUME NEW j \in Jobs, ScriptKilled(j) PROVE Backups'
  BY <1>42 DEF ScriptKilled, Fault, Goto
<1>421. ASSUME NEW j \in Jobs, UndoFails(j) PROVE Backups'
  BY <1>421 DEF UndoFails, ProgramStays, FrontendStays, Fault, At, Goto
<1>422. ASSUME GuardUndoFails PROVE Backups'
  BY <1>422 DEF GuardUndoFails, ProgramStays, FrontendStays, Fault
<1>43. ASSUME OperatorStarts PROVE Backups'
  BY <1>43 DEF OperatorStarts, Start
<1>44. CASE UNCHANGED vars
  BY <1>44 DEF vars
<1> HIDE DEF Types, TypeOK, Programs, Backups, Alive, disk, memory, keys, hist, pending, shell, process, fixed,
     here
<1>45. ASSUME NEW j \in Jobs, Service(j) PROVE Backups'
  BY <1>45, <1>2, <1>3, <1>4, <1>5 DEF Service
<1>46. ASSUME NEW j \in Jobs, Script(j) PROVE Backups'
  BY <1>46, <1>6, <1>7, <1>8, <1>9, <1>10, <1>11, <1>12, <1>13, <1>14, <1>15, <1>16, <1>17, <1>18,
     <1>19, <1>20, <1>21, <1>22 DEF Script
<1>47. CASE Guard
  BY <1>47, <1>28, <1>29, <1>30, <1>31, <1>32, <1>33, <1>34, <1>35 DEF Guard
<1>48. CASE Watcher
  BY <1>48, <1>36, <1>37, <1>38, <1>39 DEF Watcher
<1>49. CASE Faults
  BY <1>49, <1>40, <1>41, <1>42, <1>421, <1>422 DEF Faults
<1> QED
  BY <1>1, <1>23, <1>24, <1>25, <1>26, <1>27, <1>43, <1>44, <1>45, <1>46, <1>47, <1>48, <1>49 DEF Next,
     Waiter

\* A second job is not launched while one is at work: where the process is the one that
\* launched it, its slot is taken; elsewhere no process, or the new version, serves.
LEMMA OneAtWorkStep == UpdateInv /\ faults' = 0 /\ [Next]_vars => OneAtWork'
<1> SUFFICES ASSUME UpdateInv, faults' = 0, [Next]_vars PROVE OneAtWork'
  OBVIOUS
<1> USE NoneNotJob
        DEF UpdateInv, Types, TypeOK, Programs, Undisturbed, OneAtWork, Records, Record, Answers, Sourced, Stages, Stage,
            OnTrial, InWork, Changing, Launcher, Alive, disk, memory, keys, hist, pending, shell,
            process, fixed, here
<1>1. ASSUME NEW j \in Jobs, Apply(j) PROVE OneAtWork'
  BY <1>1 DEF Apply, Launch, CanReserve, Settleable, SettledFirst
<1>2. ASSUME NEW j \in Jobs, PrepareFails(j) PROVE OneAtWork'
  BY <1>2 DEF PrepareFails, Freed
<1>3. ASSUME NEW j \in Jobs, Spawn(j) PROVE OneAtWork'
  BY <1>3 DEF Spawn
<1>4. ASSUME NEW j \in Jobs, FinishMemory(j) PROVE OneAtWork'
  BY <1>4 DEF FinishMemory
<1>5. ASSUME NEW j \in Jobs, FinishFile(j) PROVE OneAtWork'
  BY <1>5 DEF FinishFile
<1>6. ASSUME NEW j \in Jobs, SwitchFrontend(j) PROVE OneAtWork'
  BY <1>6 DEF SwitchFrontend, At, Goto
<1>7. ASSUME NEW j \in Jobs, StartFails(j) PROVE OneAtWork'
  BY <1>7 DEF StartFails, At, Goto
<1>8. ASSUME NEW j \in Jobs, SwapBinary(j) PROVE OneAtWork'
  BY <1>8 DEF SwapBinary, At, Goto, OwnsPid
<1>9. ASSUME NEW j \in Jobs, SwitchedFails(j) PROVE OneAtWork'
  BY <1>9 DEF SwitchedFails, At, Goto
<1>10. ASSUME NEW j \in Jobs, SwappedFails(j) PROVE OneAtWork'
  BY <1>10 DEF SwappedFails, TakenAway, At, Goto
<1>11. ASSUME NEW j \in Jobs, WriteHandoff(j) PROVE OneAtWork'
  BY <1>11 DEF WriteHandoff, TakenAway, At, Goto
<1>12. ASSUME NEW j \in Jobs, StopApp(j) PROVE OneAtWork'
  BY <1>12 DEF StopApp, At, Goto, OwnsPid, Down, Forget, NoMemory, Dropped
<1>13. ASSUME NEW j \in Jobs, StopOld(j) PROVE OneAtWork'
  BY <1>13 DEF StopOld, At, Goto, OwnsPid, Down, Forget, NoMemory, Dropped
<1>14. ASSUME NEW j \in Jobs, ReplaceBinary(j) PROVE OneAtWork'
  BY <1>14 DEF ReplaceBinary, At, Goto
<1>15. ASSUME NEW j \in Jobs, StandaloneFails(j) PROVE OneAtWork'
  BY <1>15 DEF StandaloneFails, At, Goto
<1>16. ASSUME NEW j \in Jobs, StartNew(j) PROVE OneAtWork'
  BY <1>16 DEF StartNew, At, Goto, Start
<1>17. ASSUME NEW j \in Jobs, CheckPasses(j) PROVE OneAtWork'
  BY <1>17 DEF CheckPasses, At, Goto, Serves
<1>18. ASSUME NEW j \in Jobs, CheckFails(j) PROVE OneAtWork'
  BY <1>18 DEF CheckFails, At, Goto, Serves, Down, Forget, NoMemory, Dropped
<1>19. ASSUME NEW j \in Jobs, UndoBinary(j) PROVE OneAtWork'
  BY <1>19 DEF UndoBinary, At, Goto
<1>20. ASSUME NEW j \in Jobs, UndoFrontend(j) PROVE OneAtWork'
  BY <1>20 DEF UndoFrontend, At, Goto, PutBack
<1>21. ASSUME NEW j \in Jobs, Revive(j) PROVE OneAtWork'
  BY <1>21 DEF Revive, At, Goto, Start
<1>22. ASSUME NEW j \in Jobs, WriteFailed(j) PROVE OneAtWork'
  BY <1>22 DEF WriteFailed, At, Goto
<1>23. ASSUME NEW j \in Jobs, Poll(j) PROVE OneAtWork'
  BY <1>23 DEF Poll, Settleable, Freed, Reconciled, Reported
<1>24. ASSUME NEW j \in Jobs, Heal(j) PROVE OneAtWork'
  BY <1>24 DEF Heal, Freed, Reported
<1>25. ASSUME NEW j \in Jobs, WaiterSees(j) PROVE OneAtWork'
  BY <1>25 DEF WaiterSees, Reconciled, Reported
<1>26. ASSUME NEW j \in Jobs, WaiterExpires(j) PROVE OneAtWork'
  BY <1>26 DEF WaiterExpires, Reported, WindowOver
<1>27. ASSUME Listen PROVE OneAtWork'
  BY <1>27 DEF Listen, Reconciled, Reported
<1>28. ASSUME GuardStart PROVE OneAtWork'
  BY <1>28 DEF GuardStart, Attempt, Start
<1>29. ASSUME GuardPasses PROVE OneAtWork'
  BY <1>29 DEF GuardPasses, Serves
<1>30. ASSUME GuardFails PROVE OneAtWork'
  BY <1>30 DEF GuardFails, Attempt, Serves, Forget, NoMemory, Start, Dropped, Orphaned
<1>31. ASSUME GuardForgets PROVE OneAtWork'
  BY <1>31 DEF GuardForgets, Cleared, Exec
<1>32. ASSUME GuardUndoBinary PROVE OneAtWork'
  BY <1>32 DEF GuardUndoBinary
<1>33. ASSUME GuardUndoFrontend PROVE OneAtWork'
  BY <1>33 DEF GuardUndoFrontend, PutBack
<1>34. ASSUME GuardWritesFailed PROVE OneAtWork'
  BY <1>34 DEF GuardWritesFailed
<1>35. ASSUME GuardExec PROVE OneAtWork'
  BY <1>35 DEF GuardExec, Cleared, Start
<1>36. ASSUME WatchSettle PROVE OneAtWork'
  BY <1>36 DEF WatchSettle, WatchDue, Reconciled, Reported
<1>37. ASSUME WatchPasses PROVE OneAtWork'
  BY <1>37 DEF WatchPasses
<1>38. ASSUME WatchSaves PROVE OneAtWork'
  BY <1>38 DEF WatchSaves, Fault
<1>39. ASSUME NEW j \in Jobs, WatchLaunch(j) PROVE OneAtWork'
  BY <1>39 DEF WatchLaunch, Launch, CanReserve, Settleable, SettledFirst
<1>40. ASSUME OperatorStarts PROVE OneAtWork'
  BY <1>40 DEF OperatorStarts, Start
<1>41. CASE UNCHANGED vars
  BY <1>41 DEF vars
<1> HIDE DEF UpdateInv, Types, TypeOK, Programs, Undisturbed, OneAtWork, Records, Record, Answers, Sourced, Stages, Stage, OnTrial,
     InWork, Changing, Launcher, Alive, disk, memory, keys, hist, pending, shell, process, fixed, here
<1>42. ASSUME NEW j \in Jobs, Service(j) PROVE OneAtWork'
  BY <1>42, <1>2, <1>3, <1>4, <1>5 DEF Service
<1>43. ASSUME NEW j \in Jobs, Script(j) PROVE OneAtWork'
  BY <1>43, <1>6, <1>7, <1>8, <1>9, <1>10, <1>11, <1>12, <1>13, <1>14, <1>15, <1>16, <1>17, <1>18,
     <1>19, <1>20, <1>21, <1>22 DEF Script
<1>44. CASE Guard
  BY <1>44, <1>28, <1>29, <1>30, <1>31, <1>32, <1>33, <1>34, <1>35 DEF Guard
<1>45. CASE Watcher
  BY <1>45, <1>36, <1>37, <1>38, <1>39 DEF Watcher
<1>46. CASE Faults
  BY <1>46, NoFault, UpdateAssumption DEF Faults, UpdateInv, Jobs
<1> QED
  BY <1>1, <1>23, <1>24, <1>25, <1>26, <1>27, <1>40, <1>41, <1>42, <1>43, <1>44, <1>45, <1>46 DEF Next,
     Waiter

\* Files, results and goroutines keep in step with the scripts.
LEMMA RecordStep == UpdateInv /\ faults' = 0 /\ [Next]_vars => Records'
<1> SUFFICES ASSUME UpdateInv, faults' = 0, [Next]_vars PROVE Records'
  OBVIOUS
<1>0. faults = 0 /\ guard \notin {"off", "plain"} => handoff \in Jobs /\ script[handoff] = "ended"
  BY HandedOver
<1> USE NoneNotJob
        DEF UpdateInv, Types, TypeOK, Programs, Undisturbed, OneAtWork, Home, Records, Record, Answers, Sourced, Stages, Stage,
            OnTrial, InWork, Changing, Launcher, Alive, Open, Final, disk, memory, keys, hist,
            pending, shell, process, fixed, here
<1>1. ASSUME NEW j \in Jobs, Apply(j) PROVE Records'
  BY <1>1 DEF Apply, Launch, CanReserve, Settleable, SettledFirst
<1>2. ASSUME NEW j \in Jobs, PrepareFails(j) PROVE Records'
  BY <1>2 DEF PrepareFails, Freed
<1>3. ASSUME NEW j \in Jobs, Spawn(j) PROVE Records'
  BY <1>3 DEF Spawn
<1>4. ASSUME NEW j \in Jobs, FinishMemory(j) PROVE Records'
  BY <1>4 DEF FinishMemory
<1>5. ASSUME NEW j \in Jobs, FinishFile(j) PROVE Records'
  BY <1>5 DEF FinishFile
<1>6. ASSUME NEW j \in Jobs, SwitchFrontend(j) PROVE Records'
  BY <1>6 DEF SwitchFrontend, At, Goto
<1>7. ASSUME NEW j \in Jobs, StartFails(j) PROVE Records'
  BY <1>7 DEF StartFails, At, Goto
<1>8. ASSUME NEW j \in Jobs, SwapBinary(j) PROVE Records'
  BY <1>8 DEF SwapBinary, At, Goto, OwnsPid
<1>9. ASSUME NEW j \in Jobs, SwitchedFails(j) PROVE Records'
  BY <1>9 DEF SwitchedFails, At, Goto
<1>10. ASSUME NEW j \in Jobs, SwappedFails(j) PROVE Records'
  BY <1>10 DEF SwappedFails, TakenAway, At, Goto
<1>11. ASSUME NEW j \in Jobs, WriteHandoff(j) PROVE Records'
  BY <1>11 DEF WriteHandoff, TakenAway, At, Goto
<1>12. ASSUME NEW j \in Jobs, StopApp(j) PROVE Records'
  BY <1>12 DEF StopApp, At, Goto, OwnsPid, Down, Forget, NoMemory, Dropped
<1>13. ASSUME NEW j \in Jobs, StopOld(j) PROVE Records'
  BY <1>13 DEF StopOld, At, Goto, OwnsPid, Down, Forget, NoMemory, Dropped
<1>14. ASSUME NEW j \in Jobs, ReplaceBinary(j) PROVE Records'
  BY <1>14 DEF ReplaceBinary, At, Goto
<1>15. ASSUME NEW j \in Jobs, StandaloneFails(j) PROVE Records'
  BY <1>15 DEF StandaloneFails, At, Goto
<1>16. ASSUME NEW j \in Jobs, StartNew(j) PROVE Records'
  BY <1>16 DEF StartNew, At, Goto, Start
<1>17. ASSUME NEW j \in Jobs, CheckPasses(j) PROVE Records'
  BY <1>17 DEF CheckPasses, At, Goto, Serves
<1>18. ASSUME NEW j \in Jobs, CheckFails(j) PROVE Records'
  BY <1>18 DEF CheckFails, At, Goto, Serves, Down, Forget, NoMemory, Dropped
<1>19. ASSUME NEW j \in Jobs, UndoBinary(j) PROVE Records'
  BY <1>19 DEF UndoBinary, At, Goto
<1>20. ASSUME NEW j \in Jobs, UndoFrontend(j) PROVE Records'
  BY <1>20 DEF UndoFrontend, At, Goto, PutBack
<1>21. ASSUME NEW j \in Jobs, Revive(j) PROVE Records'
  BY <1>21 DEF Revive, At, Goto, Start
<1>22. ASSUME NEW j \in Jobs, WriteFailed(j) PROVE Records'
  BY <1>22 DEF WriteFailed, At, Goto
<1>23. ASSUME NEW j \in Jobs, Poll(j) PROVE Records'
  BY <1>23 DEF Poll, Settleable, Freed, Reconciled, Reported
<1>24. ASSUME NEW j \in Jobs, Heal(j) PROVE Records'
  BY <1>24 DEF Heal, Freed, Reported
<1>25. ASSUME NEW j \in Jobs, WaiterSees(j) PROVE Records'
  BY <1>25 DEF WaiterSees, Reconciled, Reported
<1>26. ASSUME NEW j \in Jobs, WaiterExpires(j) PROVE Records'
  BY <1>26 DEF WaiterExpires, Reported, WindowOver
<1>27. ASSUME Listen PROVE Records'
  BY <1>27 DEF Listen, Reconciled, Reported
<1>28. ASSUME GuardStart PROVE Records'
  BY <1>28 DEF GuardStart, Attempt, Start
<1>29. ASSUME GuardPasses PROVE Records'
  BY <1>29, <1>0 DEF GuardPasses, Serves
<1>30. ASSUME GuardFails PROVE Records'
  BY <1>30, <1>0 DEF GuardFails, Attempt, Serves, Forget, NoMemory, Start, Dropped, Orphaned
<1>31. ASSUME GuardForgets PROVE Records'
  BY <1>31, <1>0 DEF GuardForgets, Cleared, Exec
<1>32. ASSUME GuardUndoBinary PROVE Records'
  BY <1>32, <1>0 DEF GuardUndoBinary
<1>33. ASSUME GuardUndoFrontend PROVE Records'
  BY <1>33, <1>0 DEF GuardUndoFrontend, PutBack
<1>34. ASSUME GuardWritesFailed PROVE Records'
  BY <1>34, <1>0 DEF GuardWritesFailed
<1>35. ASSUME GuardExec PROVE Records'
  BY <1>35, <1>0 DEF GuardExec, Cleared, Start
<1>36. ASSUME WatchSettle PROVE Records'
  BY <1>36 DEF WatchSettle, WatchDue, Reconciled, Reported
<1>37. ASSUME WatchPasses PROVE Records'
  BY <1>37 DEF WatchPasses
<1>38. ASSUME WatchSaves PROVE Records'
  BY <1>38 DEF WatchSaves, Fault
<1>39. ASSUME NEW j \in Jobs, WatchLaunch(j) PROVE Records'
  BY <1>39 DEF WatchLaunch, Launch, CanReserve, Settleable, SettledFirst
<1>40. ASSUME OperatorStarts PROVE Records'
  BY <1>40 DEF OperatorStarts, Start
<1>41. CASE UNCHANGED vars
  BY <1>41 DEF vars
<1> HIDE DEF UpdateInv, Types, TypeOK, Programs, Undisturbed, OneAtWork, Home, Records, Record, Answers, Sourced, Stages, Stage,
     OnTrial, InWork, Changing, Launcher, Alive, Open, Final, disk, memory, keys, hist, pending, shell,
     process, fixed, here
<1>42. ASSUME NEW j \in Jobs, Service(j) PROVE Records'
  BY <1>42, <1>2, <1>3, <1>4, <1>5 DEF Service
<1>43. ASSUME NEW j \in Jobs, Script(j) PROVE Records'
  BY <1>43, <1>6, <1>7, <1>8, <1>9, <1>10, <1>11, <1>12, <1>13, <1>14, <1>15, <1>16, <1>17, <1>18,
     <1>19, <1>20, <1>21, <1>22 DEF Script
<1>44. CASE Guard
  BY <1>44, <1>28, <1>29, <1>30, <1>31, <1>32, <1>33, <1>34, <1>35 DEF Guard
<1>45. CASE Watcher
  BY <1>45, <1>36, <1>37, <1>38, <1>39 DEF Watcher
<1>46. CASE Faults
  BY <1>46, NoFault, UpdateAssumption DEF Faults, UpdateInv, Jobs
<1> QED
  BY <1>1, <1>23, <1>24, <1>25, <1>26, <1>27, <1>40, <1>41, <1>42, <1>43, <1>44, <1>45, <1>46 DEF Next,
     Waiter

\* The last step of an update leaves the service whole.
LEMMA AtRestStep == UpdateInv /\ faults' = 0 /\ [Next]_vars => AtRest'
<1> SUFFICES ASSUME UpdateInv, faults' = 0, [Next]_vars PROVE AtRest'
  OBVIOUS
<1> USE NoneNotJob
        DEF UpdateInv, Types, TypeOK, Programs, Undisturbed, OneAtWork, AtRest, Home, Trial, Saved, Records,
            Record, Answers, Sourced, Stages, Stage, OnTrial, InWork, Changing, Launcher, Alive, disk, memory, keys,
            hist, pending, shell, process, fixed, here
<1>1. ASSUME NEW j \in Jobs, Apply(j) PROVE AtRest'
  BY <1>1 DEF Apply, Launch, CanReserve, Settleable, SettledFirst
<1>2. ASSUME NEW j \in Jobs, PrepareFails(j) PROVE AtRest'
  BY <1>2 DEF PrepareFails, Freed
<1>3. ASSUME NEW j \in Jobs, Spawn(j) PROVE AtRest'
  BY <1>3 DEF Spawn
<1>4. ASSUME NEW j \in Jobs, FinishMemory(j) PROVE AtRest'
  BY <1>4 DEF FinishMemory
<1>5. ASSUME NEW j \in Jobs, FinishFile(j) PROVE AtRest'
  BY <1>5 DEF FinishFile
<1>6. ASSUME NEW j \in Jobs, SwitchFrontend(j) PROVE AtRest'
  BY <1>6 DEF SwitchFrontend, At, Goto
<1>7. ASSUME NEW j \in Jobs, StartFails(j) PROVE AtRest'
  BY <1>7 DEF StartFails, At, Goto
<1>8. ASSUME NEW j \in Jobs, SwapBinary(j) PROVE AtRest'
  BY <1>8 DEF SwapBinary, At, Goto, OwnsPid
<1>9. ASSUME NEW j \in Jobs, SwitchedFails(j) PROVE AtRest'
  BY <1>9 DEF SwitchedFails, At, Goto
<1>10. ASSUME NEW j \in Jobs, SwappedFails(j) PROVE AtRest'
  BY <1>10 DEF SwappedFails, TakenAway, At, Goto
<1>11. ASSUME NEW j \in Jobs, WriteHandoff(j) PROVE AtRest'
  BY <1>11 DEF WriteHandoff, TakenAway, At, Goto
<1>12. ASSUME NEW j \in Jobs, StopApp(j) PROVE AtRest'
  BY <1>12 DEF StopApp, At, Goto, OwnsPid, Down, Forget, NoMemory, Dropped
<1>13. ASSUME NEW j \in Jobs, StopOld(j) PROVE AtRest'
  BY <1>13 DEF StopOld, At, Goto, OwnsPid, Down, Forget, NoMemory, Dropped
<1>14. ASSUME NEW j \in Jobs, ReplaceBinary(j) PROVE AtRest'
  BY <1>14 DEF ReplaceBinary, At, Goto
<1>15. ASSUME NEW j \in Jobs, StandaloneFails(j) PROVE AtRest'
  BY <1>15 DEF StandaloneFails, At, Goto
<1>16. ASSUME NEW j \in Jobs, StartNew(j) PROVE AtRest'
  BY <1>16 DEF StartNew, At, Goto, Start
<1>17. ASSUME NEW j \in Jobs, CheckPasses(j) PROVE AtRest'
  BY <1>17 DEF CheckPasses, At, Goto, Serves
<1>18. ASSUME NEW j \in Jobs, CheckFails(j) PROVE AtRest'
  BY <1>18 DEF CheckFails, At, Goto, Serves, Down, Forget, NoMemory, Dropped
<1>19. ASSUME NEW j \in Jobs, UndoBinary(j) PROVE AtRest'
  BY <1>19 DEF UndoBinary, At, Goto
<1>20. ASSUME NEW j \in Jobs, UndoFrontend(j) PROVE AtRest'
  BY <1>20 DEF UndoFrontend, At, Goto, PutBack
<1>21. ASSUME NEW j \in Jobs, Revive(j) PROVE AtRest'
  BY <1>21 DEF Revive, At, Goto, Start
<1>22. ASSUME NEW j \in Jobs, WriteFailed(j) PROVE AtRest'
  BY <1>22 DEF WriteFailed, At, Goto
<1>23. ASSUME NEW j \in Jobs, Poll(j) PROVE AtRest'
  BY <1>23 DEF Poll, Settleable, Freed, Reconciled, Reported
<1>24. ASSUME NEW j \in Jobs, Heal(j) PROVE AtRest'
  BY <1>24 DEF Heal, Freed, Reported
<1>25. ASSUME NEW j \in Jobs, WaiterSees(j) PROVE AtRest'
  BY <1>25 DEF WaiterSees, Reconciled, Reported
<1>26. ASSUME NEW j \in Jobs, WaiterExpires(j) PROVE AtRest'
  BY <1>26 DEF WaiterExpires, Reported, WindowOver
<1>27. ASSUME Listen PROVE AtRest'
  BY <1>27 DEF Listen, Reconciled, Reported
<1>28. ASSUME GuardStart PROVE AtRest'
  BY <1>28 DEF GuardStart, Attempt, Start
<1>29. ASSUME GuardPasses PROVE AtRest'
  BY <1>29 DEF GuardPasses, Serves
<1>30. ASSUME GuardFails PROVE AtRest'
  BY <1>30 DEF GuardFails, Attempt, Serves, Forget, NoMemory, Start, Dropped, Orphaned
<1>31. ASSUME GuardForgets PROVE AtRest'
  BY <1>31 DEF GuardForgets, Cleared, Exec
<1>32. ASSUME GuardUndoBinary PROVE AtRest'
  BY <1>32 DEF GuardUndoBinary
<1>33. ASSUME GuardUndoFrontend PROVE AtRest'
  BY <1>33 DEF GuardUndoFrontend, PutBack
<1>34. ASSUME GuardWritesFailed PROVE AtRest'
  BY <1>34 DEF GuardWritesFailed
<1>35. ASSUME GuardExec PROVE AtRest'
  BY <1>35 DEF GuardExec, Cleared, Start
<1>36. ASSUME WatchSettle PROVE AtRest'
  BY <1>36 DEF WatchSettle, WatchDue, Reconciled, Reported
<1>37. ASSUME WatchPasses PROVE AtRest'
  BY <1>37 DEF WatchPasses
<1>38. ASSUME WatchSaves PROVE AtRest'
  BY <1>38 DEF WatchSaves, Fault
<1>39. ASSUME NEW j \in Jobs, WatchLaunch(j) PROVE AtRest'
  BY <1>39 DEF WatchLaunch, Launch, CanReserve, Settleable, SettledFirst
<1>40. ASSUME OperatorStarts PROVE AtRest'
  BY <1>40 DEF OperatorStarts, Start
<1>41. CASE UNCHANGED vars
  BY <1>41 DEF vars
<1> HIDE DEF UpdateInv, Types, TypeOK, Programs, Undisturbed, OneAtWork, AtRest, Home, Trial, Saved, Records,
     Record, Answers, Sourced, Stages, Stage, OnTrial, InWork, Changing, Launcher, Alive, disk, memory, keys, hist,
     pending, shell, process, fixed, here
<1>42. ASSUME NEW j \in Jobs, Service(j) PROVE AtRest'
  BY <1>42, <1>2, <1>3, <1>4, <1>5 DEF Service
<1>43. ASSUME NEW j \in Jobs, Script(j) PROVE AtRest'
  BY <1>43, <1>6, <1>7, <1>8, <1>9, <1>10, <1>11, <1>12, <1>13, <1>14, <1>15, <1>16, <1>17, <1>18,
     <1>19, <1>20, <1>21, <1>22 DEF Script
<1>44. CASE Guard
  BY <1>44, <1>28, <1>29, <1>30, <1>31, <1>32, <1>33, <1>34, <1>35 DEF Guard
<1>45. CASE Watcher
  BY <1>45, <1>36, <1>37, <1>38, <1>39 DEF Watcher
<1>46. CASE Faults
  BY <1>46, NoFault, UpdateAssumption DEF Faults, UpdateInv, Jobs
<1> QED
  BY <1>1, <1>23, <1>24, <1>25, <1>26, <1>27, <1>40, <1>41, <1>42, <1>43, <1>44, <1>45, <1>46 DEF Next,
     Waiter

\* Every step of a script and of start.sh leads from what one stage leaves to what the next
\* one needs, and the steps of other jobs do not disturb it.
LEMMA StageStep == UpdateInv /\ faults' = 0 /\ [Next]_vars => Stages'
<1> SUFFICES ASSUME UpdateInv, faults' = 0, [Next]_vars PROVE Stages'
  OBVIOUS
<1>0. faults = 0 /\ guard \notin {"off", "plain"} => handoff \in Jobs /\ script[handoff] = "ended"
  BY HandedOver
<1> USE NoneNotJob
        DEF UpdateInv, Types, TypeOK, Programs, Undisturbed, OneAtWork, AtRest, Home, Trial, Saved, Records,
            Record, Answers, Sourced, Stages, Stage, OnTrial, InWork, Changing, Launcher, Alive, disk, memory, keys,
            hist, pending, shell, process, fixed, here
<1>1. ASSUME NEW j \in Jobs, Apply(j) PROVE Stages'
  BY <1>1 DEF Apply, Launch, CanReserve, Settleable, SettledFirst
<1>2. ASSUME NEW j \in Jobs, PrepareFails(j) PROVE Stages'
  BY <1>2 DEF PrepareFails, Freed
<1>3. ASSUME NEW j \in Jobs, Spawn(j) PROVE Stages'
  BY <1>3 DEF Spawn
<1>4. ASSUME NEW j \in Jobs, FinishMemory(j) PROVE Stages'
  BY <1>4 DEF FinishMemory
<1>5. ASSUME NEW j \in Jobs, FinishFile(j) PROVE Stages'
  BY <1>5 DEF FinishFile
<1>6. ASSUME NEW j \in Jobs, SwitchFrontend(j) PROVE Stages'
  BY <1>6 DEF SwitchFrontend, At, Goto
<1>7. ASSUME NEW j \in Jobs, StartFails(j) PROVE Stages'
  BY <1>7 DEF StartFails, At, Goto
<1>8. ASSUME NEW j \in Jobs, SwapBinary(j) PROVE Stages'
  BY <1>8 DEF SwapBinary, At, Goto, OwnsPid
<1>9. ASSUME NEW j \in Jobs, SwitchedFails(j) PROVE Stages'
  BY <1>9 DEF SwitchedFails, At, Goto
<1>10. ASSUME NEW j \in Jobs, SwappedFails(j) PROVE Stages'
  BY <1>10 DEF SwappedFails, TakenAway, At, Goto
<1>11. ASSUME NEW j \in Jobs, WriteHandoff(j) PROVE Stages'
  BY <1>11 DEF WriteHandoff, TakenAway, At, Goto
<1>12. ASSUME NEW j \in Jobs, StopApp(j) PROVE Stages'
  BY <1>12 DEF StopApp, At, Goto, OwnsPid, Down, Forget, NoMemory, Dropped
<1>13. ASSUME NEW j \in Jobs, StopOld(j) PROVE Stages'
  BY <1>13 DEF StopOld, At, Goto, OwnsPid, Down, Forget, NoMemory, Dropped
<1>14. ASSUME NEW j \in Jobs, ReplaceBinary(j) PROVE Stages'
  BY <1>14 DEF ReplaceBinary, At, Goto
<1>15. ASSUME NEW j \in Jobs, StandaloneFails(j) PROVE Stages'
  BY <1>15 DEF StandaloneFails, At, Goto
<1>16. ASSUME NEW j \in Jobs, StartNew(j) PROVE Stages'
  BY <1>16 DEF StartNew, At, Goto, Start
<1>17. ASSUME NEW j \in Jobs, CheckPasses(j) PROVE Stages'
  BY <1>17 DEF CheckPasses, At, Goto, Serves
<1>18. ASSUME NEW j \in Jobs, CheckFails(j) PROVE Stages'
  BY <1>18 DEF CheckFails, At, Goto, Serves, Down, Forget, NoMemory, Dropped
<1>19. ASSUME NEW j \in Jobs, UndoBinary(j) PROVE Stages'
  BY <1>19 DEF UndoBinary, At, Goto
<1>20. ASSUME NEW j \in Jobs, UndoFrontend(j) PROVE Stages'
  BY <1>20 DEF UndoFrontend, At, Goto, PutBack
<1>21. ASSUME NEW j \in Jobs, Revive(j) PROVE Stages'
  BY <1>21 DEF Revive, At, Goto, Start
<1>22. ASSUME NEW j \in Jobs, WriteFailed(j) PROVE Stages'
  BY <1>22 DEF WriteFailed, At, Goto
<1>23. ASSUME NEW j \in Jobs, Poll(j) PROVE Stages'
  BY <1>23 DEF Poll, Settleable, Freed, Reconciled, Reported
<1>24. ASSUME NEW j \in Jobs, Heal(j) PROVE Stages'
  BY <1>24 DEF Heal, Freed, Reported
<1>25. ASSUME NEW j \in Jobs, WaiterSees(j) PROVE Stages'
  BY <1>25 DEF WaiterSees, Reconciled, Reported
<1>26. ASSUME NEW j \in Jobs, WaiterExpires(j) PROVE Stages'
  BY <1>26 DEF WaiterExpires, Reported, WindowOver
<1>27. ASSUME Listen PROVE Stages'
  BY <1>27 DEF Listen, Reconciled, Reported
<1>28. ASSUME GuardStart PROVE Stages'
  BY <1>28 DEF GuardStart, Attempt, Start
<1>29. ASSUME GuardPasses PROVE Stages'
  BY <1>29, <1>0 DEF GuardPasses, Serves
<1>30. ASSUME GuardFails PROVE Stages'
  BY <1>30, <1>0 DEF GuardFails, Attempt, Serves, Forget, NoMemory, Start, Dropped, Orphaned
<1>31. ASSUME GuardForgets PROVE Stages'
  BY <1>31, <1>0 DEF GuardForgets, Cleared, Exec
<1>32. ASSUME GuardUndoBinary PROVE Stages'
  BY <1>32, <1>0 DEF GuardUndoBinary
<1>33. ASSUME GuardUndoFrontend PROVE Stages'
  BY <1>33, <1>0 DEF GuardUndoFrontend, PutBack
<1>34. ASSUME GuardWritesFailed PROVE Stages'
  BY <1>34, <1>0 DEF GuardWritesFailed
<1>35. ASSUME GuardExec PROVE Stages'
  BY <1>35, <1>0 DEF GuardExec, Cleared, Start
<1>36. ASSUME WatchSettle PROVE Stages'
  BY <1>36 DEF WatchSettle, WatchDue, Reconciled, Reported
<1>37. ASSUME WatchPasses PROVE Stages'
  BY <1>37 DEF WatchPasses
<1>38. ASSUME WatchSaves PROVE Stages'
  BY <1>38 DEF WatchSaves, Fault
<1>39. ASSUME NEW j \in Jobs, WatchLaunch(j) PROVE Stages'
  BY <1>39 DEF WatchLaunch, Launch, CanReserve, Settleable, SettledFirst
<1>40. ASSUME OperatorStarts PROVE Stages'
  BY <1>40 DEF OperatorStarts, Start
<1>41. CASE UNCHANGED vars
  BY <1>41 DEF vars
<1> HIDE DEF UpdateInv, Types, TypeOK, Programs, Undisturbed, OneAtWork, AtRest, Home, Trial, Saved, Records,
     Record, Answers, Sourced, Stages, Stage, OnTrial, InWork, Changing, Launcher, Alive, disk, memory, keys, hist,
     pending, shell, process, fixed, here
<1>42. ASSUME NEW j \in Jobs, Service(j) PROVE Stages'
  BY <1>42, <1>2, <1>3, <1>4, <1>5 DEF Service
<1>43. ASSUME NEW j \in Jobs, Script(j) PROVE Stages'
  BY <1>43, <1>6, <1>7, <1>8, <1>9, <1>10, <1>11, <1>12, <1>13, <1>14, <1>15, <1>16, <1>17, <1>18,
     <1>19, <1>20, <1>21, <1>22 DEF Script
<1>44. CASE Guard
  BY <1>44, <1>28, <1>29, <1>30, <1>31, <1>32, <1>33, <1>34, <1>35 DEF Guard
<1>45. CASE Watcher
  BY <1>45, <1>36, <1>37, <1>38, <1>39 DEF Watcher
<1>46. CASE Faults
  BY <1>46, NoFault, UpdateAssumption DEF Faults, UpdateInv, Jobs
<1> QED
  BY <1>1, <1>23, <1>24, <1>25, <1>26, <1>27, <1>40, <1>41, <1>42, <1>43, <1>44, <1>45, <1>46 DEF Next,
     Waiter

\* A job the watcher finds open is being tried by the process the watcher runs in.
LEMMA OpenAtWatch == ASSUME UpdateInv, faults = 0, WatchSettle, pendingKey # None,
                            Reported(pendingKey) \notin Final \cup {"none"}
                     PROVE  ver = "new"
<1>1. pendingKey \in auto /\ pendingKey \in Jobs
  BY DEF UpdateInv, Types, TypeOK, Undisturbed, AutoKeys
<1> DEFINE p == pendingKey
<1>2. Record(p) /\ (InWork(p) => Stage(p) /\ OnTrial(p))
  BY <1>1 DEF UpdateInv, Undisturbed, Records, Stages
<1>3. file[p] \in Open /\ result[p] = "none"
  BY <1>1 DEF Reported, Final, Open, UpdateInv, Types, TypeOK
<1>4. script[p] \in {"none", "checking", "ended"} /\ proc = "serving"
  BY <1>1 DEF WatchSettle, WatchDue, Alive
<1>5. CASE script[p] = "none"
  BY <1>1, <1>2, <1>3, <1>5 DEF Record, Open, WatchSettle, WatchDue, InWork, Stage, Launcher
<1>6. CASE script[p] = "checking"
  BY <1>2, <1>6 DEF InWork, Changing, Stage
<1>7. CASE script[p] = "ended"
  BY <1>2, <1>3, <1>4, <1>7 DEF Record, InWork, OnTrial, UpdateInv, Types, TypeOK
<1> QED
  BY <1>4, <1>5, <1>6, <1>7

\* The watcher forgets the key of a job only to remember its failure, or when it succeeded.
LEMMA WatchStep == ASSUME UpdateInv, faults = 0, WatchSettle
                   PROVE  AutoKeys'
<1> DEFINE p == pendingKey
           Due == p # None /\ Reported(p) \in Final \cup {"none"}
<1>1. Types /\ AutoKeys
  BY DEF UpdateInv, Undisturbed
<1>2. /\ UNCHANGED <<result, auto, script, handoff, proc, ver, watchJob>>
      /\ watch = "idle" /\ watch' = "settled" /\ proc = "serving"
  BY DEF WatchSettle, process, shell, pending, hist
<1>3. \A j \in Jobs : file[j] # "none" => file'[j] # "none"
  BY DEF WatchSettle, Reconciled, Reported
<1>4. watchJob = None /\ auto \subseteq Jobs
  BY <1>1, <1>2 DEF AutoKeys, Types, TypeOK
<1>5. CASE Due
  <2>1. pendingKey' = None
    BY <1>5 DEF WatchSettle
  <2>2. Reported(p) = "failed" \/ Done(p)
    <3>1. p \in auto /\ p \in Jobs
      BY <1>1, <1>4, <1>5 DEF AutoKeys
    <3>2. Record(p) /\ file[p] # "none"
      BY <1>1, <3>1 DEF AutoKeys, UpdateInv, Undisturbed, Records
    <3>3. script[p] # "revived"
      BY <3>1 DEF WatchSettle, WatchDue, Alive
    <3> QED
      BY <1>5, <3>2, <3>3 DEF Reported, Final, Record, Done
  <2>3. ASSUME NEW j \in auto PROVE file'[j] # "none" /\ (Done(j) \/ failedKey')
    <3>1. file'[j] # "none"
      BY <1>1, <1>3, <1>4, <2>3 DEF AutoKeys
    <3>2. CASE j = p
      BY <1>1, <1>5, <2>2, <3>1, <3>2, FailureKept
    <3>3. CASE j # p
      <4>1. Done(j) \/ failedKey
        BY <1>1, <1>4, <2>3, <3>3, NoneNotJob DEF AutoKeys
      <4> QED
        BY <1>1, <3>1, <4>1, FailureKept
    <3> QED
      BY <3>2, <3>3
  <2> QED
    BY <1>1, <1>2, <2>1, <2>3 DEF AutoKeys, Done, Answers
<1>6. CASE ~Due
  <2>1. UNCHANGED <<pendingKey, failedKey, file>>
    BY <1>6 DEF WatchSettle, keys
  <2>2. pendingKey = None \/ ver = "new"
    BY <1>6, OpenAtWatch
  <2> QED
    BY <1>1, <1>2, <1>4, <2>1, <2>2 DEF AutoKeys, Done, Answers
<1> QED
  BY <1>5, <1>6

\* The watcher launches only when the job before has succeeded, and it saves a job's key before
\* anything can end its process.
LEMMA AutoKeyStep == UpdateInv /\ faults' = 0 /\ [Next]_vars => AutoKeys'
<1> SUFFICES ASSUME UpdateInv, faults' = 0, [Next]_vars PROVE AutoKeys'
  OBVIOUS
<1>0. ASSUME WatchSettle PROVE AutoKeys'
  BY <1>0, WatchStep DEF WatchSettle, hist
<1> USE NoneNotJob
        DEF UpdateInv, Types, TypeOK, Programs, Undisturbed, OneAtWork, AtRest, Home, AutoKeys, Done, Records,
            Record, Answers, Sourced, Stages, Stage, OnTrial, InWork, Changing, Launcher, Alive, disk, memory, keys,
            hist, pending, shell, process, fixed, here
<1>1. ASSUME NEW j \in Jobs, Apply(j) PROVE AutoKeys'
  BY <1>1 DEF Apply, Launch, CanReserve, Settleable, SettledFirst
<1>2. ASSUME NEW j \in Jobs, PrepareFails(j) PROVE AutoKeys'
  BY <1>2 DEF PrepareFails, Freed
<1>3. ASSUME NEW j \in Jobs, Spawn(j) PROVE AutoKeys'
  BY <1>3 DEF Spawn
<1>4. ASSUME NEW j \in Jobs, FinishMemory(j) PROVE AutoKeys'
  BY <1>4 DEF FinishMemory
<1>5. ASSUME NEW j \in Jobs, FinishFile(j) PROVE AutoKeys'
  BY <1>5 DEF FinishFile
<1>6. ASSUME NEW j \in Jobs, SwitchFrontend(j) PROVE AutoKeys'
  BY <1>6 DEF SwitchFrontend, At, Goto
<1>7. ASSUME NEW j \in Jobs, StartFails(j) PROVE AutoKeys'
  BY <1>7 DEF StartFails, At, Goto
<1>8. ASSUME NEW j \in Jobs, SwapBinary(j) PROVE AutoKeys'
  BY <1>8 DEF SwapBinary, At, Goto, OwnsPid
<1>9. ASSUME NEW j \in Jobs, SwitchedFails(j) PROVE AutoKeys'
  BY <1>9 DEF SwitchedFails, At, Goto
<1>10. ASSUME NEW j \in Jobs, SwappedFails(j) PROVE AutoKeys'
  BY <1>10 DEF SwappedFails, TakenAway, At, Goto
<1>11. ASSUME NEW j \in Jobs, WriteHandoff(j) PROVE AutoKeys'
  BY <1>11 DEF WriteHandoff, TakenAway, At, Goto
<1>12. ASSUME NEW j \in Jobs, StopApp(j) PROVE AutoKeys'
  BY <1>12 DEF StopApp, At, Goto, OwnsPid, Down, Forget, NoMemory, Dropped
<1>13. ASSUME NEW j \in Jobs, StopOld(j) PROVE AutoKeys'
  BY <1>13 DEF StopOld, At, Goto, OwnsPid, Down, Forget, NoMemory, Dropped
<1>14. ASSUME NEW j \in Jobs, ReplaceBinary(j) PROVE AutoKeys'
  BY <1>14 DEF ReplaceBinary, At, Goto
<1>15. ASSUME NEW j \in Jobs, StandaloneFails(j) PROVE AutoKeys'
  BY <1>15 DEF StandaloneFails, At, Goto
<1>16. ASSUME NEW j \in Jobs, StartNew(j) PROVE AutoKeys'
  BY <1>16 DEF StartNew, At, Goto, Start
<1>17. ASSUME NEW j \in Jobs, CheckPasses(j) PROVE AutoKeys'
  BY <1>17 DEF CheckPasses, At, Goto, Serves
<1>18. ASSUME NEW j \in Jobs, CheckFails(j) PROVE AutoKeys'
  BY <1>18 DEF CheckFails, At, Goto, Serves, Down, Forget, NoMemory, Dropped
<1>19. ASSUME NEW j \in Jobs, UndoBinary(j) PROVE AutoKeys'
  BY <1>19 DEF UndoBinary, At, Goto
<1>20. ASSUME NEW j \in Jobs, UndoFrontend(j) PROVE AutoKeys'
  BY <1>20 DEF UndoFrontend, At, Goto, PutBack
<1>21. ASSUME NEW j \in Jobs, Revive(j) PROVE AutoKeys'
  BY <1>21 DEF Revive, At, Goto, Start
<1>22. ASSUME NEW j \in Jobs, WriteFailed(j) PROVE AutoKeys'
  BY <1>22 DEF WriteFailed, At, Goto
<1>23. ASSUME NEW j \in Jobs, Poll(j) PROVE AutoKeys'
  BY <1>23 DEF Poll, Settleable, Freed, Reconciled, Reported
<1>24. ASSUME NEW j \in Jobs, Heal(j) PROVE AutoKeys'
  BY <1>24 DEF Heal, Freed, Reported
<1>25. ASSUME NEW j \in Jobs, WaiterSees(j) PROVE AutoKeys'
  BY <1>25 DEF WaiterSees, Reconciled, Reported
<1>26. ASSUME NEW j \in Jobs, WaiterExpires(j) PROVE AutoKeys'
  BY <1>26 DEF WaiterExpires, Reported, WindowOver
<1>27. ASSUME Listen PROVE AutoKeys'
  BY <1>27 DEF Listen, Reconciled, Reported
<1>28. ASSUME GuardStart PROVE AutoKeys'
  BY <1>28 DEF GuardStart, Attempt, Start
<1>29. ASSUME GuardPasses PROVE AutoKeys'
  BY <1>29 DEF GuardPasses, Serves
<1>30. ASSUME GuardFails PROVE AutoKeys'
  BY <1>30 DEF GuardFails, Attempt, Serves, Forget, NoMemory, Start, Dropped, Orphaned
<1>31. ASSUME GuardForgets PROVE AutoKeys'
  BY <1>31 DEF GuardForgets, Cleared, Exec
<1>32. ASSUME GuardUndoBinary PROVE AutoKeys'
  BY <1>32 DEF GuardUndoBinary
<1>33. ASSUME GuardUndoFrontend PROVE AutoKeys'
  BY <1>33 DEF GuardUndoFrontend, PutBack
<1>34. ASSUME GuardWritesFailed PROVE AutoKeys'
  BY <1>34 DEF GuardWritesFailed
<1>35. ASSUME GuardExec PROVE AutoKeys'
  BY <1>35 DEF GuardExec, Cleared, Start
<1>36. ASSUME WatchSettle PROVE AutoKeys'
  BY <1>36, <1>0
<1>37. ASSUME WatchPasses PROVE AutoKeys'
  BY <1>37 DEF WatchPasses
<1>38. ASSUME WatchSaves PROVE AutoKeys'
  BY <1>38 DEF WatchSaves, Fault
<1>39. ASSUME NEW j \in Jobs, WatchLaunch(j) PROVE AutoKeys'
  BY <1>39 DEF WatchLaunch, Launch, CanReserve, Settleable, SettledFirst
<1>40. ASSUME OperatorStarts PROVE AutoKeys'
  BY <1>40 DEF OperatorStarts, Start
<1>41. CASE UNCHANGED vars
  BY <1>41 DEF vars
<1> HIDE DEF UpdateInv, Types, TypeOK, Programs, Undisturbed, OneAtWork, AtRest, Home, AutoKeys, Done, Records, Record, Answers, Sourced,
     Stages, Stage, OnTrial, InWork, Changing, Launcher, Alive, disk, memory, keys, hist, pending,
     shell, process, fixed, here
<1>42. ASSUME NEW j \in Jobs, Service(j) PROVE AutoKeys'
  BY <1>42, <1>2, <1>3, <1>4, <1>5 DEF Service
<1>43. ASSUME NEW j \in Jobs, Script(j) PROVE AutoKeys'
  BY <1>43, <1>6, <1>7, <1>8, <1>9, <1>10, <1>11, <1>12, <1>13, <1>14, <1>15, <1>16, <1>17, <1>18,
     <1>19, <1>20, <1>21, <1>22 DEF Script
<1>44. CASE Guard
  BY <1>44, <1>28, <1>29, <1>30, <1>31, <1>32, <1>33, <1>34, <1>35 DEF Guard
<1>45. CASE Watcher
  BY <1>45, <1>36, <1>37, <1>38, <1>39 DEF Watcher
<1>46. CASE Faults
  BY <1>46, NoFault, UpdateAssumption DEF Faults, UpdateInv, Jobs
<1> QED
  BY <1>1, <1>23, <1>24, <1>25, <1>26, <1>27, <1>40, <1>41, <1>42, <1>43, <1>44, <1>45, <1>46 DEF Next,
     Waiter

--------------------------------------------------------------------------------
(* The online update: theorems *)

\* The conjunction is an invariant.
THEOREM UpdateInvInvariant == Spec => []UpdateInv
<1>1. UpdateInv /\ [Next]_vars => UpdateInv'
  <2> SUFFICES ASSUME UpdateInv, [Next]_vars PROVE UpdateInv'
    OBVIOUS
  <2>1. Types'
    BY TypeStep, BackupStep DEF UpdateInv, Types
  <2>2. ASSUME faults' = 0 PROVE Undisturbed'
    BY <2>2, OneAtWorkStep, RecordStep, AtRestStep, StageStep, AutoKeyStep DEF Undisturbed
  <2> QED
    BY <2>1, <2>2 DEF UpdateInv
<1> QED
  BY UpdateInitInv, <1>1, PTL DEF Spec

\* Whatever is killed, restarted or lost, every variable keeps its type, the running job of
\* the process's memory is an open one, and a rollback restores a version that was there.
THEOREM UpdateTypeCorrect == Spec => []TypeOK
<1>1. UpdateInv => TypeOK
  BY DEF UpdateInv, Types
<1> QED
  BY UpdateInvInvariant, <1>1, PTL

\* No two updates overlap while nothing is killed: one goroutine prepares, or one script
\* moves files, or start.sh tries one version (reserveOnlineUpdateJob keeps the slot until
\* the result file is there).
THEOREM UpdatesDoNotOverlap ==
  Spec => [](faults = 0 => \A i, j \in Jobs :
                script[i] \in Changing /\ (work[j] = "prepare" \/ script[j] \in Changing \/ handoff = j) => i = j)
<1>1. UpdateInv => (faults = 0 => \A i, j \in Jobs :
                script[i] \in Changing /\ (work[j] = "prepare" \/ script[j] \in Changing \/ handoff = j) => i = j)
  BY DEF UpdateInv, Undisturbed, OneAtWork, InWork
<1> QED
  BY UpdateInvInvariant, <1>1, PTL

\* Left alone, an update ends whole, however many are run one after the other: program and
\* frontend are of one version, the new one exactly if a job was reported done, and it runs.
THEOREM UpdateEndsWhole == Spec => []WholeOutcome
<1>1. UpdateInv => WholeOutcome
  <2> SUFFICES ASSUME UpdateInv, faults = 0, Quiet
               PROVE  /\ bin = front
                      /\ bin = "new" <=> \E j \in Jobs : Reported(j) = "success"
                      /\ proc # "down" => ver = bin
    BY DEF WholeOutcome
  <2>1. Undisturbed
    BY DEF UpdateInv
  <2>2. \A j \in Jobs : ~InWork(j) /\ handoff # j
    BY NoneNotJob DEF Quiet, InWork, Changing, Alive
  <2>3. AtRest
    BY <2>1 DEF Undisturbed
  <2>4. \A j \in Jobs : Reported(j) = "success" <=> result[j] = "success"
    BY <2>1, <2>2 DEF Undisturbed, Records, Record, Quiet, Alive, Reported
  <2> QED
    BY <2>2, <2>3, <2>4 DEF AtRest
<1> QED
  BY UpdateInvInvariant, <1>1, PTL

\* A version whose automatic installation failed is not installed automatically again, as
\* long as no process was killed and no key lost (settleOnlineUpdateAutoResult).
THEOREM FailsOnceAtNight == Spec => []AutoFailsOnce
<1>1. UpdateInv => AutoFailsOnce
  <2> SUFFICES ASSUME UpdateInv, faults = 0
               PROVE  Cardinality({j \in auto : Reported(j) = "failed"}) <= 1
    BY DEF AutoFailsOnce
  <2> DEFINE F == {j \in auto : Reported(j) = "failed"}
  <2>1. \A i, j \in F : i = j
    BY DEF UpdateInv, Types, TypeOK, Undisturbed, AutoKeys, Done, Answers, Records, Record, Alive, Reported
  <2>2. CASE F = {}
    BY <2>2, FS_EmptySet
  <2>3. ASSUME NEW j \in F PROVE Cardinality(F) <= 1
    <3>1. F = {j}
      BY <2>1, <2>3
    <3> HIDE DEF F
    <3> QED
      BY <3>1, FS_Singleton
  <2> QED
    BY <2>2, <2>3
<1> QED
  BY UpdateInvInvariant, <1>1, PTL

--------------------------------------------------------------------------------
(* The pool: the inductive invariant *)

\* The current pool was made and has not been given to retirePool.
Current == \A p \in dbPool : pools[p] \in {"open", "shut"}

\* A request holds its connections while it works, and on the pool it was given.
Held ==
  \A p \in Pools, h \in Handlers, i \in {1, 2} :
    <<h, i>> \in conns[p] => pc[h] \in {"working", "nested"} /\ p \in given[h]

\* Only a transaction that asked for a second connection has one.
Asked ==
  \A p \in Pools, h \in Handlers, i \in {1, 2} :
    <<h, i>> \in conns[p] => IF pc[h] = "nested" THEN h \in Nested ELSE i = 1

Countable == \A p \in Pools : IsFiniteSet(conns[p])

PoolInv == PoolTypeOK /\ Current /\ Held /\ Asked /\ Countable

--------------------------------------------------------------------------------
(* The pool: connections *)

\* A free pool that gives a connection away stays within its limit.
LEMMA TakeOne == ASSUME NEW S, NEW e, IsFiniteSet(S), Cardinality(S) < MaxOpenConns
                 PROVE  IsFiniteSet(S \cup {e}) /\ Cardinality(S \cup {e}) <= MaxOpenConns
<1>1. Cardinality(S) \in Nat
  BY FS_CardinalityType
<1>2. CASE e \in S
  <2>1. S \cup {e} = S
    BY <1>2
  <2> QED
    BY <1>1, <2>1, PoolAssumption
<1>3. CASE e \notin S
  BY <1>1, <1>3, FS_AddElement, PoolAssumption
<1> QED
  BY <1>2, <1>3

\* Giving connections back keeps a pool within its limit.
LEMMA GiveBack == ASSUME NEW S, NEW T, IsFiniteSet(S), Cardinality(S) <= MaxOpenConns
                  PROVE  IsFiniteSet(S \ T) /\ Cardinality(S \ T) <= MaxOpenConns
<1>1. IsFiniteSet(S \ T) /\ Cardinality(S \ T) <= Cardinality(S)
  BY FS_Subset
<1>2. Cardinality(S) \in Nat /\ Cardinality(S \ T) \in Nat
  BY <1>1, FS_CardinalityType
<1> QED
  BY <1>1, <1>2, PoolAssumption

\* A request that takes its connection, or its second one.
LEMMA Taken == ASSUME PoolTypeOK, Countable, NEW h \in Handlers, NEW i \in {1, 2}, NEW p \in Pools,
                      Free(p), conns' = [conns EXCEPT ![p] = @ \cup {<<h, i>>}]
               PROVE  /\ conns' \in [Pools -> SUBSET (Handlers \X {1, 2})]
                      /\ \A q \in Pools : IsFiniteSet(conns'[q]) /\ Cardinality(conns'[q]) <= MaxOpenConns
                      /\ \A q \in Pools : conns'[q] \in {conns[q], conns[q] \cup {<<h, i>>}}
                      /\ \A q \in Pools \ {p} : conns'[q] = conns[q]
<1>1. conns[p] \subseteq Handlers \X {1, 2} /\ <<h, i>> \in Handlers \X {1, 2}
  BY DEF PoolTypeOK
<1>2. /\ conns' = [q \in Pools |-> IF q = p THEN conns[p] \cup {<<h, i>>} ELSE conns[q]]
  BY DEF PoolTypeOK
<1>3. /\ IsFiniteSet(conns[p] \cup {<<h, i>>})
      /\ Cardinality(conns[p] \cup {<<h, i>>}) <= MaxOpenConns
  BY TakeOne DEF Free, Countable
<1> QED
  BY <1>1, <1>2, <1>3 DEF PoolTypeOK, Countable

--------------------------------------------------------------------------------
(* The pool: its steps *)

\* The invariant holds at the start.
LEMMA PoolInitInv == PoolInit => PoolInv
BY PoolAssumption, FS_EmptySet DEF PoolInit, PoolInv, PoolTypeOK, Current, Held, Asked, Countable

\* Every step keeps the types and a pool's connections within the limit.
LEMMA PoolTypeStep == PoolInv /\ [PoolNext]_poolVars => PoolTypeOK'
<1> SUFFICES ASSUME PoolInv, [PoolNext]_poolVars PROVE PoolTypeOK'
  OBVIOUS
<1> USE PoolAssumption
    DEF PoolInv, PoolTypeOK, Countable
<1>1. ASSUME NEW h \in Handlers, ReadConfig(h)
     PROVE  PoolTypeOK'
  BY <1>1 DEF ReadConfig
<1>2. ASSUME NEW h \in Handlers, ReusePool(h)
     PROVE  PoolTypeOK'
  BY <1>2 DEF ReusePool, Reuse
<1>3. ASSUME NEW h \in Handlers, TakeConn(h)
     PROVE  PoolTypeOK'
  <2>1. PICK p \in Pools : /\ p \in given[h] /\ Free(p)
                          /\ conns' = [conns EXCEPT ![p] = @ \cup {<<h, 1>>}]
    BY <1>3 DEF TakeConn
  <2>2. /\ conns' \in [Pools -> SUBSET (Handlers \X {1, 2})]
        /\ \A q \in Pools : IsFiniteSet(conns'[q]) /\ Cardinality(conns'[q]) <= MaxOpenConns
        /\ \A q \in Pools : conns'[q] \in {conns[q], conns[q] \cup {<<h, 1>>}}
        /\ \A q \in Pools \ {p} : conns'[q] = conns[q]
    BY <2>1, Taken DEF Countable
  <2> QED
    BY <1>3, <2>1, <2>2 DEF TakeConn
<1>4. ASSUME NEW h \in Handlers, TakeSecond(h)
     PROVE  PoolTypeOK'
  <2>1. PICK p \in Pools : /\ p \in given[h] /\ Free(p)
                          /\ conns' = [conns EXCEPT ![p] = @ \cup {<<h, 2>>}]
    BY <1>4 DEF TakeSecond
  <2>2. /\ conns' \in [Pools -> SUBSET (Handlers \X {1, 2})]
        /\ \A q \in Pools : IsFiniteSet(conns'[q]) /\ Cardinality(conns'[q]) <= MaxOpenConns
        /\ \A q \in Pools : conns'[q] \in {conns[q], conns[q] \cup {<<h, 2>>}}
        /\ \A q \in Pools \ {p} : conns'[q] = conns[q]
    BY <2>1, Taken DEF Countable
  <2> QED
    BY <1>4, <2>1, <2>2 DEF TakeSecond
<1>5. ASSUME NEW h \in Handlers, UseClosed(h)
     PROVE  PoolTypeOK'
  BY <1>5, GiveBack DEF UseClosed, Usable
<1>6. ASSUME NEW h \in Handlers, Finish(h)
     PROVE  PoolTypeOK'
  BY <1>6, GiveBack DEF Finish, Released
<1>7. ASSUME NEW h \in Handlers, CloseGiven(h)
     PROVE  PoolTypeOK'
  BY <1>7 DEF CloseGiven
<1>8. ASSUME NEW h \in Handlers, Again(h)
     PROVE  PoolTypeOK'
  BY <1>8 DEF Again
<1>9. ASSUME NEW h \in Handlers, NEW n \in Pools, OpenPool(h, n)
     PROVE  PoolTypeOK'
  BY <1>9 DEF OpenPool, Reuse, Retired
<1>10. ASSUME NEW p \in Pools, Retire(p)
      PROVE  PoolTypeOK'
  BY <1>10 DEF Retire
<1>11. ASSUME NEW d \in DSNs, Reconfigure(d)
      PROVE  PoolTypeOK'
  BY <1>11 DEF Reconfigure
<1>12. ASSUME UNCHANGED poolVars
      PROVE  PoolTypeOK'
  BY <1>12 DEF poolVars
<1> HIDE DEF PoolInv, PoolTypeOK, Countable
<1>13. ASSUME NEW h \in Handlers, Work(h) PROVE PoolTypeOK'
  BY <1>13, <1>3, <1>4, <1>5, <1>6, <1>7 DEF Work
<1> QED
  BY <1>1, <1>2, <1>13, <1>8, <1>9, <1>10, <1>11, <1>12 DEF PoolNext

\* Only a pool that was replaced retires.
LEMMA CurrentStep == PoolInv /\ [PoolNext]_poolVars => Current'
<1> SUFFICES ASSUME PoolInv, [PoolNext]_poolVars PROVE Current'
  OBVIOUS
<1> USE PoolAssumption
    DEF PoolInv, PoolTypeOK, Current
<1>1. ASSUME NEW h \in Handlers, ReadConfig(h)
     PROVE  Current'
  BY <1>1 DEF ReadConfig
<1>2. ASSUME NEW h \in Handlers, ReusePool(h)
     PROVE  Current'
  BY <1>2 DEF ReusePool, Reuse
<1>3. ASSUME NEW h \in Handlers, TakeConn(h)
     PROVE  Current'
  BY <1>3, TakeOne DEF TakeConn, Free, Usable
<1>4. ASSUME NEW h \in Handlers, TakeSecond(h)
     PROVE  Current'
  BY <1>4, TakeOne DEF TakeSecond, Free, Usable
<1>5. ASSUME NEW h \in Handlers, UseClosed(h)
     PROVE  Current'
  BY <1>5, GiveBack DEF UseClosed, Usable
<1>6. ASSUME NEW h \in Handlers, Finish(h)
     PROVE  Current'
  BY <1>6, GiveBack DEF Finish, Released
<1>7. ASSUME NEW h \in Handlers, CloseGiven(h)
     PROVE  Current'
  BY <1>7 DEF CloseGiven
<1>8. ASSUME NEW h \in Handlers, Again(h)
     PROVE  Current'
  BY <1>8 DEF Again
<1>9. ASSUME NEW h \in Handlers, NEW n \in Pools, OpenPool(h, n)
     PROVE  Current'
  BY <1>9 DEF OpenPool, Reuse, Retired
<1>10. ASSUME NEW p \in Pools, Retire(p)
      PROVE  Current'
  BY <1>10 DEF Retire
<1>11. ASSUME NEW d \in DSNs, Reconfigure(d)
      PROVE  Current'
  BY <1>11 DEF Reconfigure
<1>12. ASSUME UNCHANGED poolVars
      PROVE  Current'
  BY <1>12 DEF poolVars
<1> HIDE DEF PoolInv, PoolTypeOK, Current
<1>13. ASSUME NEW h \in Handlers, Work(h) PROVE Current'
  BY <1>13, <1>3, <1>4, <1>5, <1>6, <1>7 DEF Work
<1> QED
  BY <1>1, <1>2, <1>13, <1>8, <1>9, <1>10, <1>11, <1>12 DEF PoolNext

\* Connections are given back when a request ends.
LEMMA HeldStep == PoolInv /\ [PoolNext]_poolVars => Held'
<1> SUFFICES ASSUME PoolInv, [PoolNext]_poolVars PROVE Held'
  OBVIOUS
<1> USE PoolAssumption
    DEF PoolInv, PoolTypeOK, Held, Countable
<1>1. ASSUME NEW h \in Handlers, ReadConfig(h)
     PROVE  Held'
  BY <1>1 DEF ReadConfig
<1>2. ASSUME NEW h \in Handlers, ReusePool(h)
     PROVE  Held'
  BY <1>2 DEF ReusePool, Reuse
<1>3. ASSUME NEW h \in Handlers, TakeConn(h)
     PROVE  Held'
  <2>1. PICK p \in Pools : /\ p \in given[h] /\ Free(p)
                          /\ conns' = [conns EXCEPT ![p] = @ \cup {<<h, 1>>}]
    BY <1>3 DEF TakeConn
  <2>2. /\ conns' \in [Pools -> SUBSET (Handlers \X {1, 2})]
        /\ \A q \in Pools : IsFiniteSet(conns'[q]) /\ Cardinality(conns'[q]) <= MaxOpenConns
        /\ \A q \in Pools : conns'[q] \in {conns[q], conns[q] \cup {<<h, 1>>}}
        /\ \A q \in Pools \ {p} : conns'[q] = conns[q]
    BY <2>1, Taken DEF Countable
  <2>3. pc' = [pc EXCEPT ![h] = "working"] /\ given' = given
    BY <1>3 DEF TakeConn
  <2>4. ASSUME NEW q \in Pools, NEW g \in Handlers, NEW j \in {1, 2}, <<g, j>> \in conns'[q]
        PROVE  pc'[g] \in {"working", "nested"} /\ q \in given[g]
    <3>1. CASE <<g, j>> \in conns[q]
      BY <2>3, <3>1
    <3>2. CASE <<g, j>> \notin conns[q]
      <4>1. <<g, j>> = <<h, 1>> /\ q = p
        BY <2>2, <2>4, <3>2
      <4>2. g = h
        BY <4>1
      <4> QED
        BY <2>1, <2>3, <4>1, <4>2
    <3> QED
      BY <3>1, <3>2
  <2> QED
    BY <2>3, <2>4
<1>4. ASSUME NEW h \in Handlers, TakeSecond(h)
     PROVE  Held'
  <2>1. PICK p \in Pools : /\ p \in given[h] /\ Free(p)
                          /\ conns' = [conns EXCEPT ![p] = @ \cup {<<h, 2>>}]
    BY <1>4 DEF TakeSecond
  <2>2. /\ conns' \in [Pools -> SUBSET (Handlers \X {1, 2})]
        /\ \A q \in Pools : IsFiniteSet(conns'[q]) /\ Cardinality(conns'[q]) <= MaxOpenConns
        /\ \A q \in Pools : conns'[q] \in {conns[q], conns[q] \cup {<<h, 2>>}}
        /\ \A q \in Pools \ {p} : conns'[q] = conns[q]
    BY <2>1, Taken DEF Countable
  <2>3. pc' = [pc EXCEPT ![h] = "nested"] /\ given' = given
    BY <1>4 DEF TakeSecond
  <2>4. ASSUME NEW q \in Pools, NEW g \in Handlers, NEW j \in {1, 2}, <<g, j>> \in conns'[q]
        PROVE  pc'[g] \in {"working", "nested"} /\ q \in given[g]
    <3>1. CASE <<g, j>> \in conns[q]
      BY <2>3, <3>1
    <3>2. CASE <<g, j>> \notin conns[q]
      <4>1. <<g, j>> = <<h, 2>> /\ q = p
        BY <2>2, <2>4, <3>2
      <4>2. g = h
        BY <4>1
      <4> QED
        BY <2>1, <2>3, <4>1, <4>2
    <3> QED
      BY <3>1, <3>2
  <2> QED
    BY <2>3, <2>4
<1>5. ASSUME NEW h \in Handlers, UseClosed(h)
     PROVE  Held'
  BY <1>5, GiveBack DEF UseClosed, Usable
<1>6. ASSUME NEW h \in Handlers, Finish(h)
     PROVE  Held'
  BY <1>6, GiveBack DEF Finish, Released
<1>7. ASSUME NEW h \in Handlers, CloseGiven(h)
     PROVE  Held'
  BY <1>7 DEF CloseGiven
<1>8. ASSUME NEW h \in Handlers, Again(h)
     PROVE  Held'
  BY <1>8 DEF Again
<1>9. ASSUME NEW h \in Handlers, NEW n \in Pools, OpenPool(h, n)
     PROVE  Held'
  BY <1>9 DEF OpenPool, Reuse, Retired
<1>10. ASSUME NEW p \in Pools, Retire(p)
      PROVE  Held'
  BY <1>10 DEF Retire
<1>11. ASSUME NEW d \in DSNs, Reconfigure(d)
      PROVE  Held'
  BY <1>11 DEF Reconfigure
<1>12. ASSUME UNCHANGED poolVars
      PROVE  Held'
  BY <1>12 DEF poolVars
<1> HIDE DEF PoolInv, PoolTypeOK, Held, Countable
<1>13. ASSUME NEW h \in Handlers, Work(h) PROVE Held'
  BY <1>13, <1>3, <1>4, <1>5, <1>6, <1>7 DEF Work
<1> QED
  BY <1>1, <1>2, <1>13, <1>8, <1>9, <1>10, <1>11, <1>12 DEF PoolNext

\* A second connection is asked for by settlements only, after their first.
LEMMA AskedStep == PoolInv /\ [PoolNext]_poolVars => Asked'
<1> SUFFICES ASSUME PoolInv, [PoolNext]_poolVars PROVE Asked'
  OBVIOUS
<1> USE PoolAssumption
    DEF PoolInv, PoolTypeOK, Held, Asked
<1>1. ASSUME NEW h \in Handlers, ReadConfig(h)
     PROVE  Asked'
  BY <1>1 DEF ReadConfig
<1>2. ASSUME NEW h \in Handlers, ReusePool(h)
     PROVE  Asked'
  BY <1>2 DEF ReusePool, Reuse
<1>3. ASSUME NEW h \in Handlers, TakeConn(h)
     PROVE  Asked'
  <2>1. PICK p \in Pools : /\ p \in given[h] /\ Free(p)
                          /\ conns' = [conns EXCEPT ![p] = @ \cup {<<h, 1>>}]
    BY <1>3 DEF TakeConn
  <2>2. \A q \in Pools : conns'[q] \in {conns[q], conns[q] \cup {<<h, 1>>}}
    BY <2>1, Taken DEF Countable
  <2>3. pc' = [pc EXCEPT ![h] = "working"] /\ pc[h] = "given"
    BY <1>3 DEF TakeConn
  <2>4. ASSUME NEW q \in Pools, NEW g \in Handlers, NEW j \in {1, 2}, <<g, j>> \in conns'[q]
        PROVE  IF pc'[g] = "nested" THEN g \in Nested ELSE j = 1
    <3>1. <<g, j>> \in conns[q] \/ (g = h /\ j = 1)
      BY <2>2, <2>4
    <3> QED
      BY <2>3, <3>1
  <2> QED
    BY <2>3, <2>4
<1>4. ASSUME NEW h \in Handlers, TakeSecond(h)
     PROVE  Asked'
  <2>1. PICK p \in Pools : /\ p \in given[h] /\ Free(p)
                          /\ conns' = [conns EXCEPT ![p] = @ \cup {<<h, 2>>}]
    BY <1>4 DEF TakeSecond
  <2>2. \A q \in Pools : conns'[q] \in {conns[q], conns[q] \cup {<<h, 2>>}}
    BY <2>1, Taken DEF Countable
  <2>3. pc' = [pc EXCEPT ![h] = "nested"] /\ h \in Nested
    BY <1>4 DEF TakeSecond
  <2>4. ASSUME NEW q \in Pools, NEW g \in Handlers, NEW j \in {1, 2}, <<g, j>> \in conns'[q]
        PROVE  IF pc'[g] = "nested" THEN g \in Nested ELSE j = 1
    <3>1. CASE g = h
      BY <2>3, <3>1
    <3>2. CASE g # h
      <4>1. <<g, j>> \in conns[q]
        BY <2>2, <2>4, <3>2
      <4> QED
        BY <2>3, <3>2, <4>1
    <3> QED
      BY <3>1, <3>2
  <2> QED
    BY <2>3, <2>4
<1>5. ASSUME NEW h \in Handlers, UseClosed(h)
     PROVE  Asked'
  BY <1>5 DEF UseClosed, Usable
<1>6. ASSUME NEW h \in Handlers, Finish(h)
     PROVE  Asked'
  BY <1>6 DEF Finish, Released
<1>7. ASSUME NEW h \in Handlers, CloseGiven(h)
     PROVE  Asked'
  BY <1>7 DEF CloseGiven
<1>8. ASSUME NEW h \in Handlers, Again(h)
     PROVE  Asked'
  BY <1>8 DEF Again
<1>9. ASSUME NEW h \in Handlers, NEW n \in Pools, OpenPool(h, n)
     PROVE  Asked'
  BY <1>9 DEF OpenPool, Reuse, Retired
<1>10. ASSUME NEW p \in Pools, Retire(p)
      PROVE  Asked'
  BY <1>10 DEF Retire
<1>11. ASSUME NEW d \in DSNs, Reconfigure(d)
      PROVE  Asked'
  BY <1>11 DEF Reconfigure
<1>12. ASSUME UNCHANGED poolVars
      PROVE  Asked'
  BY <1>12 DEF poolVars
<1> HIDE DEF PoolInv, PoolTypeOK, Held, Asked
<1>13. ASSUME NEW h \in Handlers, Work(h) PROVE Asked'
  BY <1>13, <1>3, <1>4, <1>5, <1>6, <1>7 DEF Work
<1> QED
  BY <1>1, <1>2, <1>13, <1>8, <1>9, <1>10, <1>11, <1>12 DEF PoolNext

\* Connections stay finitely many.
LEMMA CountStep == PoolInv /\ [PoolNext]_poolVars => Countable'
<1> SUFFICES ASSUME PoolInv, [PoolNext]_poolVars PROVE Countable'
  OBVIOUS
<1> USE PoolAssumption
    DEF PoolInv, PoolTypeOK, Countable
<1>1. ASSUME NEW h \in Handlers, ReadConfig(h)
     PROVE  Countable'
  BY <1>1 DEF ReadConfig
<1>2. ASSUME NEW h \in Handlers, ReusePool(h)
     PROVE  Countable'
  BY <1>2 DEF ReusePool, Reuse
<1>3. ASSUME NEW h \in Handlers, TakeConn(h)
     PROVE  Countable'
  <2>1. PICK p \in Pools : /\ p \in given[h] /\ Free(p)
                          /\ conns' = [conns EXCEPT ![p] = @ \cup {<<h, 1>>}]
    BY <1>3 DEF TakeConn
  <2>2. /\ conns' \in [Pools -> SUBSET (Handlers \X {1, 2})]
        /\ \A q \in Pools : IsFiniteSet(conns'[q]) /\ Cardinality(conns'[q]) <= MaxOpenConns
        /\ \A q \in Pools : conns'[q] \in {conns[q], conns[q] \cup {<<h, 1>>}}
        /\ \A q \in Pools \ {p} : conns'[q] = conns[q]
    BY <2>1, Taken DEF Countable
  <2> HIDE DEF PoolTypeOK, PoolInv
  <2> QED
    BY <2>2
<1>4. ASSUME NEW h \in Handlers, TakeSecond(h)
     PROVE  Countable'
  <2>1. PICK p \in Pools : /\ p \in given[h] /\ Free(p)
                          /\ conns' = [conns EXCEPT ![p] = @ \cup {<<h, 2>>}]
    BY <1>4 DEF TakeSecond
  <2>2. /\ conns' \in [Pools -> SUBSET (Handlers \X {1, 2})]
        /\ \A q \in Pools : IsFiniteSet(conns'[q]) /\ Cardinality(conns'[q]) <= MaxOpenConns
        /\ \A q \in Pools : conns'[q] \in {conns[q], conns[q] \cup {<<h, 2>>}}
        /\ \A q \in Pools \ {p} : conns'[q] = conns[q]
    BY <2>1, Taken DEF Countable
  <2> HIDE DEF PoolTypeOK, PoolInv
  <2> QED
    BY <2>2
<1>5. ASSUME NEW h \in Handlers, UseClosed(h)
     PROVE  Countable'
  BY <1>5, GiveBack DEF UseClosed, Usable
<1>6. ASSUME NEW h \in Handlers, Finish(h)
     PROVE  Countable'
  BY <1>6, GiveBack DEF Finish, Released
<1>7. ASSUME NEW h \in Handlers, CloseGiven(h)
     PROVE  Countable'
  BY <1>7 DEF CloseGiven
<1>8. ASSUME NEW h \in Handlers, Again(h)
     PROVE  Countable'
  BY <1>8 DEF Again
<1>9. ASSUME NEW h \in Handlers, NEW n \in Pools, OpenPool(h, n)
     PROVE  Countable'
  BY <1>9 DEF OpenPool, Reuse, Retired
<1>10. ASSUME NEW p \in Pools, Retire(p)
      PROVE  Countable'
  BY <1>10 DEF Retire
<1>11. ASSUME NEW d \in DSNs, Reconfigure(d)
      PROVE  Countable'
  BY <1>11 DEF Reconfigure
<1>12. ASSUME UNCHANGED poolVars
      PROVE  Countable'
  BY <1>12 DEF poolVars
<1> HIDE DEF PoolInv, PoolTypeOK, Countable
<1>13. ASSUME NEW h \in Handlers, Work(h) PROVE Countable'
  BY <1>13, <1>3, <1>4, <1>5, <1>6, <1>7 DEF Work
<1> QED
  BY <1>1, <1>2, <1>13, <1>8, <1>9, <1>10, <1>11, <1>12 DEF PoolNext

--------------------------------------------------------------------------------
(* The pool: theorems *)

\* The conjunction is an invariant.
THEOREM PoolInvInvariant == PoolSpec => []PoolInv
<1>1. PoolInv /\ [PoolNext]_poolVars => PoolInv'
  BY PoolTypeStep, CurrentStep, HeldStep, AskedStep, CountStep DEF PoolInv
<1> QED
  BY PoolInitInv, <1>1, PTL DEF PoolSpec

\* Every variable keeps its type; no pool has more connections in use than it may open.
THEOREM PoolTypeCorrect == PoolSpec => []PoolTypeOK
<1>1. PoolInv => PoolTypeOK
  BY DEF PoolInv
<1> QED
  BY PoolInvInvariant, <1>1, PTL

\* However requests that read the old and the new configuration overlap, the pool that
\* DB() hands out has not been retired (dbPoolFor).
THEOREM HandedOutOpen == PoolSpec => []CurrentPoolOpen
<1>1. PoolInv => CurrentPoolOpen
  BY DEF PoolInv, Current, CurrentPoolOpen
<1> QED
  BY PoolInvInvariant, <1>1, PTL

\* A full pool in which nobody can go on with what he has is jammed by settlements that
\* wait for their second connection, one for each of its connections
\* (agent_panel_payment.go:872): no other use of the pool can bring it to a stand.
THEOREM StallsOnlyJammed == PoolSpec => []WaitsForSomeone
<1>1. PoolInv => WaitsForSomeone
  <2> SUFFICES ASSUME PoolInv, NEW p \in Pools, Usable(p), ~Free(p),
                      \A h \in Handlers : conns[p] \cap ({h} \X {1, 2}) # {}
                        => pc[h] # IF h \in Nested THEN "nested" ELSE "working"
               PROVE  Jammed(p)
    BY DEF WaitsForSomeone
  <2> DEFINE W == WaitingNested(p)
  <2> DEFINE f == [c \in conns[p] |-> c[1]]
  <2>1. conns[p] \subseteq Handlers \X {1, 2} /\ IsFiniteSet(conns[p])
    BY DEF PoolInv, PoolTypeOK, Countable
  <2>2. ASSUME NEW h \in Handlers, NEW i \in {1, 2}, <<h, i>> \in conns[p]
        PROVE  i = 1 /\ h \in W
    <3>1. pc[h] \in {"working", "nested"}
      BY <2>2 DEF PoolInv, Held
    <3>2. conns[p] \cap ({h} \X {1, 2}) # {}
      BY <2>2
    <3>3. IF pc[h] = "nested" THEN h \in Nested ELSE i = 1
      BY <2>2 DEF PoolInv, Asked
    <3>4. pc[h] # IF h \in Nested THEN "nested" ELSE "working"
      BY <3>2
    <3>5. pc[h] = "working" /\ h \in Nested /\ i = 1
      BY <3>1, <3>3, <3>4
    <3> QED
      BY <2>2, <3>5 DEF WaitingNested
  <2>3. f \in Bijection(conns[p], W)
    <3>0. \A c \in conns[p] : c = <<c[1], 1>> /\ c[1] \in W
      <4> SUFFICES ASSUME NEW c \in conns[p] PROVE c = <<c[1], 1>> /\ c[1] \in W
        OBVIOUS
      <4> HIDE DEF W
      <4>1. PICK h \in Handlers, i \in {1, 2} : c = <<h, i>>
        BY <2>1
      <4> QED
        BY <2>2, <4>1
    <3>1. f \in [conns[p] -> W]
      <4> HIDE DEF W
      <4> QED
        BY <3>0
    <3>2. ASSUME NEW c \in conns[p], NEW d \in conns[p], f[c] = f[d]
          PROVE  c = d
      BY <3>0, <3>2
    <3>3. ASSUME NEW h \in W PROVE \E c \in conns[p] : f[c] = h
      <4>1. <<h, 1>> \in conns[p] /\ f[<<h, 1>>] = h
        BY DEF WaitingNested
      <4> QED
        BY <4>1
    <3> HIDE DEF f, W
    <3>4. f \in Injection(conns[p], W)
      BY <3>1, <3>2, Fun_IsInj
    <3>5. f \in Surjection(conns[p], W)
      BY <3>1, <3>3, Fun_IsSurj
    <3> QED
      BY <3>4, <3>5 DEF Bijection
  <2>4. Cardinality(W) = Cardinality(conns[p])
    <3> HIDE DEF f, W
    <3> QED
      BY <2>1, <2>3, FS_Bijection DEF ExistsBijection
  <2>5. Cardinality(conns[p]) \in Nat
    BY <2>1, FS_CardinalityType
  <2>6. Cardinality(conns[p]) >= MaxOpenConns
    BY <2>5, PoolAssumption DEF Free
  <2> QED
    BY <2>4, <2>6 DEF Jammed
<1> QED
  BY PoolInvInvariant, <1>1, PTL

\* A request that is answered or failed holds no connection, on whatever pool it was.
THEOREM NothingLeaks ==
  PoolSpec => [](\A h \in Handlers : pc[h] \in {"answered", "failed"}
               => \A p \in Pools, i \in {1, 2} : <<h, i>> \notin conns[p])
<1>1. PoolInv => \A h \in Handlers : pc[h] \in {"answered", "failed"}
               => \A p \in Pools, i \in {1, 2} : <<h, i>> \notin conns[p]
  BY DEF PoolInv, Held
<1> QED
  BY PoolInvInvariant, <1>1, PTL

================================================================================
