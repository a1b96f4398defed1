------------------------- MODULE UpdateApplyProofs -------------------------
(***************************************************************************)
(* Proofs about UpdateApply, for every bound on failures, crashes, runs and *)
(* saves.  IInv is inductive; the safety properties follow from it.         *)
(***************************************************************************)
EXTENDS UpdateApply, TLAPS

\* The invariant holds of a transaction that has just been prepared.
LEMMA InitInv == Init => IInv
BY BoundsAssumption
   DEF Init, IInv, TypeOK, FilesInv, StatusInv, ProcessInv, HelperInv, RollbackInv,
       OldKeptUntilAcknowledged, CompletedMeansAcknowledged, LauncherFailsOnlyUntouched,
       Paths, Contents, Statuses, Labels, Interrupted, Exists, TreeAlive

\* Every step of a running helper keeps the invariant, a failing call included.
LEMMA HelperInductive == IInv /\ Helper => IInv'
<1> SUFFICES ASSUME IInv, Helper PROVE IInv'
  OBVIOUS
<1> USE BoundsAssumption
    DEF IInv, TypeOK, FilesInv, StatusInv, ProcessInv, HelperInv, RollbackInv,
        OldKeptUntilAcknowledged, CompletedMeansAcknowledged, LauncherFailsOnlyUntouched,
        Paths, Contents, Statuses, Labels, Interrupted, Exists, TreeAlive,
        disk, procs, bounds, Fault
<1>1. CASE Locked
  BY <1>1 DEF Locked, Terminal
<1>2. CASE Apply
  BY <1>2 DEF Apply, UnsafeToRollBack, OwnedTreeRunning
<1>3. CASE Extract
  BY <1>3 DEF Extract
<1>4. CASE Preserve
  BY <1>4 DEF Preserve
<1>5. CASE Announce
  BY <1>5 DEF Announce, Write
<1>6. CASE WaitForExit
  BY <1>6 DEF WaitForExit, Running
<1>7. CASE Refresh
  BY <1>7 DEF Refresh
<1>8. CASE Refreshed
  BY <1>8 DEF Refreshed
<1>9. CASE RefreshFailed
  BY <1>9 DEF RefreshFailed, Relaunched
<1>10. CASE BackUp
  BY <1>10 DEF BackUp, Write
<1>11. CASE MoveOld
  BY <1>11 DEF MoveOld, Rename, Moved
<1>12. CASE Installing
  BY <1>12 DEF Installing, Write
<1>13. CASE MoveNew
  BY <1>13 DEF MoveNew, Rename, Moved
<1>14. CASE Awaiting
  BY <1>14 DEF Awaiting, Write
<1>15. CASE Spawn
  BY <1>15 DEF Spawn, Later
<1>16. CASE Identify
  BY <1>16 DEF Identify, Write
<1>17. CASE Poll
  BY <1>17 DEF Poll
<1>18. CASE Stop
  BY <1>18 DEF Stop, Later
<1>19. CASE RecordRunning
  BY <1>19 DEF RecordRunning, Write
<1>20. CASE Complete
  BY <1>20 DEF Complete, Write
<1>21. CASE Cleanup
  BY <1>21 DEF Cleanup
<1>22. CASE CleanupRest
  BY <1>22 DEF CleanupRest
<1>23. CASE Deferred
  BY <1>23 DEF Deferred, Write
<1>24. CASE Rollback
  BY <1>24 DEF Rollback, RollbackStart, Rename, Moved
<1>25. CASE RollbackMove
  BY <1>25 DEF RollbackMove, Rename, Moved
<1>26. CASE RollbackFailed
  BY <1>26 DEF RollbackFailed, Write
<1>27. CASE Relaunch
  BY <1>27 DEF Relaunch, Relaunched
<1>28. CASE RolledBack
  BY <1>28 DEF RolledBack, Write
<1>29. CASE Recover
  BY <1>29 DEF Recover, RollbackStart, Rename, Moved
<1>30. CASE RecoverMove
  BY <1>30 DEF RecoverMove, Rename, Moved
<1>31. CASE RecoverRelaunch
  BY <1>31 DEF RecoverRelaunch, Relaunched
<1>32. CASE Recovered
  BY <1>32 DEF Recovered, Write
<1>33. CASE Record
  BY <1>33 DEF Record, Write, Settled
<1>. QED
  BY <1>1, <1>2, <1>3, <1>4, <1>5, <1>6, <1>7, <1>8, <1>9, <1>10, <1>11, <1>12,
     <1>13, <1>14, <1>15, <1>16, <1>17, <1>18, <1>19, <1>20, <1>21, <1>22, <1>23,
     <1>24, <1>25, <1>26, <1>27, <1>28, <1>29, <1>30, <1>31, <1>32, <1>33 DEF
     Helper

\* So does every step of the core that launched it.
LEMMA LauncherInductive == IInv /\ Launcher => IInv'
<1> SUFFICES ASSUME IInv, Launcher PROVE IInv'
  OBVIOUS
<1> USE BoundsAssumption
    DEF IInv, TypeOK, FilesInv, StatusInv, ProcessInv, HelperInv, RollbackInv,
        OldKeptUntilAcknowledged, CompletedMeansAcknowledged, LauncherFailsOnlyUntouched,
        Paths, Contents, Statuses, Labels, Interrupted, Exists, TreeAlive,
        disk, procs, bounds, Fault
<1>1. CASE Launch
  BY <1>1 DEF Launch
<1>2. CASE LaunchReady
  BY <1>2 DEF LaunchReady
<1>3. CASE LaunchAbandon
  BY <1>3 DEF LaunchAbandon
<1>4. CASE LaunchFail
  BY <1>4 DEF LaunchFail
<1>. QED
  BY <1>1, <1>2, <1>3, <1>4 DEF Launcher

\* So do the applications, the death of the helper and a restart of the machine.
LEMMA WorldInductive == IInv /\ World => IInv'
<1> SUFFICES ASSUME IInv, World PROVE IInv'
  OBVIOUS
<1> USE BoundsAssumption
    DEF IInv, TypeOK, FilesInv, StatusInv, ProcessInv, HelperInv, RollbackInv,
        OldKeptUntilAcknowledged, CompletedMeansAcknowledged, LauncherFailsOnlyUntouched,
        Paths, Contents, Statuses, Labels, Interrupted, Exists, TreeAlive,
        disk, procs, bounds, Fault
<1>1. CASE Save
  BY <1>1 DEF Save, Running
<1>2. CASE OldAppExits
  BY <1>2 DEF OldAppExits, Running
<1>3. CASE OldCoreExits
  BY <1>3 DEF OldCoreExits, Running
<1>4. CASE Acknowledge
  BY <1>4 DEF Acknowledge
<1>5. CASE NewAppExits
  BY <1>5 DEF NewAppExits, Later
<1>6. CASE AcknowledgerExits
  BY <1>6 DEF AcknowledgerExits
<1>7. CASE HelperCrash
  BY <1>7 DEF HelperCrash, Crash
<1>8. CASE Reboot
  BY <1>8 DEF Reboot, Crash
<1>. QED
  BY <1>1, <1>2, <1>3, <1>4, <1>5, <1>6, <1>7, <1>8 DEF World

\* The invariant is inductive.
LEMMA StepInv == IInv /\ [Next]_vars => IInv'
<1> SUFFICES ASSUME IInv, [Next]_vars PROVE IInv'
  OBVIOUS
<1> USE DEF IInv, TypeOK, FilesInv, StatusInv, ProcessInv, HelperInv, RollbackInv,
        OldKeptUntilAcknowledged, CompletedMeansAcknowledged, LauncherFailsOnlyUntouched,
        Exists, TreeAlive, disk, procs, bounds
<1>1. CASE RunHelper
  BY <1>1, BoundsAssumption DEF RunHelper, Labels, Interrupted
<1>2. CASE Helper
  BY <1>2, HelperInductive
<1>3. CASE Launcher
  BY <1>3, LauncherInductive
<1>4. CASE World
  BY <1>4, WorldInductive
<1>5. CASE UNCHANGED vars
  BY <1>5 DEF vars
<1>. QED
  BY <1>1, <1>2, <1>3, <1>4, <1>5 DEF Next

\* IInv holds in every reachable state.
THEOREM Invariance == Spec => []IInv
BY InitInv, StepInv, PTL DEF Spec

\* Every variable stays within its type.
THEOREM TypeCorrect == Spec => []TypeOK
<1>1. IInv => TypeOK
  BY DEF IInv
<1>. QED
  BY <1>1, Invariance, PTL

\* A complete old installation survives every failure and every crash, at any
\* step, until the updated application has acknowledged its start.
THEOREM OldKept == Spec => []OldKeptUntilAcknowledged
<1>1. IInv => OldKeptUntilAcknowledged
  BY DEF IInv, FilesInv
<1>. QED
  BY <1>1, Invariance, PTL

\* outcome.json says Completed only of an installed, acknowledged update.
THEOREM CompletedTruthful == Spec => []CompletedMeansAcknowledged
<1>1. IInv => CompletedMeansAcknowledged
  BY DEF IInv, StatusInv
<1>. QED
  BY <1>1, Invariance, PTL

\* The launching core gives up, and writes Failed, only over an untouched
\* installation.
THEOREM LauncherHarmless == Spec => []LauncherFailsOnlyUntouched
<1>1. IInv => LauncherFailsOnlyUntouched
  BY DEF IInv, ProcessInv
<1>. QED
  BY <1>1, Invariance, PTL

\* Only six steps of the helper change what is in place of the installation.
LEMMA TargetChanges ==
    ASSUME IInv, Next, files'["target"] # files["target"]
    PROVE  MoveOld \/ MoveNew \/ Rollback \/ RollbackMove \/ Recover \/ RecoverMove
<1> USE DEF IInv, TypeOK, Paths, disk
<1>1. CASE RunHelper
  BY <1>1 DEF RunHelper
<1>2. CASE Helper
  BY <1>2 DEF Helper, Locked, Apply, Extract, Preserve, Announce, WaitForExit, Refresh,
     Refreshed, RefreshFailed, BackUp, Installing, Awaiting, Spawn, Identify, Poll,
     Stop, RecordRunning, Complete, Cleanup, CleanupRest, Deferred, RollbackFailed,
     Relaunch, RolledBack, RecoverRelaunch, Recovered, Record, Write
<1>3. CASE Launcher
  BY <1>3 DEF Launcher, Launch, LaunchReady, LaunchAbandon, LaunchFail
<1>4. CASE World
  BY <1>4 DEF World, Save, OldAppExits, OldCoreExits, Acknowledge, NewAppExits,
     AcknowledgerExits, HelperCrash, Reboot
<1>. QED
  BY <1>1, <1>2, <1>3, <1>4 DEF Next

\* The original installation is moved only after both of its processes ended.
THEOREM ReplacementWaits == Spec => NoReplacementWhileRunning
<1>1. IInv /\ [Next]_vars =>
        [files["target"] = "old" /\ files'["target"] # "old"
           => oldApp = "down" /\ oldCore = "down"]_vars
  <2> SUFFICES ASSUME IInv, Next, files["target"] = "old", files'["target"] # "old"
               PROVE  oldApp = "down" /\ oldCore = "down"
    OBVIOUS
  <2>1. MoveOld \/ MoveNew \/ Rollback \/ RollbackMove \/ Recover \/ RecoverMove
    BY TargetChanges
  <2>2. CASE MoveOld
    BY <2>2 DEF MoveOld, IInv, HelperInv
  <2>3. CASE MoveNew \/ RollbackMove \/ RecoverMove
    BY <2>3 DEF MoveNew, RollbackMove, RecoverMove, IInv, HelperInv, RollbackInv
  <2>4. CASE Rollback \/ Recover
    BY <2>4 DEF Rollback, Recover, RollbackStart, disk, IInv, ProcessInv, Exists
  <2>. QED
    BY <2>1, <2>2, <2>3, <2>4
<1>. QED
  BY <1>1, Invariance, PTL DEF Spec, NoReplacementWhileRunning

\* The data that goes into service with the update is the last that was saved.
THEOREM DataCurrent == Spec => PortableDataCurrent
<1>1. IInv /\ [Next]_vars =>
        [files["target"] # "new" /\ files'["target"] = "new" => carried = profile]_vars
  <2> SUFFICES ASSUME IInv, Next, files["target"] # "new", files'["target"] = "new"
               PROVE  carried = profile
    OBVIOUS
  <2>1. MoveOld \/ MoveNew \/ Rollback \/ RollbackMove \/ Recover \/ RecoverMove
    BY TargetChanges
  <2>2. CASE MoveNew
    BY <2>2 DEF MoveNew, IInv, HelperInv
  <2>3. CASE MoveOld \/ RollbackMove \/ RecoverMove
    BY <2>3 DEF MoveOld, RollbackMove, RecoverMove, Rename, Moved, IInv, TypeOK, Paths,
       HelperInv, RollbackInv
  <2>4. CASE Rollback \/ Recover
    BY <2>4 DEF Rollback, Recover, RollbackStart, Rename, Moved, disk, IInv, TypeOK, Paths
  <2>. QED
    BY <2>1, <2>2, <2>3, <2>4
<1>. QED
  BY <1>1, Invariance, PTL DEF Spec, PortableDataCurrent

\* Where the helper can ask for a whole process tree, the new installation is
\* only taken away once no process of it is left.
THEOREM NoRollbackUnderTree ==
    ASSUME TreeCheck = "group"
    PROVE  Spec => NoRollbackUnderRunningTree
<1>1. IInv /\ [Next]_vars =>
        [files["target"] = "new" /\ files'["target"] # "new" => ~TreeAlive]_vars
  <2> SUFFICES ASSUME IInv, Next, files["target"] = "new", files'["target"] # "new"
               PROVE  ~TreeAlive
    BY DEF TreeAlive, vars, procs
  <2>1. MoveOld \/ MoveNew \/ Rollback \/ RollbackMove \/ Recover \/ RecoverMove
    BY TargetChanges
  <2>2. CASE MoveOld \/ MoveNew \/ RollbackMove \/ RecoverMove
    BY <2>2 DEF MoveOld, MoveNew, RollbackMove, RecoverMove, IInv, HelperInv, RollbackInv
  <2>3. CASE Rollback
    BY <2>3 DEF Rollback, IInv, RollbackInv
  <2>4. CASE Recover
    BY <2>4, TreeCheck = "group"
    DEF Recover, RollbackStart, disk, IInv, RollbackInv, Exists
  <2>. QED
    BY <2>1, <2>2, <2>3, <2>4
<1>. QED
  BY <1>1, Invariance, PTL DEF Spec, NoRollbackUnderRunningTree

\* The transaction implements the abstract replacement: each of its steps is a
\* step SafeReplacement allows, or leaves what SafeReplacement sees unchanged.
LEMMA StepSimulation ==
    ASSUME TreeCheck = "group", IInv, Next
    PROVE  [Abstract!Next]_(Abstract!vars)
<1> DEFINE Seen == <<files["target"], files["previous"] = "old", ack # "absent">>
<1> USE DEF IInv, TypeOK, Paths, Contents, disk
<1>1. CASE MoveOld
  BY <1>1 DEF MoveOld, Rename, Moved, HelperInv, Exists, Abstract!Next, Abstract!vars,
     Abstract!SetAside
<1>2. CASE MoveNew
  BY <1>2 DEF MoveNew, Rename, Moved, HelperInv, Exists, Abstract!Next, Abstract!vars,
     Abstract!Install
<1>3. CASE Rollback
  BY <1>3 DEF Rollback, RollbackStart, Rename, Moved, RollbackInv, FilesInv, Exists, Abstract!Next,
     Abstract!vars, Abstract!Withdraw
<1>4. CASE Recover
  BY <1>4 DEF Recover, RollbackStart, Rename, Moved, RollbackInv, FilesInv, Exists,
     Abstract!Next, Abstract!vars, Abstract!Withdraw, Abstract!SetAside
<1>5. CASE RollbackMove \/ RecoverMove
  BY <1>5 DEF RollbackMove, RecoverMove, Rename, Moved, RollbackInv, Exists,
     Abstract!Next, Abstract!vars, Abstract!Restore
<1>6. CASE Cleanup
  BY <1>6 DEF Cleanup, HelperInv, StatusInv, CompletedMeansAcknowledged, Abstract!Next,
     Abstract!vars, Abstract!GiveUpOld
<1>7. CASE Acknowledge
  BY <1>7, TreeCheck = "group"
  DEF Acknowledge, ProcessInv, Abstract!Next, Abstract!vars, Abstract!Acknowledge
<1>8. CASE World /\ ~Acknowledge
  <2>1. UNCHANGED Seen
    BY <1>8 DEF World, Save, OldAppExits, OldCoreExits, NewAppExits, AcknowledgerExits,
       HelperCrash, Reboot
  <2>. QED
    BY <2>1 DEF Abstract!vars
<1>9. CASE RunHelper \/ Launcher
  <2>1. UNCHANGED Seen
    BY <1>9 DEF RunHelper, Launcher, Launch, LaunchReady, LaunchAbandon, LaunchFail
  <2>. QED
    BY <2>1 DEF Abstract!vars
<1>10. CASE /\ Helper
            /\ ~(MoveOld \/ MoveNew \/ Rollback \/ Recover \/ RollbackMove
                 \/ RecoverMove \/ Cleanup)
  <2>1. UNCHANGED Seen
    BY <1>10 DEF Helper, Locked, Apply, Extract, Preserve, Announce, WaitForExit, Refresh,
       Refreshed, RefreshFailed, BackUp, Installing, Awaiting, Spawn, Identify, Poll,
       Stop, RecordRunning, Complete, CleanupRest, Deferred, RollbackFailed,
       Relaunch, RolledBack, RecoverRelaunch, Recovered, Record, Write
  <2>. QED
    BY <2>1 DEF Abstract!vars
<1>. QED
  BY <1>1, <1>2, <1>3, <1>4, <1>5, <1>6, <1>7, <1>8, <1>9, <1>10 DEF Next, Helper, World

THEOREM Refinement ==
    ASSUME TreeCheck = "group"
    PROVE  Spec => ImplementsSafeReplacement
<1>1. Init => Abstract!Init
  BY DEF Init, Paths, Abstract!Init
<1>2. IInv /\ [Next]_vars => [Abstract!Next]_(Abstract!vars)
  <2>1. ASSUME IInv, Next PROVE [Abstract!Next]_(Abstract!vars)
    BY <2>1, StepSimulation
  <2>2. ASSUME UNCHANGED vars PROVE [Abstract!Next]_(Abstract!vars)
    BY <2>2 DEF vars, disk, Abstract!vars
  <2>. QED
    BY <2>1, <2>2
<1>. QED
  BY <1>1, <1>2, Invariance, PTL DEF Spec, ImplementsSafeReplacement, Abstract!Spec

\* With few failures: an installation is missing only while the helper is about
\* to put one there, and an update whose backup is gone is told as completed.
FewFaultsInv ==
    /\ faults = 0 /\ crashes = 0 /\ ~Exists("target") =>
          pc \in {"installing", "moveNew", "rollbackMove", "recoverMove"}
    /\ pc = "deferred" => faults > 0
    /\ pc = "cleanup" => Exists("previous")
    /\ faults <= 1 /\ files["target"] # "old" /\ ~Exists("previous") =>
          status = "Completed" /\ pc \in {"idle", "locked", "cleanupRest", "deferred"}
    /\ RolledBackMeansOld

LEMMA FewFaultsInit == Init => FewFaultsInv
BY DEF Init, FewFaultsInv, RolledBackMeansOld, Paths, Exists

\* A step of the helper keeps it.
LEMMA FewFaultsHelper == IInv /\ FewFaultsInv /\ Helper => FewFaultsInv'
<1> SUFFICES ASSUME IInv, FewFaultsInv, Helper PROVE FewFaultsInv'
  OBVIOUS
<1> USE BoundsAssumption
    DEF IInv, TypeOK, FilesInv, StatusInv, HelperInv, RollbackInv, FewFaultsInv,
        RolledBackMeansOld, OldKeptUntilAcknowledged, Paths, Contents, Statuses,
        Labels, Interrupted, Exists, disk, procs, bounds, Fault
<1>1. CASE Locked \/ Apply
  BY <1>1 DEF Locked, Apply, Terminal
<1>2. CASE Extract \/ Preserve \/ Announce \/ WaitForExit
  BY <1>2 DEF Extract, Preserve, Announce, WaitForExit, Write
<1>3. CASE Refresh \/ Refreshed \/ RefreshFailed
  BY <1>3 DEF Refresh, Refreshed, RefreshFailed, Relaunched
<1>4. CASE BackUp \/ Installing \/ Awaiting
  BY <1>4 DEF BackUp, Installing, Awaiting, Write
<1>5. CASE MoveOld
  BY <1>5 DEF MoveOld, Rename, Moved
<1>6. CASE MoveNew
  BY <1>6 DEF MoveNew, Rename, Moved
<1>7. CASE Spawn \/ Poll \/ Stop
  BY <1>7 DEF Spawn, Poll, Stop
<1>8. CASE Identify \/ RecordRunning \/ Complete
  BY <1>8 DEF Identify, RecordRunning, Complete, Write
<1>9. CASE Cleanup \/ CleanupRest
  BY <1>9 DEF Cleanup, CleanupRest
<1>10. CASE Deferred
  BY <1>10 DEF Deferred, Write
<1>11. CASE Rollback
  BY <1>11 DEF Rollback, RollbackStart, Rename, Moved
<1>12. CASE RollbackMove
  BY <1>12 DEF RollbackMove, Rename, Moved
<1>13. CASE Relaunch \/ RecoverRelaunch
  BY <1>13 DEF Relaunch, RecoverRelaunch, Relaunched
<1>14. CASE RollbackFailed \/ RolledBack \/ Recovered
  BY <1>14 DEF RollbackFailed, RolledBack, Recovered, Write
<1>15. CASE Recover
  BY <1>15 DEF Recover, RollbackStart, Rename, Moved
<1>16. CASE RecoverMove
  BY <1>16 DEF RecoverMove, Rename, Moved
<1>17. CASE Record
  BY <1>17 DEF Record, Write, Settled
<1>. QED
  BY <1>1, <1>2, <1>3, <1>4, <1>5, <1>6, <1>7, <1>8, <1>9, <1>10, <1>11, <1>12,
     <1>13, <1>14, <1>15, <1>16, <1>17 DEF Helper

\* So does every other step; only the death of the helper leaves its place.
LEMMA FewFaultsStep == IInv /\ FewFaultsInv /\ [Next]_vars => FewFaultsInv'
<1> SUFFICES ASSUME IInv, FewFaultsInv, [Next]_vars PROVE FewFaultsInv'
  OBVIOUS
<1>1. CASE Helper
  BY <1>1, FewFaultsHelper
<1> USE DEF IInv, TypeOK, FewFaultsInv, RolledBackMeansOld, Exists, disk, procs, bounds, Fault
<1>2. CASE RunHelper
  BY <1>2 DEF RunHelper
<1>3. CASE Launcher
  BY <1>3 DEF Launcher, Launch, LaunchReady, LaunchAbandon, LaunchFail, ProcessInv,
     LauncherFailsOnlyUntouched
<1>4. CASE World
  BY <1>4 DEF World, Save, OldAppExits, OldCoreExits, Acknowledge, NewAppExits,
     AcknowledgerExits, HelperCrash, Reboot, Crash, FilesInv
<1>5. CASE UNCHANGED vars
  BY <1>5 DEF vars
<1>. QED
  BY <1>1, <1>2, <1>3, <1>4, <1>5 DEF Next

\* Whatever the updated application does, the helper leaves an installation
\* behind as long as it survives and none of its calls fails.
THEOREM BadUpdateUndone == Spec => []BadUpdateIsUndone
<1>1. FewFaultsInv => BadUpdateIsUndone
  BY DEF FewFaultsInv, BadUpdateIsUndone
<1>. QED
  BY <1>1, Invariance, FewFaultsInit, FewFaultsStep, PTL DEF Spec

\* With at most one failing call a rollback that is told has happened, however
\* often the helper dies.
THEOREM RollbackTruthful == Spec => []RolledBackMeansOld
<1>1. FewFaultsInv => RolledBackMeansOld
  BY DEF FewFaultsInv
<1>. QED
  BY <1>1, Invariance, FewFaultsInit, FewFaultsStep, PTL DEF Spec

=============================================================================
