---------------------------- MODULE UpdateApply ----------------------------
(***************************************************************************)
(* The in-place replacement transaction of the updater: the helper process *)
(* that exchanges the installation (native/opennow-core/src/update_apply), *)
(* the core that launches it, the application being replaced and the       *)
(* updated application that has to acknowledge its start.                  *)
(*                                                                         *)
(* The kinds AppImage, WindowsPortable and MacBundle are modelled here: the *)
(* ones whose installation the helper moves itself.  Everything the helper *)
(* leaves on disk is durable and every write or rename is one atomic step  *)
(* that may fail before or after it took effect; the helper can die        *)
(* between any two of them, and be run again over what it left.            *)
(***************************************************************************)
EXTENDS Naturals

CONSTANTS
    TreeCheck,   \* owned_tree_is_running: "group" on Unix, "leader" on Windows
    MaxFaults,   \* bound on I/O calls that fail
    MaxCrashes,  \* bound on helper deaths and machine restarts
    MaxRuns,     \* bound on the starts of the helper
    MaxSaves     \* bound on the profile writes of the original application

ASSUME TreeCheckAssumption == TreeCheck \in {"group", "leader"}
ASSUME BoundsAssumption ==
    MaxFaults \in Nat /\ MaxCrashes \in Nat /\ MaxRuns \in Nat /\ MaxSaves \in Nat

VARIABLES
    files,       \* what each of the four paths of the transaction holds
    status,      \* outcome.json: status ...
    restarted,   \* ... and restarted_process
    carried,     \* the profile generation copied into the payload
    ack,         \* ack.json, "stale" once the process it names has ended
    pc,          \* where the helper is; "idle" when none holds apply.lock
    oldApp,      \* plan.processes[0], the application being replaced
    oldCore,     \* plan.processes[1], its core
    newApp,      \* the process tree of the updated application
    previousApp, \* the previous application, once restart_previous started it
    launcher,    \* launch_prepared_update, running inside oldCore
    profile,     \* generation of the user data kept in a portable installation
    faults, crashes, runs

disk  == <<files, status, restarted, carried>>
procs == <<oldApp, oldCore, newApp, previousApp, launcher>>
bounds == <<faults, crashes, runs>>
vars  == <<disk, ack, pc, procs, profile, bounds>>

Paths    == {"target", "previous", "payload", "failed"}
Contents == {"absent", "old", "new", "partial"}
Statuses == {"Prepared", "WaitingForExit", "BackingUp", "Installing",
             "AwaitingStartup", "Completed", "RolledBack", "Failed"}

\* Statuses over which run_helper returns at once.
Terminal == {"Completed", "RolledBack"}
\* Statuses that run_helper's error arm does not overwrite.
Settled == {"RolledBack", "Failed"}
\* Statuses an interrupted replacement is recovered from.
Interrupted == {"BackingUp", "Installing", "AwaitingStartup", "Failed"}

Labels == {"idle", "locked", "apply", "extract", "preserve", "announce", "wait",
           "refresh", "refreshed", "refreshFailed", "backup", "moveOld",
           "installing", "moveNew", "awaiting", "spawn", "identify", "poll",
           "stop", "recordRunning", "rollback", "rollbackMove", "rollbackFailed",
           "relaunch", "rolledBack", "recover", "recoverMove", "recoverRelaunch",
           "recovered", "complete", "cleanup", "cleanupRest", "deferred", "record"}

Running(p) == p = "up"
TreeAlive == newApp \in {"running", "descendants"}

---------------------------------------------------------------------------
(* One call of the operating system that may fail. *)

Fault == faults < MaxFaults /\ faults' = faults + 1

\* write_outcome: atomic_json renames a synced temporary over outcome.json and
\* then syncs the directory, so that it can fail with the new text in place.
Write(s, r, next, err) ==
    /\ UNCHANGED <<files, carried>>
    /\ \/ /\ status' = s /\ restarted' = r
          /\ pc' = next
          /\ UNCHANGED faults
       \/ /\ Fault
          /\ pc' = err
          /\ \/ status' = s /\ restarted' = r
             \/ UNCHANGED <<status, restarted>>

Exists(path) == files[path] # "absent"
Moved(src, dst) == [files EXCEPT ![dst] = files[src], ![src] = "absent"]

\* rename_synced: refuses an existing destination; the rename itself is atomic,
\* and a failing directory sync reports an error after the move.
Rename(src, dst, next, err) ==
    /\ UNCHANGED <<status, restarted, carried>>
    /\ \/ /\ Exists(src) /\ ~Exists(dst)
          /\ files' = Moved(src, dst)
          /\ pc' = next
          /\ UNCHANGED faults
       \/ /\ ~Exists(src) \/ Exists(dst)
          /\ pc' = err
          /\ UNCHANGED <<files, faults>>
       \/ /\ Fault
          /\ pc' = err
          /\ \/ UNCHANGED files
             \/ Exists(src) /\ ~Exists(dst) /\ files' = Moved(src, dst)

---------------------------------------------------------------------------
(* run_helper and the first decisions of apply. *)

\* A helper started again over what an earlier one left (the launcher waits for
\* its own child, so nobody starts a second one while it does).
RunHelper ==
    /\ pc = "idle"
    /\ launcher \in {"ready", "failed", "gone"}
    /\ runs < MaxRuns
    /\ runs' = runs + 1
    /\ pc' = "locked"
    /\ UNCHANGED <<disk, ack, procs, profile, faults, crashes>>

\* The lock is held: a finished transaction is left alone, a plan that does not
\* validate ends in the error arm, an outcome that cannot be read ends the helper.
Locked ==
    /\ pc = "locked"
    /\ \/ status \in Terminal /\ pc' = "idle" /\ UNCHANGED faults
       \/ status \notin Terminal /\ pc' = "apply" /\ UNCHANGED faults
       \/ status \notin Terminal /\ Fault /\ pc' \in {"record", "idle"}
    /\ UNCHANGED <<disk, ack, procs, profile, crashes, runs>>

\* No process identity was recorded for what may have been started.
UnsafeToRollBack ==
    /\ restarted = "none"
    /\ \/ status = "AwaitingStartup"
       \/ status = "Failed" /\ Exists("previous")

\* Mutated: the leader of the tree is asked for on every platform.
OwnedTreeRunning_LeaderOnly == restarted = "app" /\ newApp = "running"

\* process::owned_tree_is_running of the recorded identity.
OwnedTreeRunning ==
    /\ restarted = "app"
    /\ IF TreeCheck = "group" THEN TreeAlive ELSE newApp = "running"

Apply ==
    /\ pc = "apply"
    /\ \/ status = "Prepared" /\ pc' = "extract" /\ UNCHANGED faults
       \/ /\ status \in Interrupted
          /\ ~UnsafeToRollBack
          /\ \/ ~OwnedTreeRunning /\ pc' = "recover" /\ UNCHANGED faults
             \/ OwnedTreeRunning /\ pc' = "record" /\ UNCHANGED faults
             \/ restarted = "app" /\ Fault /\ pc' = "record"
       \/ /\ status \in Interrupted => UnsafeToRollBack
          /\ status # "Prepared"
          /\ pc' = "record" /\ UNCHANGED faults
    /\ UNCHANGED <<disk, ack, procs, profile, crashes, runs>>

---------------------------------------------------------------------------
(* apply over a prepared transaction, up to the replacement. *)

\* prepare_payload creates its destination and refuses one that exists ...
Extract ==
    /\ pc = "extract"
    /\ \/ /\ ~Exists("payload")
          /\ files' = [files EXCEPT !["payload"] = "partial"]
          /\ pc' = "preserve"
       \/ Exists("payload") /\ pc' = "record" /\ UNCHANGED files
    /\ UNCHANGED <<status, restarted, carried, ack, procs, profile, bounds>>

\* ... and fills it; then the portable data is copied beside it.
Preserve ==
    /\ pc = "preserve"
    /\ \/ /\ files' = [files EXCEPT !["payload"] = "new"]
          /\ carried' = profile
          /\ pc' = "announce"
          /\ UNCHANGED faults
       \/ Fault /\ pc' = "record" /\ UNCHANGED <<files, carried>>
    /\ UNCHANGED <<status, restarted, ack, procs, profile, crashes, runs>>

Announce ==
    /\ pc = "announce"
    /\ Write("WaitingForExit", "none", "wait", "record")
    /\ UNCHANGED <<ack, procs, profile, crashes, runs>>

\* Mutated: the core is not waited for.
WaitForExit_ApplicationOnly ==
    /\ pc = "wait"
    /\ pc' = IF Running(oldApp) THEN "record" ELSE "refresh"
    /\ UNCHANGED <<disk, ack, procs, profile, bounds>>

\* Mutated: the deadline lets the replacement go on.
WaitForExit_GoesOn ==
    /\ pc = "wait"
    /\ pc' = "refresh"
    /\ UNCHANGED <<disk, ack, procs, profile, bounds>>

\* Mutated: the copies of the running application's data are kept.
WaitForExit_KeepsCopies ==
    /\ pc = "wait"
    /\ pc' = IF Running(oldApp) \/ Running(oldCore) THEN "record" ELSE "backup"
    /\ UNCHANGED <<disk, ack, procs, profile, bounds>>

\* process::wait_for_exit over both identities of the plan, for 90 seconds.
WaitForExit ==
    /\ pc = "wait"
    /\ \/ ~Running(oldApp) /\ ~Running(oldCore) /\ pc' = "refresh"
       \/ (Running(oldApp) \/ Running(oldCore)) /\ pc' = "record"
    /\ UNCHANGED <<disk, ack, procs, profile, bounds>>

\* The copies made while the application still ran are removed and made again.
Refresh ==
    /\ pc = "refresh"
    /\ files' = [files EXCEPT !["payload"] = "partial"]
    /\ pc' = "refreshed"
    /\ UNCHANGED <<status, restarted, carried, ack, procs, profile, bounds>>

Refreshed ==
    /\ pc = "refreshed"
    /\ \/ /\ files' = [files EXCEPT !["payload"] = "new"]
          /\ carried' = profile
          /\ pc' = "backup"
          /\ UNCHANGED faults
       \/ Fault /\ pc' = "refreshFailed" /\ UNCHANGED <<files, carried>>
    /\ UNCHANGED <<status, restarted, ack, procs, profile, crashes, runs>>

\* restart_previous: spawn whatever the target holds; its failure is only told.
Relaunched(next) ==
    /\ pc' = next
    /\ previousApp' \in (IF Exists("target") THEN {previousApp, "up"}
                                             ELSE {previousApp})

RefreshFailed ==
    /\ pc = "refreshFailed"
    /\ Relaunched("record")
    /\ UNCHANGED <<disk, ack, oldApp, oldCore, newApp, launcher, profile, bounds>>

---------------------------------------------------------------------------
(* replace_and_restart *)

BackUp ==
    /\ pc = "backup"
    /\ Write("BackingUp", "none", "moveOld", "record")
    /\ UNCHANGED <<ack, procs, profile, crashes, runs>>

MoveOld ==
    /\ pc = "moveOld"
    /\ Rename("target", "previous", "installing", "rollback")
    /\ UNCHANGED <<ack, procs, profile, crashes, runs>>

Installing ==
    /\ pc = "installing"
    /\ Write("Installing", "none", "moveNew", "rollback")
    /\ UNCHANGED <<ack, procs, profile, crashes, runs>>

MoveNew ==
    /\ pc = "moveNew"
    /\ Rename("payload", "target", "awaiting", "rollback")
    /\ UNCHANGED <<ack, procs, profile, crashes, runs>>

\* restart_and_acknowledge: the intent first, then the process, then its identity.
Awaiting ==
    /\ pc = "awaiting"
    /\ Write("AwaitingStartup", "none", "spawn", "rollback")
    /\ UNCHANGED <<ack, procs, profile, crashes, runs>>

\* What may be left of a process tree in some state a moment later.
Later(tree) ==
    CASE tree = "running" -> {"running", "descendants", "dead"}
      [] tree = "descendants" -> {"descendants", "dead"}
      [] OTHER -> {tree}

\* OwnedApplication::start; failed_start cleans up a tree it cannot own.
Spawn ==
    /\ pc = "spawn"
    /\ \/ newApp' = "running" /\ pc' = "identify" /\ UNCHANGED faults
       \/ UNCHANGED newApp /\ pc' = "rollback" /\ UNCHANGED faults
       \/ Fault /\ newApp' = "dead" /\ pc' = "rollback"
       \/ Fault /\ newApp' \in Later("running") /\ pc' = "record"
    /\ UNCHANGED <<disk, ack, oldApp, oldCore, previousApp, launcher, profile,
                   crashes, runs>>

\* Mutated: a started process counts as a success.
Identify_NoPolling ==
    /\ pc = "identify"
    /\ Write("AwaitingStartup", "app", "complete", "stop")
    /\ UNCHANGED <<ack, procs, profile, crashes, runs>>

Identify ==
    /\ pc = "identify"
    /\ Write("AwaitingStartup", "app", "poll", "stop")
    /\ UNCHANGED <<ack, procs, profile, crashes, runs>>

\* Mutated: the deadline counts as a success.
Poll_DeadlineSucceeds ==
    /\ pc = "poll"
    /\ pc' = IF newApp = "running" THEN "complete" ELSE "stop"
    /\ UNCHANGED <<disk, ack, procs, profile, bounds>>

\* Mutated: no deadline.
Poll_Forever ==
    /\ pc = "poll"
    /\ newApp # "running" \/ ack # "absent"
    /\ pc' = IF newApp = "running" /\ ack = "valid" THEN "complete" ELSE "stop"
    /\ UNCHANGED <<disk, ack, procs, profile, bounds>>

\* One decisive turn of the polling loop: the exit of the child is looked at
\* first, then the acknowledgement, then the deadline of 90 seconds.
Poll ==
    /\ pc = "poll"
    /\ \/ pc' = (IF newApp = "running" /\ ack = "valid" THEN "complete" ELSE "stop")
          /\ UNCHANGED faults
       \/ Fault /\ pc' = "stop"
    /\ UNCHANGED <<disk, ack, procs, profile, crashes, runs>>

\* Mutated: the child is killed and waited for, not its descendants.
Stop_ChildOnly ==
    /\ pc = "stop"
    /\ newApp' \in Later(newApp) \ {"running"}
    /\ pc' = "rollback"
    /\ UNCHANGED <<disk, ack, oldApp, oldCore, previousApp, launcher, profile, bounds>>

\* OwnedApplication::stop kills the whole tree and waits until it is gone.
Stop ==
    /\ pc = "stop"
    /\ \/ newApp' = "dead" /\ pc' = "rollback" /\ UNCHANGED faults
       \/ Fault /\ newApp' \in Later(newApp) /\ pc' = "recordRunning"
    /\ UNCHANGED <<disk, ack, oldApp, oldCore, previousApp, launcher, profile,
                   crashes, runs>>

\* failed_restart: processes may be running, so the transaction only says so.
RecordRunning ==
    /\ pc = "recordRunning"
    /\ Write("Failed", "app", "record", "record")
    /\ UNCHANGED <<ack, procs, profile, crashes, runs>>

Complete ==
    /\ pc = "complete"
    /\ Write("Completed", "none", "cleanup", "record")
    /\ UNCHANGED <<ack, procs, profile, crashes, runs>>

\* cleanup_completed, in its order; removing a directory is not atomic.
Cleanup ==
    /\ pc = "cleanup"
    /\ \/ /\ files["previous"] = "old"
          /\ files' = [files EXCEPT !["previous"] = "partial"]
          /\ UNCHANGED <<pc, faults>>
       \/ /\ files["previous"] # "old"
          /\ files' = [files EXCEPT !["previous"] = "absent"]
          /\ pc' = "cleanupRest"
          /\ UNCHANGED faults
       \/ Fault /\ pc' = "deferred" /\ UNCHANGED files
    /\ UNCHANGED <<status, restarted, carried, ack, procs, profile, crashes, runs>>

CleanupRest ==
    /\ pc = "cleanupRest"
    /\ \/ pc' = "idle" /\ UNCHANGED faults
       \/ Fault /\ pc' = "deferred"
    /\ files' = [files EXCEPT !["payload"] = "absent"]
    /\ UNCHANGED <<status, restarted, carried, ack, procs, profile, crashes, runs>>

Deferred ==
    /\ pc = "deferred"
    /\ Write("Completed", "none", "idle", "record")
    /\ UNCHANGED <<ack, procs, profile, crashes, runs>>

---------------------------------------------------------------------------
(* rollback, from recover_replacement and from apply over an interruption. *)

\* First half: without a backup there is nothing to undo; a target in the way
\* is moved aside.
RollbackStart(ok, move, err) ==
    \/ /\ ~Exists("previous")
       /\ pc' = IF Exists("target") THEN ok ELSE err
       /\ UNCHANGED <<disk, faults>>
    \/ /\ Exists("previous") /\ ~Exists("target")
       /\ pc' = move
       /\ UNCHANGED <<disk, faults>>
    \/ /\ Exists("previous") /\ Exists("target")
       /\ Rename("target", "failed", move, err)

\* Mutated: the previous application is started before its backup is back.
Rollback_RelaunchFirst ==
    /\ pc = "rollback"
    /\ RollbackStart("relaunch", "relaunch", "rollbackFailed")
    /\ UNCHANGED <<ack, procs, profile, crashes, runs>>

Rollback ==
    /\ pc = "rollback"
    /\ RollbackStart("relaunch", "rollbackMove", "rollbackFailed")
    /\ UNCHANGED <<ack, procs, profile, crashes, runs>>

RollbackMove ==
    /\ pc = "rollbackMove"
    /\ Rename("previous", "target", "relaunch", "rollbackFailed")
    /\ UNCHANGED <<ack, procs, profile, crashes, runs>>

RollbackFailed ==
    /\ pc = "rollbackFailed"
    /\ Write("Failed", "none", "record", "record")
    /\ UNCHANGED <<ack, procs, profile, crashes, runs>>

Relaunch ==
    /\ pc = "relaunch"
    /\ Relaunched("rolledBack")
    /\ UNCHANGED <<disk, ack, oldApp, oldCore, newApp, launcher, profile, bounds>>

RolledBack ==
    /\ pc = "rolledBack"
    /\ Write("RolledBack", "none", "record", "record")
    /\ UNCHANGED <<ack, procs, profile, crashes, runs>>

\* Mutated: the result of the rollback is ignored.
Recover_IgnoresResult ==
    /\ pc = "recover"
    /\ RollbackStart("recoverRelaunch", "recoverMove", "recoverRelaunch")
    /\ UNCHANGED <<ack, procs, profile, crashes, runs>>

Recover ==
    /\ pc = "recover"
    /\ RollbackStart("recoverRelaunch", "recoverMove", "record")
    /\ UNCHANGED <<ack, procs, profile, crashes, runs>>

RecoverMove ==
    /\ pc = "recoverMove"
    /\ Rename("previous", "target", "recoverRelaunch", "record")
    /\ UNCHANGED <<ack, procs, profile, crashes, runs>>

RecoverRelaunch ==
    /\ pc = "recoverRelaunch"
    /\ Relaunched("recovered")
    /\ UNCHANGED <<disk, ack, oldApp, oldCore, newApp, launcher, profile, bounds>>

Recovered ==
    /\ pc = "recovered"
    /\ Write("RolledBack", "none", "idle", "record")
    /\ UNCHANGED <<ack, procs, profile, crashes, runs>>

\* The error arm of run_helper: an outcome that does not yet tell the failure
\* becomes Failed and keeps the process identity it had.
Record ==
    /\ pc = "record"
    /\ \/ /\ status \in Settled
          /\ pc' = "idle"
          /\ UNCHANGED <<disk, faults>>
       \/ /\ status \notin Settled
          /\ Write("Failed", restarted, "idle", "idle")
    /\ UNCHANGED <<ack, procs, profile, crashes, runs>>

Helper ==
    \/ Locked \/ Apply
    \/ Extract \/ Preserve \/ Announce \/ WaitForExit \/ Refresh \/ Refreshed
    \/ RefreshFailed
    \/ BackUp \/ MoveOld \/ Installing \/ MoveNew \/ Awaiting \/ Spawn \/ Identify
    \/ Poll \/ Stop \/ RecordRunning
    \/ Complete \/ Cleanup \/ CleanupRest \/ Deferred
    \/ Rollback \/ RollbackMove \/ RollbackFailed \/ Relaunch \/ RolledBack
    \/ Recover \/ RecoverMove \/ RecoverRelaunch \/ Recovered
    \/ Record

---------------------------------------------------------------------------
(* launch_prepared_update, in the core of the running application. *)

Launch ==
    /\ launcher = "none"
    /\ runs < MaxRuns
    /\ \/ /\ runs' = runs + 1
          /\ pc' = "locked"
          /\ launcher' = "waiting"
          /\ UNCHANGED faults
       \/ /\ Fault
          /\ launcher' \in {"failing", "failed"}
          /\ UNCHANGED <<pc, runs>>
    /\ UNCHANGED <<disk, ack, oldApp, oldCore, newApp, previousApp, profile, crashes>>

\* The helper waits for the application, and it does hold its lock.
LaunchReady ==
    /\ launcher = "waiting"
    /\ status = "WaitingForExit"
    /\ pc # "idle"
    /\ launcher' = "ready"
    /\ UNCHANGED <<disk, ack, pc, oldApp, oldCore, newApp, previousApp, profile, bounds>>

\* Mutated: only the deadline is looked at, not the exit of the child.
LaunchAbandon_NoTryWait ==
    /\ launcher = "waiting"
    /\ status # "WaitingForExit"
    /\ pc' = "idle"
    /\ launcher' = "failing"
    /\ UNCHANGED <<disk, ack, oldApp, oldCore, newApp, previousApp, profile, bounds>>

\* The helper is gone, or it is killed after 300 seconds or an unreadable outcome.
LaunchAbandon ==
    /\ launcher = "waiting"
    /\ \/ pc = "idle" /\ UNCHANGED faults
       \/ status # "WaitingForExit" /\ UNCHANGED faults
       \/ Fault
    /\ pc' = "idle"
    /\ launcher' = "failing"
    /\ UNCHANGED <<disk, ack, oldApp, oldCore, newApp, previousApp, profile,
                   crashes, runs>>

LaunchFail ==
    /\ launcher = "failing"
    /\ launcher' = "failed"
    /\ \/ status' = "Failed" /\ restarted' = "none" /\ UNCHANGED faults
       \/ Fault /\ UNCHANGED <<status, restarted>>
    /\ UNCHANGED <<files, carried, ack, pc, oldApp, oldCore, newApp, previousApp,
                   profile, crashes, runs>>

Launcher == Launch \/ LaunchReady \/ LaunchAbandon \/ LaunchFail

---------------------------------------------------------------------------
(* The applications, and the machine under them. *)

Save ==
    /\ Running(oldApp) \/ Running(oldCore)
    /\ profile < MaxSaves
    /\ profile' = profile + 1
    /\ UNCHANGED <<disk, ack, pc, procs, bounds>>

OldAppExits ==
    /\ Running(oldApp)
    /\ oldApp' = "down"
    /\ UNCHANGED <<disk, ack, pc, oldCore, newApp, previousApp, launcher, profile, bounds>>

\* The launcher is a thread of the core and ends with it; the helper does not.
OldCoreExits ==
    /\ Running(oldCore)
    /\ oldCore' = "down"
    /\ launcher' = IF launcher \in {"none", "waiting", "failing"} THEN "gone" ELSE launcher
    /\ UNCHANGED <<disk, ack, pc, oldApp, newApp, previousApp, profile, bounds>>

\* acknowledge_startup_from_env, in the core of the updated application.
Acknowledge ==
    /\ TreeAlive
    /\ ack = "absent"
    /\ ack' = "valid"
    /\ UNCHANGED <<disk, pc, procs, profile, bounds>>

NewAppExits ==
    /\ TreeAlive
    /\ newApp' \in Later(newApp) \ {newApp}
    /\ UNCHANGED <<disk, ack, pc, oldApp, oldCore, previousApp, launcher, profile, bounds>>

\* The process named by the acknowledgement need not be the leader of the tree.
AcknowledgerExits ==
    /\ ack = "valid"
    /\ ack' = "stale"
    /\ UNCHANGED <<disk, pc, procs, profile, bounds>>

Crash == crashes < MaxCrashes /\ crashes' = crashes + 1

HelperCrash ==
    /\ pc # "idle"
    /\ Crash
    /\ pc' = "idle"
    /\ UNCHANGED <<disk, ack, procs, profile, faults, runs>>

\* Nothing survives a restart of the machine but the files.
Reboot ==
    /\ Crash
    /\ pc' = "idle"
    /\ oldApp' = "down" /\ oldCore' = "down" /\ previousApp' = "down"
    /\ newApp' = IF newApp = "none" THEN "none" ELSE "dead"
    /\ ack' = IF ack = "absent" THEN "absent" ELSE "stale"
    /\ launcher' = IF launcher \in {"none", "waiting", "failing"} THEN "gone" ELSE launcher
    /\ UNCHANGED <<disk, profile, faults, runs>>

World ==
    \/ Save \/ OldAppExits \/ OldCoreExits \/ Acknowledge \/ NewAppExits
    \/ AcknowledgerExits \/ HelperCrash \/ Reboot

---------------------------------------------------------------------------
\* prepare_update has verified the package and written plan.json and the
\* outcome Prepared; save_prepared_update has named the transaction.
Init ==
    /\ files = [p \in Paths |-> IF p = "target" THEN "old" ELSE "absent"]
    /\ status = "Prepared" /\ restarted = "none"
    /\ carried = 0 /\ profile = 0
    /\ ack = "absent"
    /\ pc = "idle"
    /\ oldApp = "up" /\ oldCore = "up" /\ newApp = "none" /\ previousApp = "down"
    /\ launcher = "none"
    /\ faults = 0 /\ crashes = 0 /\ runs = 0

Next == RunHelper \/ Helper \/ Launcher \/ World

Spec == Init /\ [][Next]_vars

\* Every loop of the helper and of the launcher has a deadline, so that each of
\* them takes its next step; nobody promises to start a helper again.
FairSpec == Spec /\ WF_vars(Helper) /\ WF_vars(Launcher)

---------------------------------------------------------------------------
(* Properties *)

\* Every variable stays within its type.
TypeOK ==
    /\ files \in [Paths -> Contents]
    /\ status \in Statuses
    /\ restarted \in {"none", "app"}
    /\ carried \in Nat /\ profile \in Nat
    /\ ack \in {"absent", "valid", "stale"}
    /\ pc \in Labels
    /\ oldApp \in {"up", "down"} /\ oldCore \in {"up", "down"}
    /\ newApp \in {"none", "running", "descendants", "dead"}
    /\ previousApp \in {"up", "down"}
    /\ launcher \in {"none", "waiting", "ready", "failing", "failed", "gone"}
    /\ faults \in Nat /\ crashes \in Nat /\ runs \in Nat

\* Whatever fails and whenever the helper dies, a complete old installation
\* exists until the updated application has acknowledged its start: in place, or
\* as the backup in the transaction directory.  Nothing is ever half installed.
OldKeptUntilAcknowledged ==
    /\ \/ files["target"] = "old"
       \/ files["previous"] = "old"
       \/ files["target"] = "new" /\ ack # "absent"
    /\ files["target"] # "partial"

\* Completed is only told of an update that is installed and has acknowledged.
CompletedMeansAcknowledged ==
    status = "Completed" => files["target"] = "new" /\ ack # "absent"

\* While the core still waits for its helper nothing has been replaced, so that
\* the Failed it writes over outcome.json hides no progress of the transaction.
LauncherFailsOnlyUntouched ==
    launcher \in {"none", "waiting", "failing"} =>
        /\ files["target"] = "old" /\ ~Exists("previous")
        /\ status \in {"Prepared", "WaitingForExit", "Failed"}

\* RolledBack is told only when the old installation is back in its place; with a
\* second failing call even the write that corrects it can fail.
RolledBackMeansOld ==
    faults <= 1 /\ status = "RolledBack" => files["target"] = "old" /\ ~Exists("previous")

\* An update that does not start, exits, or never acknowledges always ends in
\* some installation, as long as the helper survives and no I/O call fails.
BadUpdateIsUndone ==
    pc = "idle" /\ faults = 0 /\ crashes = 0 => Exists("target")

\* The installation is taken away, by a rollback or otherwise, only while no
\* process of the updated application is running from it.
NoRollbackUnderRunningTree ==
    [][files["target"] = "new" /\ files'["target"] # "new" => ~TreeAlive]_vars

\* The installation is not moved while the original application or its core runs.
NoReplacementWhileRunning ==
    [][files["target"] = "old" /\ files'["target"] # "old"
         => oldApp = "down" /\ oldCore = "down"]_vars

\* The user data that goes into service with a portable update is the last the
\* original application saved, not the copy taken while it was still running.
PortableDataCurrent ==
    [][files["target"] # "new" /\ files'["target"] = "new" => carried = profile]_vars

\* A helper that dies leaves a transaction another one can finish: the target
\* may be missing, but then apply does not refuse to put the backup back.
MissingTargetIsRecoverable ==
    pc = "idle" /\ faults = 0 /\ ~Exists("target") =>
        status \in Interrupted /\ ~UnsafeToRollBack

---------------------------------------------------------------------------
(* The inductive invariant behind the safety properties.  What it says of the  *)
(* processes of the updated application needs a platform that can ask for a    *)
(* whole process tree.                                                         *)

FilesInv ==
    /\ files["target"] \in {"absent", "old", "new"}
    /\ files["previous"] \in {"absent", "old", "partial"}
    /\ files["payload"] \in {"absent", "partial", "new"}
    /\ OldKeptUntilAcknowledged
    /\ files["previous"] = "partial" =>
          /\ files["target"] = "new" /\ ack # "absent"
          /\ restarted = "none" /\ status \in {"Completed", "Failed"}

StatusInv ==
    /\ CompletedMeansAcknowledged
    /\ status = "Completed" =>
          /\ restarted = "none"
          /\ pc \in {"idle", "locked", "cleanup", "cleanupRest", "deferred", "record"}
    /\ status \in {"Prepared", "WaitingForExit"} =>
          files["target"] = "old" /\ ~Exists("previous")
    /\ status \in {"Prepared", "WaitingForExit", "BackingUp", "Installing"} =>
          newApp = "none" /\ restarted = "none"
    /\ restarted = "app" => newApp # "none"

ProcessInv ==
    /\ TreeCheck = "group" => (TreeAlive => files["target"] = "new")
    /\ Exists("previous") \/ files["target"] # "old" => oldApp = "down" /\ oldCore = "down"
    /\ launcher \in {"none", "waiting", "failing"} => oldCore = "up"
    /\ launcher \in {"none", "failing"} => pc = "idle"
    /\ LauncherFailsOnlyUntouched
    /\ launcher = "none" => status = "Prepared"
    /\ launcher = "waiting" /\ pc \in {"locked", "apply"} => status = "Prepared"
    /\ pc \in {"recover", "recoverMove", "recoverRelaunch", "recovered"} =>
          launcher # "waiting"

\* What holds between one step of the helper and the next.
HelperInv ==
    /\ pc \in {"extract", "preserve", "announce"} => status = "Prepared"
    /\ pc \in {"wait", "refresh", "refreshed", "backup"} => status = "WaitingForExit"
    /\ pc \in {"announce", "wait", "backup", "moveOld", "installing", "moveNew"} =>
          files["payload"] = "new"
    /\ pc \in {"refresh", "refreshed", "refreshFailed", "backup", "moveOld"} =>
          oldApp = "down" /\ oldCore = "down"
    /\ pc \in {"backup", "moveOld", "installing", "moveNew"} => carried = profile
    /\ pc = "moveOld" =>
          /\ status = "BackingUp"
          /\ files["target"] = "old" /\ ~Exists("previous")
    /\ pc \in {"installing", "moveNew"} =>
          /\ status = (IF pc = "installing" THEN "BackingUp" ELSE "Installing")
          /\ files["target"] = "absent" /\ files["previous"] = "old"
    /\ pc = "awaiting" => status = "Installing"
    /\ pc \in {"awaiting", "spawn", "identify", "poll", "stop", "recordRunning",
               "complete"} =>
          files["target"] = "new" /\ files["previous"] = "old"
    /\ pc \in {"spawn", "identify", "poll", "stop", "recordRunning", "complete"} =>
          status = "AwaitingStartup"
    /\ pc = "spawn" => newApp = "none" /\ restarted = "none"
    /\ pc \in {"identify", "poll", "stop", "recordRunning", "complete"} => newApp # "none"
    /\ pc \in {"complete", "cleanup", "cleanupRest", "deferred"} => ack # "absent"
    /\ pc \in {"cleanup", "cleanupRest", "deferred"} => status = "Completed"
    /\ pc = "cleanupRest" => ~Exists("previous")

RollbackInv ==
    /\ pc \in {"rollback", "rollbackMove", "rollbackFailed"} =>
          /\ ~TreeAlive
          /\ status \in {"BackingUp", "Installing", "AwaitingStartup"}
    /\ pc = "rollback" =>
          IF Exists("previous") THEN files["previous"] = "old" /\ files["target"] # "old"
                                ELSE files["target"] = "old"
    /\ pc \in {"rollbackMove", "recoverMove"} =>
          /\ files["target"] = "absent" /\ files["previous"] = "old"
          /\ TreeCheck = "group" => ~TreeAlive
    /\ pc \in {"relaunch", "rolledBack"} =>
          /\ files["target"] = "old" /\ ~Exists("previous")
          /\ status \in {"BackingUp", "Installing", "AwaitingStartup"}
    /\ pc \in {"recover", "recoverMove", "recoverRelaunch", "recovered"} =>
          status \in Interrupted
    /\ pc \in {"recoverRelaunch", "recovered"} => ~Exists("previous")
    /\ pc = "recover" =>
          /\ files["previous"] # "partial"
          /\ TreeCheck = "group" /\ TreeAlive => ~Exists("previous")

IInv == TypeOK /\ FilesInv /\ StatusInv /\ ProcessInv /\ HelperInv /\ RollbackInv

\* The transaction implements what SafeReplacement promises.
Abstract == INSTANCE SafeReplacement WITH
    installed    <- files["target"],
    backup       <- files["previous"] = "old",
    acknowledged <- ack # "absent"

\* Every step of the helper, of the world or of a recovery is a step the
\* abstract replacement allows, or none it can see.
ImplementsSafeReplacement == Abstract!Spec

\* A helper that was started ends, and a launch ends in an answer or with its core.
HelperEnds == pc # "idle" ~> pc = "idle"
LaunchEnds == launcher = "waiting" ~> launcher \in {"ready", "failed", "gone"}

=============================================================================
