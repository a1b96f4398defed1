--------------------------- MODULE ManagedInstall ---------------------------
\* An update by the package manager of the system: the helper that runs the
\* installer and watches it, the records it leaves, and the core of whichever
\* application is started next, which has to find out what has become of it.
EXTENDS Naturals

CONSTANTS MaxReboots,  \* restarts of the system
          MaxCrashes,  \* times the helper is killed
          MaxFaults    \* file accesses and queries that fail
ASSUME ManagedAssumption ==
  MaxReboots \in Nat /\ MaxCrashes \in Nat /\ MaxFaults \in Nat

VARIABLES
  machine,    \* boot, files in place, registered package, files due at the next boot
  installer,  \* the process of the package manager, or how it ended
  disk,       \* outcome.json with its process, install-boot.json, active-apply.json
  pc,         \* where the helper is
  watch,      \* how the helper's watch over the installer ended
  app,        \* the application that runs
  core,       \* State of its updater: status and transaction
  crashes, faults

boundVars == <<crashes, faults>>
vars == <<machine, installer, disk, pc, watch, app, core, boundVars>>

NoBoot == MaxReboots + 1
Managed == {"managed-pending", "reboot-required"}
Codes == {"ok", "restart", "error"}
Versions == {"old", "new"}
NoCore == [status |-> "idle", transaction |-> FALSE]

\* What the wait for the old application leaves, or, of an earlier release, a
\* transaction without a recorded boot.
Init ==
  /\ \/ /\ disk = [outcome |-> "installing", process |-> "none", marker |-> NoBoot, saved |-> TRUE]
        /\ machine = [boot |-> 0, files |-> "old", registered |-> "old", due |-> FALSE]
        /\ pc = "marks" /\ installer = "none" /\ watch = "none"
     \/ /\ disk = [outcome |-> "managed-pending", process |-> "none", marker |-> NoBoot, saved |-> TRUE]
        /\ machine = [boot |-> 0, files |-> "old", registered |-> "old", due |-> FALSE]
        /\ pc = "gone" /\ installer = "runs" /\ watch = "late"
     \/ /\ disk = [outcome |-> "reboot-required", process |-> "none", marker |-> NoBoot, saved |-> TRUE]
        /\ machine = [boot |-> 0, files |-> "old", registered |-> "new", due |-> TRUE]
        /\ pc = "gone" /\ installer = "restart" /\ watch = "seen"
  /\ app = "none" /\ core = NoCore
  /\ crashes = 0 /\ faults = 0

Fault == faults < MaxFaults /\ faults' = faults + 1 /\ UNCHANGED crashes
NoFault == UNCHANGED boundVars

Records(outcome, process) == [disk EXCEPT !.outcome = outcome, !.process = process]
Starts(version) ==
  /\ app' = version
  /\ core' = [status |-> "idle", transaction |-> disk.saved]

-----------------------------------------------------------------------------
\* The package manager. Windows Installer leaves files in use to the next boot.
InstallerEnds ==
  /\ installer = "runs"
  /\ \/ /\ installer' = "ok"
        /\ machine' = [machine EXCEPT !.registered = "new", !.files = "new"]
     \/ /\ installer' = "restart"
        /\ \E files \in Versions :
             machine' = [machine EXCEPT !.registered = "new", !.files = files, !.due = TRUE]
     \/ /\ installer' = "error"
        /\ \E left \in {"old", "broken"} : machine' = [machine EXCEPT !.registered = left]
  /\ UNCHANGED <<disk, pc, watch, app, core, boundVars>>

-----------------------------------------------------------------------------
\* The helper. An error that is returned is recorded in the end.
At(place, next) == pc = place /\ pc' = next
Writes(place, next, outcome, process) ==
  /\ At(place, next)
  /\ disk' = Records(outcome, process)
  /\ NoFault
  /\ UNCHANGED <<machine, installer, watch, app, core>>

\* The boot is recorded before the installer is started.
MarkBoot ==
  /\ At("marks", "spawns")
  /\ disk' = [disk EXCEPT !.marker = machine.boot]
  /\ NoFault
  /\ UNCHANGED <<machine, installer, watch, app, core>>

Spawn ==
  /\ At("spawns", "watches")
  /\ installer' = "runs" /\ watch' = "runs"
  /\ NoFault
  /\ UNCHANGED <<machine, disk, app, core>>

SeesExit ==
  /\ pc = "watches" /\ installer \in Codes
  /\ pc' = installer /\ watch' = "seen"
  /\ NoFault
  /\ UNCHANGED <<machine, installer, disk, app, core>>

\* After fifteen minutes the installer is left to itself.
Deadline ==
  /\ At("watches", "ends") /\ installer = "runs"
  /\ \E process \in {"installer", "none"} : disk' = Records("managed-pending", process)
  /\ watch' = "late"
  /\ NoFault
  /\ UNCHANGED <<machine, installer, app, core>>

RestartNeeded == Writes("restart", "ends", "reboot-required", "none")

\* The old application is started again if its registration is whole.
RestartPrevious ==
  /\ At("error", "records")
  /\ \/ machine.registered = "old" /\ app = "none" /\ Starts(machine.files)
     \/ UNCHANGED <<app, core>>
  /\ NoFault
  /\ UNCHANGED <<machine, installer, disk, watch>>
RecordFailure == Writes("records", "ends", "failed", "none")

Verify ==
  /\ At("ok", "announces") /\ machine.registered = "new"
  /\ NoFault
  /\ UNCHANGED <<machine, installer, disk, watch, app, core>>

Announce == Writes("announces", "starts", "awaiting-startup", "none")

\* An application that runs already takes the new one's place.
StartNew ==
  /\ pc = "starts"
  /\ \/ /\ app = "none" /\ Starts(machine.files)
        /\ pc' = "identifies"
     \/ pc' = "unstarted" /\ UNCHANGED <<app, core>>
  /\ NoFault
  /\ UNCHANGED <<machine, installer, disk, watch>>

Identify == Writes("identifies", "awaits", "awaiting-startup", "application")
Acknowledged == app = "new" /\ Writes("awaits", "cleans", "completed", "none")

NotAcknowledged ==
  /\ At("awaits", "unstarted")
  /\ app' \in {app, "none"}
  /\ NoFault
  /\ UNCHANGED <<machine, installer, disk, watch, core>>
RecordUnstarted == Writes("unstarted", "ends", "failed", "none")
CleanUp ==
  /\ At("cleans", "ends") /\ NoFault
  /\ UNCHANGED <<machine, installer, disk, watch, app, core>>

\* Any step that touches a file or asks the system can fail. An application that
\* was started is stopped, as far as possible.
Starting == {"announces", "starts", "identifies", "awaits"}
StepFails ==
  /\ pc \notin {"error", "ends", "reports", "gone"}
  /\ pc' = IF pc \in Starting THEN "unstarted" ELSE "reports"
  /\ app' \in IF pc \in {"identifies", "awaits"} THEN {app, "none"} ELSE {app}
  /\ watch' = IF pc \in {"watches", "restart"} THEN "lost" ELSE watch
  /\ Fault
  /\ UNCHANGED <<machine, installer, disk, core>>

\* run_helper records the error, unless the outcome says more already.
Reports ==
  /\ At("reports", "ends")
  /\ \/ /\ disk' = IF disk.outcome \in Managed \cup {"failed"} THEN disk
                    ELSE Records("failed", disk.process)
        /\ NoFault
     \/ UNCHANGED disk /\ Fault
  /\ UNCHANGED <<machine, installer, watch, app, core>>

Exit == At("ends", "gone") /\ NoFault /\ UNCHANGED <<machine, installer, disk, watch, app, core>>

HelperStep ==
  \/ MarkBoot \/ Spawn \/ SeesExit \/ Deadline \/ RestartNeeded
  \/ RestartPrevious \/ RecordFailure \/ Verify \/ Announce \/ StartNew
  \/ Identify \/ Acknowledged \/ CleanUp \/ NotAcknowledged \/ RecordUnstarted
  \/ Reports \/ Exit

-----------------------------------------------------------------------------
\* The system goes down, or only the helper does.
Unrecorded == IF disk.outcome = "installing" THEN "lost" ELSE watch

HelperKilled ==
  /\ crashes < MaxCrashes /\ crashes' = crashes + 1
  /\ pc # "gone" /\ pc' = "gone" /\ watch' = Unrecorded
  /\ UNCHANGED <<machine, installer, disk, app, core, faults>>

Reboot ==
  /\ machine.boot < MaxReboots
  /\ \E left \in IF installer = "runs" THEN {"old", "broken", "new"} ELSE {machine.registered} :
       machine' = [boot |-> machine.boot + 1, registered |-> left, due |-> FALSE,
                   files |-> IF machine.due THEN "new" ELSE machine.files]
  /\ installer' = IF installer = "runs" THEN "error" ELSE installer
  /\ pc' = "gone" /\ watch' = Unrecorded
  /\ app' = "none" /\ core' = NoCore
  /\ UNCHANGED <<disk, boundVars>>

-----------------------------------------------------------------------------
\* recover_managed_update; "fails" names what cannot be read or written.
HelperRuns == pc # "gone"
StillRuns(fails) == disk.process = "installer" /\ installer = "runs" /\ fails # "process"

Unknown_OnlyErrors(fails) == disk.process = "installer" /\ fails = "process"
Unknown_EvenEnded(fails) == disk.outcome = "managed-pending"
Unknown(fails) ==
  \/ disk.process = "installer" /\ fails = "process"
  \/ disk.process = "none" /\ disk.outcome = "managed-pending"

\* reboot_completed: a record that is missing is made now, and proves nothing yet.
Unmarked == disk.marker = NoBoot
Rebooted(fails) == ~Unmarked /\ fails # "boot" /\ disk.marker # machine.boot
Undecided(fails) == HelperRuns \/ fails = "helper" \/ StillRuns(fails)
AsksBoot(fails) ==
  ~Undecided(fails) /\ (Unknown(fails) \/ (disk.outcome = "reboot-required" /\ fails # "plan"))

Waits(fails) == Undecided(fails) \/ (Unknown(fails) /\ ~Rebooted(fails))

\* classify_recovery
Confirmed_Registered(fails) == machine.registered = "new" /\ fails # "query"
Confirmed(fails) == machine.registered = "new" /\ fails # "query" /\ app = "new"
Verdict(fails) ==
  CASE Waits(fails) -> "pending"
    [] ~Waits(fails) /\ fails = "plan" -> "error"
    [] ~Waits(fails) /\ fails # "plan" /\ disk.outcome = "reboot-required"
         /\ ~Rebooted(fails) -> "reboot"
    [] OTHER -> IF Confirmed(fails) THEN "completed" ELSE "failed"

\* The records after the core has looked, and what it makes of them.
Marked(fails) ==
  IF AsksBoot(fails) /\ Unmarked /\ fails # "boot"
  THEN [disk EXCEPT !.marker = machine.boot] ELSE disk

Decided(verdict, fails) ==
  LET kept == fails = "remove"
      unwritten == verdict = "error" \/ fails = "write"
      told == IF unwritten THEN disk.outcome ELSE verdict
      process == IF unwritten THEN disk.process ELSE "none"
  IN [disk |-> [disk EXCEPT !.outcome = told, !.process = process, !.saved = kept],
      status |-> IF verdict = "completed" /\ fails \notin {"write", "sync"}
                 THEN "succeeded" ELSE "failed",
      transaction |-> FALSE]

Sees(status, records) == [disk |-> records, status |-> status, transaction |-> TRUE]

\* reconcile_transaction
InProgress(fails) == HelperRuns /\ fails # "helper"
Told(fails) ==
  CASE disk.outcome = "installing" /\ InProgress(fails) -> "applying"
    [] disk.outcome = "awaiting-startup" /\ InProgress(fails) -> "restarting"
    [] disk.outcome = "completed" -> "succeeded"
    [] OTHER -> "failed"

Recovered(fails) ==
  LET verdict == Verdict(fails)
  IN CASE verdict = "pending" -> Sees("managed-pending", Marked(fails))
       [] verdict = "reboot" -> Sees("reboot-required", Marked(fails))
       [] OTHER -> Decided(verdict, fails)

Reconciled(fails) ==
  CASE ~core.transaction -> [disk |-> disk, status |-> core.status, transaction |-> FALSE]
    [] core.transaction /\ fails = "outcome" -> Sees("failed", disk)
    [] core.transaction /\ fails # "outcome" /\ disk.outcome \in Managed -> Recovered(fails)
    [] OTHER -> Sees(Told(fails), disk)

-----------------------------------------------------------------------------
\* The application and its core.
AppStarts ==
  /\ app = "none"
  /\ \/ Starts(machine.files) /\ NoFault
     \/ app' = machine.files /\ core' = [status |-> "failed", transaction |-> FALSE] /\ Fault
  /\ UNCHANGED <<machine, installer, disk, pc, watch>>

AppCloses ==
  /\ app # "none" /\ app' = "none" /\ core' = NoCore
  /\ NoFault
  /\ UNCHANGED <<machine, installer, disk, pc, watch>>

Failures == {"helper", "process", "boot", "plan", "query", "write", "sync", "remove", "outcome"}
Pending == {"applying", "restarting", "managed-pending"}

Looks(fails) ==
  /\ app # "none"
  /\ IF fails = "none" THEN NoFault ELSE Fault
  /\ disk' = Reconciled(fails).disk
  /\ UNCHANGED <<machine, installer, pc, watch, app>>

\* updater.state.get
Ask(fails) ==
  /\ Looks(fails)
  /\ core' = [status |-> Reconciled(fails).status, transaction |-> Reconciled(fails).transaction]

\* begin_operation; the operation forgets the transaction.
UpdateBegins(fails) ==
  /\ Looks(fails)
  /\ Reconciled(fails).status \notin Pending \cup {"reboot-required"}
  /\ core' = NoCore

Next ==
  \/ InstallerEnds \/ HelperStep \/ StepFails \/ HelperKilled \/ Reboot
  \/ AppStarts \/ AppCloses
  \/ \E fails \in Failures \cup {"none"} : Ask(fails) \/ UpdateBegins(fails)

Spec == Init /\ [][Next]_vars

\* The helper goes on, and the user opens the application, which asks, and closes it.
Fairness ==
  /\ WF_vars(HelperStep) /\ WF_vars(AppStarts) /\ WF_vars(AppCloses)
  /\ SF_vars(Ask("none"))
FairSpec == Spec /\ Fairness

-----------------------------------------------------------------------------
\* An update is recorded as completed only while the updated application runs, its
\* package is registered and the installer has ended; and no file is left to be
\* replaced at the next boot, unless the installer outlived the helper's watch
\* and nobody saw its exit code (classify_recovery, reboot_completed).
CompletedIsTrue ==
  [][disk.outcome # "completed" /\ disk'.outcome = "completed" =>
       /\ machine.registered = "new" /\ app = "new" /\ installer # "runs"
       /\ machine.due => watch = "late"]_vars

\* A core that knows of the transaction and can read its records and its lock lets
\* no session begin and no other update start while the installer runs, and no
\* update while files are still due at the next boot; except after a helper that
\* could not record what it saw, and, for the files that are due, after one whose
\* watch was over before the installer asked for the restart
\* (installation_pending, begin_operation).
Overlooked == watch = "lost"
UpdatesWait ==
  [][\A fails \in (Failures \cup {"none"}) \ {"outcome", "plan", "helper"} :
       core.transaction =>
         /\ (Ask(fails) /\ core'.status \notin Pending) =>
              (installer = "runs" => Overlooked)
         /\ UpdateBegins(fails) =>
              /\ installer = "runs" => Overlooked
              /\ machine.due => Overlooked \/ watch = "late"]_vars

\* An installation nobody has seen the end of is decided, and its transaction
\* dropped, once the installer has ended and either its process is known or the
\* system was restarted after the recorded boot, whatever is read wrongly, killed
\* or closed meanwhile (recover_managed_update).
Decidable ==
  /\ disk.saved /\ disk.outcome \in Managed /\ installer # "runs"
  /\ \/ disk.process = "installer"
     \/ disk.marker # NoBoot /\ disk.marker < machine.boot
PendingIsDecided == Decidable ~> (disk.outcome \notin Managed \/ ~disk.saved)

=============================================================================
