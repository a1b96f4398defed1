------------------------ MODULE ManagedInstallProofs ------------------------
\* That a managed update is only recorded as completed when it is, for any number
\* of restarts of the system, crashes and failures.
EXTENDS ManagedInstall, TLAPS

Places == {"marks", "spawns", "watches", "restart", "error", "records", "ok", "announces",
           "starts", "identifies", "awaits", "cleans", "unstarted", "reports", "ends", "gone"}
Outcomes == Managed \cup {"installing", "awaiting-startup", "completed", "failed"}

Types ==
  /\ machine \in [boot : Nat, files : Versions, registered : {"old", "broken", "new"},
                  due : BOOLEAN]
  /\ installer \in {"none", "runs"} \cup Codes
  /\ disk \in [outcome : Outcomes, process : {"none", "installer", "application"},
               marker : Nat, saved : BOOLEAN]
  /\ pc \in Places

\* The boot on record is that of the installer: nothing it leaves to be done
\* survives a boot that differs from it.
BootInv ==
  /\ machine.boot <= MaxReboots
  /\ installer = "runs" \/ machine.due => disk.marker \in {NoBoot, machine.boot}

\* An installer that ended well has registered the package and left nothing due.
InstallerInv ==
  /\ installer = "ok" => machine.registered = "new" /\ ~machine.due
  /\ machine.due => installer = "restart"

\* Where the helper is once it has seen an exit code, or none.
HelperInv ==
  /\ pc \in {"marks", "spawns"} => disk.outcome = "installing" /\ installer = "none"
  /\ pc = "spawns" => disk.marker = machine.boot
  /\ pc = "restart" => installer = "restart"
  /\ pc \in {"ok", "announces", "starts", "identifies", "awaits"} => installer = "ok"

\* What the outcome says of the installer.
OutcomeInv ==
  /\ disk.outcome \in Managed => pc \in {"ends", "gone"} /\ disk.process \in {"none", "installer"}
  /\ disk.outcome = "managed-pending" => watch = "late"
  /\ disk.outcome = "reboot-required" => installer # "runs"

ManagedInv == Types /\ BootInv /\ InstallerInv /\ HelperInv /\ OutcomeInv

-----------------------------------------------------------------------------
\* What the core finds to be completed is completed: the installer has ended,
\* because its process was asked for or because the system was restarted since.
LEMMA VerdictTrue ==
  ASSUME ManagedInv, NEW fails, disk.outcome \in Managed, Verdict(fails) = "completed"
  PROVE  /\ machine.registered = "new" /\ app = "new" /\ installer # "runs"
         /\ machine.due => watch = "late"
<1>1. ~Waits(fails) /\ Confirmed(fails)
  BY DEF Verdict
<1>2. disk.outcome = "reboot-required" => Rebooted(fails)
  BY <1>1 DEF Verdict
<1>3. Rebooted(fails) => installer # "runs" /\ ~machine.due
  BY DEF ManagedInv, BootInv, Rebooted, Unmarked
<1>4. CASE disk.outcome = "reboot-required"
  BY <1>1, <1>2, <1>3, <1>4 DEF Confirmed
<1>5. CASE disk.outcome = "managed-pending"
  <2>1. watch = "late" /\ disk.process \in {"none", "installer"}
    BY <1>5 DEF ManagedInv, OutcomeInv, Managed
  <2>2. Unknown(fails) => Rebooted(fails)
    BY <1>1 DEF Waits
  <2>3. installer # "runs"
    BY <1>1, <1>3, <1>5, <2>1, <2>2 DEF Waits, Undecided, StillRuns, Unknown
  <2> QED BY <1>1, <2>1, <2>3 DEF Confirmed
<1> QED BY <1>4, <1>5 DEF Managed

\* A look of the core leaves the records alone, marks the boot, or decides a
\* managed installation.
LEMMA LookingWrites ==
  ASSUME ManagedInv, NEW fails
  PROVE  \/ Reconciled(fails).disk = disk
         \/ Reconciled(fails).disk = [disk EXCEPT !.marker = machine.boot]
         \/ /\ disk.outcome \in Managed
            /\ \E outcome \in {disk.outcome, "completed", "failed"},
                  process \in {disk.process, "none"}, saved \in BOOLEAN :
                 /\ Reconciled(fails).disk =
                      [disk EXCEPT !.outcome = outcome, !.process = process, !.saved = saved]
                 /\ outcome = "completed" => Verdict(fails) = "completed"
<1>1. CASE ~core.transaction
  BY <1>1 DEF Reconciled
<1>2. CASE core.transaction /\ fails = "outcome"
  BY <1>2 DEF Reconciled, Sees
<1>3. CASE core.transaction /\ fails # "outcome" /\ disk.outcome \notin Managed
  BY <1>3 DEF Reconciled, Sees
<1>4. CASE core.transaction /\ fails # "outcome" /\ disk.outcome \in Managed
  <2>1. Reconciled(fails) = Recovered(fails)
    BY <1>4 DEF Reconciled
  <2>2. CASE Verdict(fails) \in {"pending", "reboot"}
    <3>1. Reconciled(fails).disk = Marked(fails)
      BY <2>1, <2>2 DEF Recovered, Sees
    <3> QED BY <3>1 DEF Marked
  <2>3. CASE Verdict(fails) \notin {"pending", "reboot"}
    <3> DEFINE unwritten == Verdict(fails) = "error" \/ fails = "write"
               outcome == IF unwritten THEN disk.outcome ELSE Verdict(fails)
               process == IF unwritten THEN disk.process ELSE "none"
               saved == fails = "remove"
    <3>1. Reconciled(fails).disk =
            [disk EXCEPT !.outcome = outcome, !.process = process, !.saved = saved]
      BY <2>1, <2>3 DEF Recovered, Decided
    <3>2. Verdict(fails) \in {"error", "completed", "failed"}
      BY <2>3 DEF Verdict
    <3>3. outcome \in {disk.outcome, "completed", "failed"}
      BY <3>2
    <3>4. outcome = "completed" => Verdict(fails) = "completed"
      BY <1>4, <3>2 DEF Managed
    <3> HIDE DEF outcome
    <3> QED BY <1>4, <3>1, <3>3, <3>4
  <2> QED BY <2>2, <2>3
<1> QED BY <1>1, <1>2, <1>3, <1>4

LEMMA InitInv == Init => ManagedInv
<1> SUFFICES ASSUME Init PROVE ManagedInv
  OBVIOUS
<1> USE ManagedAssumption DEF ManagedAssumption, Init, NoBoot, Managed
<1>1. Types
  <2>1. machine \in [boot : Nat, files : Versions, registered : {"old", "broken", "new"},
                     due : BOOLEAN]
    <3>1. \E registered \in {"old", "new"}, due \in BOOLEAN :
            machine = [boot |-> 0, files |-> "old", registered |-> registered, due |-> due]
      OBVIOUS
    <3> QED BY <3>1 DEF Versions
  <2>2. disk \in [outcome : Outcomes, process : {"none", "installer", "application"},
                  marker : Nat, saved : BOOLEAN]
    <3>1. \E outcome \in Managed \cup {"installing"} :
            disk = [outcome |-> outcome, process |-> "none", marker |-> NoBoot, saved |-> TRUE]
      OBVIOUS
    <3>2. NoBoot \in Nat
      OBVIOUS
    <3> HIDE DEF Init, NoBoot, Managed
    <3> QED BY <3>1, <3>2 DEF Outcomes
  <2>3. installer \in {"none", "runs"} \cup Codes /\ pc \in Places
    BY DEF Codes, Places
  <2> QED BY <2>1, <2>2, <2>3 DEF Types
<1>2. BootInv /\ InstallerInv
  BY DEF BootInv, InstallerInv
<1>3. HelperInv /\ OutcomeInv
  BY DEF HelperInv, OutcomeInv
<1> QED BY <1>1, <1>2, <1>3 DEF ManagedInv

-----------------------------------------------------------------------------
\* Each step keeps the invariant.
LEMMA InstallerInductive ==
  ManagedInv /\ (InstallerEnds \/ HelperKilled \/ Reboot) => ManagedInv'
<1> SUFFICES ASSUME ManagedInv, InstallerEnds \/ HelperKilled \/ Reboot PROVE ManagedInv'
  OBVIOUS
<1> USE ManagedAssumption DEF ManagedAssumption, ManagedInv
<1>1. CASE InstallerEnds
  <2>1. Types'
    BY <1>1 DEF InstallerEnds, Types, Codes, Versions
  <2>2. BootInv' /\ InstallerInv'
    BY <1>1 DEF InstallerEnds, Types, BootInv, InstallerInv, NoBoot
  <2>3. HelperInv' /\ OutcomeInv'
    BY <1>1 DEF InstallerEnds, HelperInv, OutcomeInv
  <2> QED BY <2>1, <2>2, <2>3
<1>2. CASE HelperKilled
  BY <1>2 DEF HelperKilled, Unrecorded, Types, Places, BootInv, InstallerInv, HelperInv,
              OutcomeInv, NoBoot
<1>3. CASE Reboot
  <2>1. Types'
    BY <1>3 DEF Reboot, Types, Places, Codes, Versions
  <2>2. BootInv' /\ InstallerInv'
    BY <1>3 DEF Reboot, Types, BootInv, InstallerInv
  <2>3. HelperInv' /\ OutcomeInv'
    BY <1>3 DEF Reboot, HelperInv, OutcomeInv, Unrecorded
  <2> QED BY <2>1, <2>2, <2>3
<1> QED BY <1>1, <1>2, <1>3

LEMMA HelperInductive == ManagedInv /\ (HelperStep \/ StepFails) => ManagedInv'
<1> SUFFICES ASSUME ManagedInv, HelperStep \/ StepFails PROVE ManagedInv'
  OBVIOUS
<1> USE ManagedAssumption
    DEF ManagedAssumption, ManagedInv, BootInv, InstallerInv, HelperInv, OutcomeInv, NoBoot
<1>1. Types'
  <2> USE DEF Types
  <2>1. CASE MarkBoot
    BY <2>1 DEF MarkBoot, At, Places
  <2>2. CASE Spawn \/ SeesExit
    BY <2>2 DEF Spawn, SeesExit, At, Places, Codes
  <2>3. CASE Deadline
    BY <2>3 DEF Deadline, At, Records, Places, Outcomes, Managed
  <2>4. CASE RestartNeeded \/ RecordFailure \/ Announce \/ Identify \/ RecordUnstarted
    BY <2>4 DEF RestartNeeded, RecordFailure, Announce, Identify, RecordUnstarted, Writes, At,
                Records, Places, Outcomes, Managed
  <2>5. CASE Acknowledged
    BY <2>5 DEF Acknowledged, Writes, At, Records, Places, Outcomes
  <2>6. CASE RestartPrevious \/ Verify \/ StartNew \/ NotAcknowledged \/ CleanUp \/ Exit
    BY <2>6 DEF RestartPrevious, Verify, StartNew, NotAcknowledged, CleanUp, Exit, At, Places
  <2>7. CASE Reports
    BY <2>7 DEF Reports, At, Records, Places, Outcomes
  <2>8. CASE StepFails
    BY <2>8 DEF StepFails, Places
  <2> QED BY <2>1, <2>2, <2>3, <2>4, <2>5, <2>6, <2>7, <2>8 DEF HelperStep
<1>2. (BootInv /\ InstallerInv /\ HelperInv /\ OutcomeInv)'
  <2> USE DEF Managed
  <2>1. CASE MarkBoot
    BY <2>1 DEF MarkBoot, At, Types
  <2>2. CASE Spawn
    BY <2>2 DEF Spawn, At
  <2>3. CASE SeesExit
    BY <2>3 DEF SeesExit, Codes
  <2>4. CASE Deadline
    BY <2>4 DEF Deadline, At, Records, Types
  <2>5. CASE RestartNeeded \/ RecordFailure \/ Announce \/ Identify \/ RecordUnstarted
    BY <2>5 DEF RestartNeeded, RecordFailure, Announce, Identify, RecordUnstarted, Writes, At,
                Records, Types
  <2>6. CASE Acknowledged
    BY <2>6 DEF Acknowledged, Writes, At, Records, Types
  <2>7. CASE RestartPrevious \/ Verify \/ StartNew \/ NotAcknowledged \/ CleanUp \/ Exit
    BY <2>7 DEF RestartPrevious, Verify, StartNew, NotAcknowledged, CleanUp, Exit, At
  <2>8. CASE Reports
    BY <2>8 DEF Reports, At, Records, Types
  <2>9. CASE StepFails
    BY <2>9 DEF StepFails, Starting
  <2> QED BY <2>1, <2>2, <2>3, <2>4, <2>5, <2>6, <2>7, <2>8, <2>9 DEF HelperStep
<1> QED BY <1>1, <1>2

LEMMA CoreInductive ==
  ASSUME ManagedInv,
         AppStarts \/ AppCloses \/ \E fails \in Failures \cup {"none"} : Ask(fails) \/ UpdateBegins(fails)
  PROVE  ManagedInv'
<1> USE ManagedAssumption DEF ManagedAssumption, ManagedInv
<1>1. CASE AppStarts \/ AppCloses
  BY <1>1 DEF AppStarts, AppCloses, Types, BootInv, InstallerInv, HelperInv, OutcomeInv
<1>2. ASSUME NEW fails, Looks(fails) PROVE ManagedInv'
  <2>1. /\ disk' = Reconciled(fails).disk
        /\ UNCHANGED <<machine, installer, pc, watch>>
    BY <1>2 DEF Looks
  <2>2. CASE disk' = disk
    BY <2>1, <2>2 DEF Types, BootInv, InstallerInv, HelperInv, OutcomeInv
  <2>3. CASE disk' = [disk EXCEPT !.marker = machine.boot]
    BY <2>1, <2>3 DEF Types, BootInv, InstallerInv, HelperInv, OutcomeInv
  <2>4. ASSUME disk.outcome \in Managed,
               NEW outcome \in {disk.outcome, "completed", "failed"},
               NEW process \in {disk.process, "none"}, NEW saved \in BOOLEAN,
               disk' = [disk EXCEPT !.outcome = outcome, !.process = process, !.saved = saved]
        PROVE  ManagedInv'
    <3>1. Types'
      BY <2>1, <2>4 DEF Types, Outcomes
    <3>2. (BootInv /\ InstallerInv /\ HelperInv /\ OutcomeInv)'
      BY <2>1, <2>4 DEF Types, BootInv, InstallerInv, HelperInv, OutcomeInv, Managed
    <3> QED BY <3>1, <3>2
  <2> QED BY <2>1, <2>2, <2>3, <2>4, LookingWrites
<1> QED BY <1>1, <1>2 DEF Ask, UpdateBegins

LEMMA Inductive == ManagedInv /\ [Next]_vars => ManagedInv'
<1> SUFFICES ASSUME ManagedInv, [Next]_vars PROVE ManagedInv'
  OBVIOUS
<1>1. CASE UNCHANGED vars
  BY <1>1 DEF vars, ManagedInv, Types, BootInv, InstallerInv, HelperInv, OutcomeInv
<1>2. CASE Next
  BY <1>2, InstallerInductive, HelperInductive, CoreInductive DEF Next
<1> QED BY <1>1, <1>2

\* Every record of the helper but one says something else than completed; the
\* core records it after a look.
LEMMA CompletedStep ==
  ASSUME ManagedInv, [Next]_vars, disk.outcome # "completed", disk'.outcome = "completed"
  PROVE  /\ machine.registered = "new" /\ app = "new" /\ installer # "runs"
         /\ machine.due => watch = "late"
<1> USE DEF ManagedInv
<1>1. CASE Acknowledged
  BY <1>1 DEF Acknowledged, Writes, At, HelperInv, InstallerInv
<1>2. ASSUME NEW fails, Looks(fails)
      PROVE  disk.outcome \in Managed /\ Verdict(fails) = "completed"
  <2>1. disk' = Reconciled(fails).disk
    BY <1>2 DEF Looks
  <2>2. disk' # disk /\ disk' # [disk EXCEPT !.marker = machine.boot]
    BY DEF Types
  <2> QED BY <2>1, <2>2, LookingWrites DEF Types
<1>3. ASSUME HelperStep \/ StepFails PROVE Acknowledged
  <2> USE DEF At, Writes, Records, Types
  <2>1. ~(MarkBoot \/ Spawn \/ SeesExit \/ Deadline \/ RestartNeeded \/ RestartPrevious)
    BY DEF MarkBoot, Spawn, SeesExit, Deadline, RestartNeeded, RestartPrevious
  <2>2. ~(RecordFailure \/ Verify \/ Announce \/ StartNew \/ Identify \/ CleanUp)
    BY DEF RecordFailure, Verify, Announce, StartNew, Identify, CleanUp
  <2>3. ~(NotAcknowledged \/ RecordUnstarted \/ Reports \/ Exit \/ StepFails)
    BY DEF NotAcknowledged, RecordUnstarted, Reports, Exit, StepFails
  <2> QED BY <1>3, <2>1, <2>2, <2>3 DEF HelperStep
<1>4. ~(InstallerEnds \/ HelperKilled \/ Reboot \/ AppStarts \/ AppCloses \/ UNCHANGED vars)
  BY DEF InstallerEnds, HelperKilled, Reboot, AppStarts, AppCloses, vars
<1> QED BY <1>1, <1>2, <1>3, <1>4, VerdictTrue DEF Next, Ask, UpdateBegins

\* An update is only recorded as completed when the updated application runs, its
\* package is registered and its installer has ended, and nothing is left to the
\* next boot that the helper could have seen: for any number of restarts, crashes
\* and failures.
THEOREM CompletedTruthful == Spec => CompletedIsTrue
<1>1. ManagedInv /\ [Next]_vars => ManagedInv'
  BY Inductive
<1>2. ManagedInv /\ [Next]_vars =>
        [disk.outcome # "completed" /\ disk'.outcome = "completed" =>
           /\ machine.registered = "new" /\ app = "new" /\ installer # "runs"
           /\ machine.due => watch = "late"]_vars
  BY CompletedStep
<1> QED BY <1>1, <1>2, InitInv, PTL DEF Spec, CompletedIsTrue

-----------------------------------------------------------------------------
\* As long as no failure of the helper has hidden it, an installer that runs is
\* watched or on record, and so are files that are due at the next boot.
SeenInv ==
  /\ pc = "watches" => watch = "runs"
  /\ installer = "runs" /\ watch # "lost" =>
       disk.outcome = "managed-pending" \/ (pc = "watches" /\ disk.outcome = "installing")
  /\ machine.due /\ watch \notin {"lost", "late"} =>
       \/ disk.outcome = "reboot-required"
       \/ pc \in {"watches", "restart"} /\ disk.outcome = "installing"

\* What is on record keeps the core from deciding.
LEMMA RecordWaits ==
  ASSUME ManagedInv, SeenInv, NEW fails, disk.outcome \in Managed
  PROVE  /\ installer = "runs" /\ watch # "lost" => Verdict(fails) = "pending"
         /\ machine.due /\ watch \notin {"lost", "late"} =>
              \/ Verdict(fails) \in {"pending", "reboot"}
              \/ Verdict(fails) = "error" /\ fails = "plan"
<1> USE DEF ManagedInv
<1>1. Rebooted(fails) => installer # "runs" /\ ~machine.due
  BY DEF BootInv, Rebooted, Unmarked
<1>2. ASSUME installer = "runs", watch # "lost" PROVE Verdict(fails) = "pending"
  <2>1. disk.outcome = "managed-pending" /\ disk.process \in {"none", "installer"}
    BY <1>2 DEF SeenInv, OutcomeInv, Managed
  <2>2. StillRuns(fails) \/ Unknown(fails)
    BY <1>2, <2>1 DEF StillRuns, Unknown
  <2>3. Waits(fails)
    BY <1>1, <1>2, <2>2 DEF Waits, Undecided
  <2> QED BY <2>3 DEF Verdict
<1>3. ASSUME machine.due, watch \notin {"lost", "late"}
      PROVE  \/ Verdict(fails) \in {"pending", "reboot"}
             \/ Verdict(fails) = "error" /\ fails = "plan"
  <2>1. disk.outcome = "reboot-required"
    BY <1>3 DEF SeenInv, OutcomeInv, Managed
  <2> QED BY <1>1, <1>3, <2>1 DEF Verdict
<1> QED BY <1>2, <1>3

LEMMA SeenInit == Init => SeenInv
BY DEF Init, SeenInv

LEMMA SeenInductive == ManagedInv /\ SeenInv /\ [Next]_vars => SeenInv'
<1> SUFFICES ASSUME ManagedInv, SeenInv, [Next]_vars PROVE SeenInv'
  OBVIOUS
<1> USE DEF ManagedInv
<1>1. CASE InstallerEnds
  BY <1>1 DEF InstallerEnds, SeenInv, InstallerInv, OutcomeInv, Managed, Types
<1>2. CASE HelperKilled
  BY <1>2 DEF HelperKilled, Unrecorded, SeenInv
<1>3. CASE Reboot
  BY <1>3 DEF Reboot, SeenInv
<1>4. CASE HelperStep \/ StepFails
  <2> USE DEF SeenInv, InstallerInv, HelperInv, OutcomeInv, Managed
  <2>1. CASE MarkBoot \/ Spawn
    BY <2>1 DEF MarkBoot, Spawn, At, Types
  <2>2. CASE SeesExit
    BY <2>2 DEF SeesExit, Codes
  <2>3. CASE Deadline
    BY <2>3 DEF Deadline, At, Records, Types
  <2>4. CASE RestartNeeded \/ RecordFailure \/ Announce \/ Identify \/ RecordUnstarted \/ Acknowledged
    BY <2>4 DEF RestartNeeded, RecordFailure, Announce, Identify, RecordUnstarted, Acknowledged,
                Writes, At, Records, Types
  <2>5. CASE RestartPrevious \/ Verify \/ StartNew \/ NotAcknowledged \/ CleanUp \/ Exit
    BY <2>5 DEF RestartPrevious, Verify, StartNew, NotAcknowledged, CleanUp, Exit, At
  <2>6. CASE Reports
    BY <2>6 DEF Reports, At, Records, Types
  <2>7. CASE StepFails
    BY <2>7 DEF StepFails, Starting
  <2> QED BY <1>4, <2>1, <2>2, <2>3, <2>4, <2>5, <2>6, <2>7 DEF HelperStep
<1>5. CASE AppStarts \/ AppCloses
  BY <1>5 DEF AppStarts, AppCloses, SeenInv
<1>6. ASSUME NEW fails, Looks(fails) PROVE SeenInv'
  <2>1. /\ disk' = Reconciled(fails).disk
        /\ UNCHANGED <<machine, installer, pc, watch>>
    BY <1>6 DEF Looks
  <2>2. disk.outcome \notin Managed => disk'.outcome = disk.outcome
    BY <2>1, LookingWrites DEF Types
  <2>3. disk.outcome \in Managed /\ disk'.outcome # disk.outcome
          => Verdict(fails) \notin {"pending", "reboot", "error"}
    <3> SUFFICES ASSUME disk.outcome \in Managed, Verdict(fails) \in {"pending", "reboot", "error"}
                 PROVE  Reconciled(fails).disk.outcome = disk.outcome
      BY <2>1
    <3>1. CASE ~core.transaction \/ fails = "outcome"
      BY <3>1 DEF Reconciled, Sees
    <3>2. CASE core.transaction /\ fails # "outcome"
      <4>1. Reconciled(fails) = Recovered(fails)
        BY <3>2 DEF Reconciled
      <4>2. Marked(fails).outcome = disk.outcome
        BY DEF Marked, Types
      <4> QED BY <4>1, <4>2 DEF Recovered, Sees, Decided, Types
    <3> QED BY <3>1, <3>2
  <2>4. CASE disk'.outcome = disk.outcome
    BY <2>1, <2>4 DEF SeenInv
  <2>5. CASE disk'.outcome # disk.outcome
    <3>1. disk.outcome \in Managed /\ Verdict(fails) \notin {"pending", "reboot", "error"}
      BY <2>2, <2>3, <2>5
    <3>2. ~(installer = "runs" /\ watch # "lost") /\ ~(machine.due /\ watch \notin {"lost", "late"})
      BY <3>1, RecordWaits
    <3> QED BY <2>1, <3>2 DEF SeenInv
  <2> QED BY <2>4, <2>5
<1>7. CASE UNCHANGED vars
  BY <1>7 DEF vars, SeenInv
<1> QED BY <1>1, <1>2, <1>3, <1>4, <1>5, <1>6, <1>7 DEF Next, Ask, UpdateBegins

\* What a core that knows of the transaction is told while the installer runs, and
\* while files are due.
LEMMA ToldToWait ==
  ASSUME ManagedInv, SeenInv, core.transaction,
         NEW fails \in (Failures \cup {"none"}) \ {"outcome", "plan", "helper"}
  PROVE  /\ installer = "runs" /\ watch # "lost" => Reconciled(fails).status \in Pending
         /\ machine.due /\ watch \notin {"lost", "late"} =>
              Reconciled(fails).status \in Pending \cup {"reboot-required"}
<1> USE DEF ManagedInv
<1>1. fails \notin {"outcome", "plan", "helper"}
  OBVIOUS
<1>2. CASE disk.outcome \in Managed
  <2>1. Reconciled(fails) = Recovered(fails)
    BY <1>1, <1>2 DEF Reconciled
  <2>2. Verdict(fails) = "pending" => Reconciled(fails).status = "managed-pending"
    BY <2>1 DEF Recovered, Sees
  <2>3. Verdict(fails) = "reboot" => Reconciled(fails).status = "reboot-required"
    BY <2>1 DEF Recovered, Sees
  <2> QED BY <1>1, <1>2, <2>2, <2>3, RecordWaits DEF Pending
<1>3. CASE disk.outcome \notin Managed
  <2>1. Reconciled(fails).status = Told(fails)
    BY <1>1, <1>3 DEF Reconciled, Sees
  <2>2. disk.outcome = "installing" /\ pc # "gone" => Told(fails) = "applying"
    BY <1>1 DEF Told, InProgress, HelperRuns
  <2> QED BY <1>3, <2>1, <2>2 DEF SeenInv, Managed, Pending
<1> QED BY <1>2, <1>3

\* While the installer runs no session begins and no other update, and no update
\* while files are due at the next boot, unless the helper could not record what
\* it saw or, for the files that are due, its watch was over before the installer
\* asked for the restart (installation_pending, begin_operation): for any number of
\* restarts, crashes and failures.
THEOREM OthersWait == Spec => UpdatesWait
<1> DEFINE Readable == (Failures \cup {"none"}) \ {"outcome", "plan", "helper"}
<1>1. ManagedInv /\ SeenInv =>
        [\A fails \in Readable :
           core.transaction =>
             /\ (Ask(fails) /\ core'.status \notin Pending) =>
                  (installer = "runs" => Overlooked)
             /\ UpdateBegins(fails) =>
                  /\ installer = "runs" => Overlooked
                  /\ machine.due => Overlooked \/ watch = "late"]_vars
  <2> SUFFICES ASSUME ManagedInv, SeenInv, core.transaction, NEW fails \in Readable
               PROVE  /\ (Ask(fails) /\ core'.status \notin Pending) =>
                           (installer = "runs" => Overlooked)
                      /\ UpdateBegins(fails) =>
                           /\ installer = "runs" => Overlooked
                           /\ machine.due => Overlooked \/ watch = "late"
    OBVIOUS
  <2>1. Ask(fails) => core'.status = Reconciled(fails).status
    BY DEF Ask
  <2>2. UpdateBegins(fails) => Reconciled(fails).status \notin Pending \cup {"reboot-required"}
    BY DEF UpdateBegins
  <2> QED BY <2>1, <2>2, ToldToWait DEF Overlooked
<1>2. ManagedInv /\ SeenInv /\ [Next]_vars => (ManagedInv /\ SeenInv)'
  BY Inductive, SeenInductive
<1>3. Init => ManagedInv /\ SeenInv
  BY InitInv, SeenInit
<1> QED BY <1>1, <1>2, <1>3, PTL DEF Spec, UpdatesWait

=============================================================================
