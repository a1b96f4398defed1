------------------------------ MODULE Updater ------------------------------
(***************************************************************************)
(* The updater service of the core (native/opennow-core/src/updater.rs):   *)
(* checking for, downloading and installing an update, and the status that *)
(* it reconciles with the transaction of the update helper.  The helper is *)
(* UpdateApply's, reduced to its lock and the outcomes an in-place update  *)
(* records; managed packages, Flatpak and failing reads are left out.      *)
(***************************************************************************)
EXTENDS CoreWorkers

CONSTANT MaxTransactions   \* bound on prepared transactions
ASSUME UpdaterAssumption == MaxTransactions \in Nat

VARIABLES
    status,       \* State::status
    available,    \* a signed package for this platform is known
    downloaded,   \* State::downloaded is set
    transaction,  \* State::transaction, 0 when it is None
    operation,    \* who holds the operation lock
    doing,        \* where each worker is inside check, download or install
    saved,        \* the transaction in active-apply.json, 0 when there is none
    prepared,     \* how many transactions have been prepared
    outcome,      \* outcome.json of each of them
    helper,       \* its helper process; a "locked" one owns apply.lock
    app,          \* which run of the application this is
    from          \* the run each transaction waits for to end

updater == <<status, available, downloaded, transaction, operation, doing,
             saved, prepared, outcome, helper, app, from>>

Transactions == 1..MaxTransactions
Outcomes == {"none", "prepared", "waiting", "applying", "restarting",
             "completed", "rolled-back", "failed"}
Unfinished == {"waiting", "applying", "restarting"}

StatusOf(o) ==
    CASE o = "prepared" -> "preparing"
      [] o = "waiting" -> "awaiting-exit"
      [] o = "completed" -> "succeeded"
      [] OTHER -> o

Pending == {"preparing", "awaiting-exit", "applying", "restarting"}

\* reconcile_transaction; the lock is tried after the outcome has been read, and
\* is held from before the first outcome of the helper until after its last.
Reconciled ==
    LET o == outcome[transaction]
        asksHelper == o \in Unfinished \/ (o = "prepared" /\ status # "preparing")
    IN IF transaction = 0 THEN status
       ELSE IF asksHelper /\ helper[transaction] # "locked" THEN "failed"
       ELSE StatusOf(o)

\* updater.state.get
GetState ==
    /\ status' = Reconciled
    /\ UNCHANGED <<available, downloaded, transaction, operation, doing,
                   saved, prepared, outcome, helper, app, from>>

\* begin_operation succeeds; it reconciles, and the caller goes on to set a status.
MayBegin == operation = NoWorker /\ Reconciled \notin Pending
Refuse == operation = NoWorker /\ GetState

Transacted == <<saved, prepared, outcome, helper, app, from>>

Begins(w, what, as) ==
    /\ MayBegin
    /\ operation' = w
    /\ doing' = [doing EXCEPT ![w] = what]
    /\ status' = as
    /\ transaction' = 0

Ends(w) ==
    /\ operation' = NoWorker
    /\ doing' = [doing EXCEPT ![w] = "none"]

Check(w) ==
    \/ Begins(w, "check", "checking") /\ UNCHANGED <<available, downloaded, Transacted>>
    \/ Refuse

\* Mutated: the failure of a request is returned before the status is set.
CheckEnds_StaysChecking(w) ==
    /\ doing[w] = "check"
    /\ Ends(w)
    /\ UNCHANGED <<status, available, downloaded, transaction, Transacted>>

\* Mutated: a check leaves the updater idle, with a download or without.
CheckEnds_BackToIdle(w) ==
    /\ doing[w] = "check"
    /\ Ends(w)
    /\ status' = "idle"
    /\ available' \in BOOLEAN
    /\ UNCHANGED <<downloaded, transaction, Transacted>>

CheckEnds(w) ==
    /\ doing[w] = "check"
    /\ Ends(w)
    /\ \/ status' = "error" /\ UNCHANGED available
       \/ \E found \in {"available", "not-available"} :
             /\ status' = IF downloaded THEN "downloaded" ELSE found
             /\ available' \in {FALSE, found = "available"}
    /\ UNCHANGED <<downloaded, transaction, Transacted>>

Download(w) ==
    \/ /\ available
       /\ Begins(w, "download", "downloading")
       /\ UNCHANGED <<available, downloaded, Transacted>>
    \/ Refuse

DownloadEnds(w) ==
    /\ doing[w] = "download"
    /\ Ends(w)
    /\ \/ status' = "downloaded" /\ downloaded' = TRUE
       \/ status' = "available" /\ UNCHANGED downloaded
    /\ UNCHANGED <<available, transaction, Transacted>>

---------------------------------------------------------------------------
(* install *)

Install(w) ==
    \/ /\ downloaded
       /\ Begins(w, "prepare", "preparing")
       /\ UNCHANGED <<available, downloaded, Transacted>>
    \/ Refuse

Fails(w) ==
    /\ Ends(w)
    /\ status' = "failed"
    /\ transaction' = 0
    /\ UNCHANGED <<available, downloaded, saved, prepared, app, from>>

Goes(w, at, to) ==
    /\ doing[w] = at
    /\ doing' = [doing EXCEPT ![w] = to]
    /\ UNCHANGED <<status, available, downloaded, operation, app>>

\* prepare_update
Prepare(w) ==
    \/ /\ prepared < MaxTransactions
       /\ Goes(w, "prepare", "save")
       /\ prepared' = prepared + 1
       /\ outcome' = [outcome EXCEPT ![prepared'] = "prepared"]
       /\ from' = [from EXCEPT ![prepared'] = app]
       /\ UNCHANGED <<transaction, saved, helper>>
    \/ doing[w] = "prepare" /\ Fails(w) /\ UNCHANGED <<outcome, helper>>

\* save_prepared_update; it can fail before the old file is removed, between that
\* and the rename of the new one, or after.
Save(w) ==
    \/ /\ Goes(w, "save", "spawn")
       /\ saved' = prepared
       /\ transaction' = prepared
       /\ UNCHANGED <<prepared, outcome, helper, from>>
    \/ /\ doing[w] = "save"
       /\ Ends(w)
       /\ status' = "failed" /\ transaction' = 0
       /\ saved' \in {saved, 0, prepared}
       /\ UNCHANGED <<available, downloaded, prepared, outcome, helper, app, from>>

\* launch_prepared_update
SpawnHelper(w) ==
    \/ /\ Goes(w, "spawn", "launch")
       /\ helper' = [helper EXCEPT ![prepared] = "spawned"]
       /\ UNCHANGED <<transaction, saved, prepared, outcome, from>>
    \/ /\ doing[w] = "spawn"
       /\ outcome' = [outcome EXCEPT ![prepared] = "failed"]
       /\ Fails(w)
       /\ UNCHANGED helper

Launched(w) ==
    /\ doing[w] = "launch"
    /\ outcome[prepared] = "waiting" /\ helper[prepared] = "locked"
    /\ Ends(w)
    /\ status' = Reconciled
    /\ UNCHANGED <<available, downloaded, transaction, Transacted>>

\* Mutated: a helper that takes too long is given up without being killed.
LaunchFails_NoKill(w) ==
    /\ doing[w] = "launch"
    /\ outcome' = [outcome EXCEPT ![prepared] = "failed"]
    /\ Fails(w)
    /\ UNCHANGED helper

\* Mutated: only the end of the helper is noticed, not the deadline.
LaunchFails_NoDeadline(w) ==
    /\ doing[w] = "launch"
    /\ helper[prepared] = "gone"
    /\ outcome' = [outcome EXCEPT ![prepared] = "failed"]
    /\ Fails(w)
    /\ UNCHANGED helper

\* The helper has ended, or has not been ready in time: kill it, record it.
LaunchFails(w) ==
    /\ doing[w] = "launch"
    /\ outcome' = [outcome EXCEPT ![prepared] = "failed"]
    /\ helper' = [helper EXCEPT ![prepared] = "gone"]
    /\ Fails(w)

Operate(w) ==
    \/ CheckEnds(w) \/ DownloadEnds(w)
    \/ Prepare(w) \/ Save(w) \/ SpawnHelper(w) \/ Launched(w) \/ LaunchFails(w)

---------------------------------------------------------------------------
(* The helper of transaction t, see UpdateApply *)

HelperLocks(t) ==
    /\ helper[t] = "spawned"
    /\ helper' = [helper EXCEPT ![t] = "locked"]
    /\ UNCHANGED outcome

\* It waits for the run of the application that prepared it, and no other.
HelperProceeds(t) ==
    /\ helper[t] = "locked"
    /\ \/ outcome[t] = "prepared" /\ outcome' = [outcome EXCEPT ![t] = "waiting"]
       \/ /\ outcome[t] = "waiting" /\ app # from[t]
          /\ outcome' = [outcome EXCEPT ![t] = "applying"]
       \/ outcome[t] = "applying" /\ outcome' = [outcome EXCEPT ![t] = "restarting"]
    /\ UNCHANGED helper

HelperSettles(t) ==
    /\ helper[t] = "locked"
    /\ \/ /\ outcome[t] \in {"prepared", "waiting"}
          /\ outcome' = [outcome EXCEPT ![t] = "failed"]
       \/ /\ outcome[t] = "applying"
          /\ \E o \in {"rolled-back", "failed"} : outcome' = [outcome EXCEPT ![t] = o]
       \/ /\ outcome[t] = "restarting"
          /\ \E o \in {"completed", "rolled-back", "failed"} :
                outcome' = [outcome EXCEPT ![t] = o]
    /\ helper' = [helper EXCEPT ![t] = "gone"]

HelperDies(t) ==
    /\ helper[t] \in {"spawned", "locked"}
    /\ helper' = [helper EXCEPT ![t] = "gone"]
    /\ UNCHANGED outcome

Helper(t) ==
    /\ HelperLocks(t) \/ HelperProceeds(t) \/ HelperSettles(t) \/ HelperDies(t)
    /\ UNCHANGED <<status, available, downloaded, transaction, operation, doing,
                   saved, prepared, app, from>>

\* UpdaterService::new in the next core process, which reads active-apply.json.
UpdaterRestarts ==
    /\ status' = "idle"
    /\ available' = FALSE /\ downloaded' = FALSE
    /\ transaction' = saved
    /\ operation' = NoWorker
    /\ doing' = [w \in Workers |-> "none"]
    /\ UNCHANGED <<saved, prepared, outcome, helper, from>>

UpdaterTypeOK ==
    /\ status \in Pending \cup {"idle", "checking", "available", "not-available", "error",
                  "downloading", "downloaded", "failed", "succeeded", "rolled-back"}
    /\ available \in BOOLEAN /\ downloaded \in BOOLEAN
    /\ transaction \in Transactions \cup {0} /\ saved \in Transactions \cup {0}
    /\ operation \in Workers \cup {NoWorker}
    /\ doing \in [Workers -> {"none", "check", "download", "prepare", "save", "spawn", "launch"}]
    /\ prepared \in 0..MaxTransactions
    /\ outcome \in [Transactions -> Outcomes]
    /\ helper \in [Transactions -> {"none", "spawned", "locked", "gone"}]
    /\ app \in Nat /\ from \in [Transactions -> Nat]

UpdaterInit ==
    /\ status = "idle"
    /\ available = FALSE /\ downloaded = FALSE
    /\ transaction = 0 /\ saved = 0 /\ prepared = 0
    /\ operation = NoWorker
    /\ doing = [w \in Workers |-> "none"]
    /\ outcome = [t \in Transactions |-> "none"]
    /\ helper = [t \in Transactions |-> "none"]
    /\ app = 1 /\ from = [t \in Transactions |-> 0]
=============================================================================
