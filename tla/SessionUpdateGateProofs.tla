---------------------- MODULE SessionUpdateGateProofs ----------------------
(* The theorems about the updater, its helper and the session gate, for any *)
(* number of workers, transactions, sessions and restarts.                 *)
EXTENDS SessionUpdateGate, TLAPS

\* The operation lock is held by the one worker inside an operation.
LockInv == \A w \in Workers : doing[w] # "none" <=> operation = w

\* The transactions that have been prepared, and by which run of the application.
TransactionInv ==
  /\ \A t \in Transactions :
       /\ outcome[t] # "none" <=> t <= prepared
       /\ from[t] <= app
       /\ outcome[t] \in {"applying", "restarting", "completed"} => from[t] < app
  /\ transaction <= prepared /\ saved <= prepared

\* What the worker inside an operation may rely on.
OperationInv ==
  \A w \in Workers :
    /\ doing[w] \in {"check", "download", "prepare", "save"} => transaction = 0
    /\ doing[w] \in {"save", "spawn", "launch"} => prepared # 0 /\ from[prepared] = app
    /\ doing[w] \in {"spawn", "launch"} => transaction = prepared

\* A status that is busy has its operation, and a download was made by this run.
StatusInv ==
  /\ BusyStatusHasOwner
  /\ downloaded => status \notin {"idle", "succeeded"}
  /\ downloaded /\ transaction # 0 => from[transaction] = app

UpdaterInv == UpdaterTypeOK /\ LockInv /\ TransactionInv /\ OperationInv /\ StatusInv
Base == TypeOK /\ UpdaterInv

-----------------------------------------------------------------------------
\* What a look at the transaction can make of the status.
LEMMA ReconciledStatus ==
  ASSUME UpdaterInv
  PROVE  /\ transaction = 0 => Reconciled = status
         /\ transaction # 0 => Reconciled \in Pending \cup {"succeeded", "failed", "rolled-back"}
         /\ transaction # 0 /\ Reconciled = "succeeded" => outcome[transaction] = "completed"
<1>1. CASE transaction = 0
  BY <1>1 DEF Reconciled
<1>2. CASE transaction # 0
  <2>1. transaction \in Transactions /\ outcome[transaction] \in Outcomes \ {"none"}
    BY <1>2 DEF UpdaterInv, UpdaterTypeOK, TransactionInv
  <2>2. Reconciled \in {"failed", StatusOf(outcome[transaction])}
    BY <1>2 DEF Reconciled
  <2> QED BY <1>2, <2>1, <2>2 DEF StatusOf, Outcomes, Pending
<1> QED BY <1>1, <1>2

LEMMA LookKeeps == UpdaterInv /\ GetState => UpdaterInv'
<1> SUFFICES ASSUME UpdaterInv, GetState PROVE UpdaterInv'
  OBVIOUS
<1>1. UpdaterTypeOK'
  BY ReconciledStatus DEF UpdaterInv, GetState, UpdaterTypeOK, Pending
<1>2. LockInv' /\ TransactionInv' /\ OperationInv'
  BY DEF UpdaterInv, GetState, LockInv, TransactionInv, OperationInv
<1>3. StatusInv'
  <2>1. BusyStatusHasOwner'
    BY ReconciledStatus DEF UpdaterInv, GetState, StatusInv, BusyStatusHasOwner, Pending
  <2>2. (downloaded => status \notin {"idle", "succeeded"})'
    <3>1. CASE transaction = 0
      BY <3>1, ReconciledStatus DEF UpdaterInv, GetState, StatusInv
    <3>2. CASE transaction # 0 /\ downloaded
      <4>1. transaction \in Transactions /\ from[transaction] = app /\ app \in Nat
        BY <3>2 DEF UpdaterInv, UpdaterTypeOK, StatusInv
      <4>2. outcome[transaction] # "completed"
        BY <4>1 DEF UpdaterInv, TransactionInv
      <4> QED BY <3>2, <4>2, ReconciledStatus DEF GetState, Pending
    <3> QED BY <3>1, <3>2 DEF GetState
  <2>3. (downloaded /\ transaction # 0 => from[transaction] = app)'
    BY DEF UpdaterInv, GetState, StatusInv
  <2> QED BY <2>1, <2>2, <2>3 DEF StatusInv
<1> QED BY <1>1, <1>2, <1>3 DEF UpdaterInv

LEMMA BeginsKeeps ==
  ASSUME UpdaterInv, NEW w \in Workers,
         NEW what \in {"check", "download", "prepare"}, NEW as,
         Begins(w, what, as), UNCHANGED <<available, downloaded, Transacted>>,
         <<what, as>> \in {<<"check", "checking">>, <<"download", "downloading">>,
                           <<"prepare", "preparing">>}
  PROVE  UpdaterInv'
<1>1. /\ operation = NoWorker /\ operation' = w
      /\ doing' = [doing EXCEPT ![w] = what]
      /\ status' = as /\ transaction' = 0
      /\ \/ what = "check" /\ as = "checking"
         \/ what = "download" /\ as = "downloading"
         \/ what = "prepare" /\ as = "preparing"
      /\ UNCHANGED <<available, downloaded, saved, prepared, outcome, helper, app, from>>
  BY DEF Begins, MayBegin, Transacted
<1>2. \A v \in Workers : doing[v] = "none"
  BY <1>1, WorkersAssumption DEF WorkersAssumption, UpdaterInv, LockInv
<1>3. \A v \in Workers : doing'[v] = IF v = w THEN what ELSE "none"
  BY <1>1, <1>2 DEF UpdaterInv, UpdaterTypeOK
<1>4. UpdaterTypeOK'
  BY <1>1 DEF UpdaterInv, UpdaterTypeOK, Pending
<1>5. LockInv'
  BY <1>1, <1>3, WorkersAssumption DEF WorkersAssumption, LockInv
<1>6. TransactionInv'
  BY <1>1 DEF UpdaterInv, UpdaterTypeOK, TransactionInv
<1>7. OperationInv'
  BY <1>1, <1>3 DEF OperationInv
<1>8. BusyStatusHasOwner'
  <2>1. operation' = w /\ doing'[w] = what
    BY <1>1, <1>3
  <2> QED BY <1>1, <2>1 DEF BusyStatusHasOwner
<1>9. StatusInv'
  BY <1>1, <1>8 DEF StatusInv
<1> QED BY <1>4, <1>5, <1>6, <1>7, <1>9 DEF UpdaterInv

LEMMA StartKeeps ==
  ASSUME UpdaterInv, NEW w \in Workers, Check(w) \/ Download(w) \/ Install(w)
  PROVE  UpdaterInv'
<1>1. CASE Refuse
  BY <1>1, LookKeeps DEF Refuse
<1>2. CASE ~Refuse
  BY <1>2, BeginsKeeps DEF Check, Download, Install
<1> QED BY <1>1, <1>2

\* Nobody else is inside an operation while w is, and w is out of it in the end.
LEMMA Alone ==
  ASSUME UpdaterInv, NEW w \in Workers, doing[w] # "none"
  PROVE  /\ operation = w /\ operation # NoWorker
         /\ \A v \in Workers : v # w => doing[v] = "none"
BY WorkersAssumption DEF WorkersAssumption, UpdaterInv, LockInv

LEMMA EndsKeeps ==
  ASSUME UpdaterInv, NEW w \in Workers, doing[w] # "none", Ends(w)
  PROVE  /\ \A v \in Workers : doing'[v] = "none"
         /\ LockInv' /\ OperationInv'
         /\ doing' \in [Workers -> {"none", "check", "download", "prepare", "save", "spawn", "launch"}]
         /\ operation' \in Workers \cup {NoWorker}
<1>1. \A v \in Workers : doing'[v] = "none"
  BY Alone DEF Ends, UpdaterInv, UpdaterTypeOK
<1>2. LockInv' /\ OperationInv'
  BY <1>1, WorkersAssumption DEF Ends, WorkersAssumption, LockInv, OperationInv
<1> QED BY <1>1, <1>2 DEF Ends, UpdaterInv, UpdaterTypeOK

LEMMA PrepareKeeps == ASSUME UpdaterInv, NEW w \in Workers, Prepare(w) PROVE UpdaterInv'
<1> USE DEF UpdaterInv
<1>1. CASE /\ prepared < MaxTransactions
           /\ Goes(w, "prepare", "save")
           /\ prepared' = prepared + 1
           /\ outcome' = [outcome EXCEPT ![prepared'] = "prepared"]
           /\ from' = [from EXCEPT ![prepared'] = app]
           /\ UNCHANGED <<transaction, saved, helper>>
  <2>1. /\ doing[w] = "prepare" /\ doing' = [doing EXCEPT ![w] = "save"]
        /\ prepared' = prepared + 1
        /\ outcome' = [outcome EXCEPT ![prepared'] = "prepared"]
        /\ from' = [from EXCEPT ![prepared'] = app]
        /\ UNCHANGED <<status, available, downloaded, operation, app, transaction, saved, helper>>
    BY <1>1 DEF Goes
  <2>2. transaction = 0 /\ \A v \in Workers : v # w => doing[v] = "none"
    BY <2>1, Alone DEF OperationInv
  <2>3. \A v \in Workers : doing'[v] = IF v = w THEN "save" ELSE "none"
    BY <2>1, <2>2 DEF UpdaterTypeOK
  <2>4. prepared' \in Transactions /\ prepared \in Nat
    BY <1>1, <2>1, UpdaterAssumption DEF UpdaterAssumption, UpdaterTypeOK, Transactions
  <2>5. UpdaterTypeOK'
    BY <1>1, <2>1, <2>4, UpdaterAssumption DEF UpdaterAssumption, UpdaterTypeOK, Outcomes, Transactions
  <2>6. LockInv'
    BY <2>1, <2>3, Alone DEF LockInv
  <2>7. TransactionInv'
    BY <2>1, <2>2, <2>4 DEF UpdaterTypeOK, TransactionInv, Transactions
  <2>8. OperationInv'
    BY <2>1, <2>2, <2>3, <2>4 DEF UpdaterTypeOK, OperationInv, Transactions
  <2>9. StatusInv'
    BY <2>1, <2>2, <2>3, Alone DEF StatusInv, BusyStatusHasOwner
  <2> QED BY <2>5, <2>6, <2>7, <2>8, <2>9
<1>2. CASE doing[w] = "prepare" /\ Fails(w) /\ UNCHANGED <<outcome, helper>>
  <2>1. LockInv' /\ OperationInv' /\ UpdaterTypeOK'
    BY <1>2, EndsKeeps DEF Fails, UpdaterTypeOK
  <2>2. TransactionInv' /\ StatusInv'
    BY <1>2 DEF Fails, TransactionInv, StatusInv, BusyStatusHasOwner, UpdaterTypeOK
  <2> QED BY <2>1, <2>2
<1> QED BY <1>1, <1>2 DEF Prepare

LEMMA SaveKeeps == ASSUME UpdaterInv, NEW w \in Workers, Save(w) PROVE UpdaterInv'
<1> USE DEF UpdaterInv
<1>1. CASE /\ Goes(w, "save", "spawn")
           /\ saved' = prepared
           /\ transaction' = prepared
           /\ UNCHANGED <<prepared, outcome, helper, from>>
  <2>1. /\ doing[w] = "save" /\ doing' = [doing EXCEPT ![w] = "spawn"]
        /\ saved' = prepared /\ transaction' = prepared
        /\ UNCHANGED <<status, available, downloaded, operation, app, prepared, outcome, helper, from>>
    BY <1>1 DEF Goes
  <2>2. prepared # 0 /\ from[prepared] = app /\ \A v \in Workers : v # w => doing[v] = "none"
    BY <2>1, Alone DEF OperationInv
  <2>3. \A v \in Workers : doing'[v] = IF v = w THEN "spawn" ELSE "none"
    BY <2>1, <2>2 DEF UpdaterTypeOK
  <2>4. prepared \in Transactions
    BY <2>2, UpdaterAssumption DEF UpdaterAssumption, UpdaterTypeOK, Transactions
  <2>5. UpdaterTypeOK'
    BY <2>1, <2>4 DEF UpdaterTypeOK
  <2>6. LockInv' /\ OperationInv'
    BY <2>1, <2>2, <2>3, Alone DEF LockInv, OperationInv
  <2>7. TransactionInv'
    BY <2>1, <2>4 DEF TransactionInv, Transactions
  <2>8. StatusInv'
    BY <2>1, <2>2, <2>3, Alone DEF StatusInv, BusyStatusHasOwner
  <2> QED BY <2>5, <2>6, <2>7, <2>8
<1>2. CASE /\ doing[w] = "save"
           /\ Ends(w)
           /\ status' = "failed" /\ transaction' = 0
           /\ saved' \in {saved, 0, prepared}
           /\ UNCHANGED <<available, downloaded, prepared, outcome, helper, app, from>>
  <2>1. /\ status' = "failed" /\ transaction' = 0 /\ saved' \in {saved, 0, prepared}
        /\ UNCHANGED <<available, downloaded, prepared, outcome, helper, app, from>>
    BY <1>2
  <2>2. LockInv' /\ OperationInv'
    BY <1>2, EndsKeeps
  <2>3. prepared \in Transactions \cup {0} /\ prepared \in Nat
    BY UpdaterAssumption DEF UpdaterAssumption, UpdaterTypeOK, Transactions
  <2>4. UpdaterTypeOK'
    BY <1>2, <2>1, <2>3, EndsKeeps DEF UpdaterTypeOK
  <2>5. TransactionInv' /\ StatusInv'
    BY <2>1, <2>3 DEF TransactionInv, StatusInv, BusyStatusHasOwner, UpdaterTypeOK
  <2> QED BY <2>2, <2>4, <2>5
<1> QED BY <1>1, <1>2 DEF Save

LEMMA LaunchKeeps ==
  ASSUME UpdaterInv, NEW w \in Workers, SpawnHelper(w) \/ Launched(w) \/ LaunchFails(w)
  PROVE  UpdaterInv'
<1> USE DEF UpdaterInv
<1>1. /\ doing[w] \in {"spawn", "launch"}
      /\ transaction = prepared /\ prepared # 0 /\ prepared \in Transactions
  BY UpdaterAssumption DEF UpdaterAssumption, SpawnHelper, Launched, LaunchFails, Goes, OperationInv,
     UpdaterTypeOK, Transactions
<1>2. CASE /\ Goes(w, "spawn", "launch")
           /\ helper' = [helper EXCEPT ![prepared] = "spawned"]
           /\ UNCHANGED <<transaction, saved, prepared, outcome, from>>
  <2>1. /\ doing[w] = "spawn" /\ doing' = [doing EXCEPT ![w] = "launch"]
        /\ UNCHANGED <<status, available, downloaded, operation, app>>
    BY <1>2 DEF Goes
  <2>2. \A v \in Workers : doing'[v] = IF v = w THEN "launch" ELSE "none"
    BY <2>1, Alone DEF UpdaterTypeOK
  <2>3. UpdaterTypeOK'
    BY <1>1, <1>2, <2>1 DEF UpdaterTypeOK
  <2>4. LockInv' /\ OperationInv'
    BY <1>1, <1>2, <2>1, <2>2, Alone DEF LockInv, OperationInv
  <2>5. TransactionInv' /\ StatusInv'
    BY <1>1, <1>2, <2>1, <2>2, Alone DEF TransactionInv, StatusInv, BusyStatusHasOwner
  <2> QED BY <2>3, <2>4, <2>5
<1>3. ASSUME Fails(w), outcome' = [outcome EXCEPT ![prepared] = "failed"],
             helper' \in {helper, [helper EXCEPT ![prepared] = "gone"]}
      PROVE  UpdaterInv'
  <2>1. LockInv' /\ OperationInv'
    BY <1>1, <1>3, EndsKeeps DEF Fails
  <2>2. UpdaterTypeOK'
    BY <1>1, <1>3, EndsKeeps DEF Fails, UpdaterTypeOK, Outcomes
  <2>3. TransactionInv' /\ StatusInv'
    BY <1>1, <1>3 DEF Fails, TransactionInv, StatusInv, BusyStatusHasOwner, UpdaterTypeOK
  <2> QED BY <2>1, <2>2, <2>3
<1>4. CASE Launched(w)
  <2>1. /\ Ends(w) /\ status' = Reconciled
        /\ UNCHANGED <<available, downloaded, transaction, saved, prepared, outcome, helper, app, from>>
        /\ outcome[transaction] = "waiting"
    BY <1>1, <1>4 DEF Launched, Transacted
  <2>2. status' \in Pending \cup {"failed", "rolled-back"}
    BY <1>1, <2>1, ReconciledStatus DEF Pending
  <2>3. UpdaterTypeOK'
    BY <1>1, <2>1, <2>2, EndsKeeps DEF UpdaterTypeOK
  <2>4. LockInv' /\ OperationInv'
    BY <1>1, <2>1, EndsKeeps
  <2>5. TransactionInv' /\ StatusInv'
    BY <1>1, <2>1, <2>2 DEF TransactionInv, StatusInv, BusyStatusHasOwner, Pending
  <2> QED BY <2>3, <2>4, <2>5
<1> QED BY <1>1, <1>2, <1>3, <1>4 DEF SpawnHelper, LaunchFails

LEMMA CheckKeeps ==
  ASSUME UpdaterInv, NEW w \in Workers, CheckEnds(w) \/ DownloadEnds(w)
  PROVE  UpdaterInv'
<1> USE DEF UpdaterInv
<1>1. /\ doing[w] \in {"check", "download"} /\ Ends(w) /\ transaction = 0
      /\ UNCHANGED <<transaction, saved, prepared, outcome, helper, app, from>>
      /\ status' \in {"error", "downloaded", "available", "not-available"}
      /\ available' \in BOOLEAN /\ downloaded' \in BOOLEAN
  BY DEF CheckEnds, DownloadEnds, OperationInv, Transacted, UpdaterTypeOK
<1>2. LockInv' /\ OperationInv'
  BY <1>1, EndsKeeps
<1>3. UpdaterTypeOK'
  BY <1>1, EndsKeeps DEF UpdaterTypeOK
<1>4. TransactionInv' /\ StatusInv'
  BY <1>1 DEF TransactionInv, StatusInv, BusyStatusHasOwner
<1> QED BY <1>2, <1>3, <1>4

LEMMA HelperKeeps == ASSUME UpdaterInv, NEW t \in Transactions, Helper(t) PROVE UpdaterInv'
<1> USE DEF UpdaterInv
<1>1. /\ UNCHANGED <<status, available, downloaded, transaction, operation, doing,
                      saved, prepared, app, from>>
      /\ helper' \in [Transactions -> {"none", "spawned", "locked", "gone"}]
  BY DEF Helper, HelperLocks, HelperProceeds, HelperSettles, HelperDies, UpdaterTypeOK
<1>2. \/ outcome' = outcome
      \/ /\ outcome[t] # "none"
         /\ \E o \in {"waiting", "failed", "rolled-back"} : outcome' = [outcome EXCEPT ![t] = o]
      \/ /\ outcome[t] # "none" /\ from[t] < app
         /\ \E o \in {"applying", "restarting", "completed"} : outcome' = [outcome EXCEPT ![t] = o]
  <2>1. outcome[t] = "waiting" /\ app # from[t] => from[t] < app
    BY DEF TransactionInv, UpdaterTypeOK
  <2>2. outcome[t] \in {"applying", "restarting"} => from[t] < app
    BY DEF TransactionInv
  <2>3. CASE HelperLocks(t) \/ HelperDies(t)
    BY <2>3 DEF HelperLocks, HelperDies
  <2>4. CASE HelperProceeds(t)
    BY <2>1, <2>2, <2>4 DEF HelperProceeds
  <2>5. CASE HelperSettles(t)
    BY <2>2, <2>5 DEF HelperSettles
  <2> QED BY <2>3, <2>4, <2>5 DEF Helper
<1>3. UpdaterTypeOK'
  BY <1>1, <1>2 DEF UpdaterTypeOK, Outcomes
<1>4. TransactionInv'
  BY <1>1, <1>2 DEF TransactionInv, UpdaterTypeOK
<1>5. LockInv' /\ OperationInv' /\ StatusInv'
  BY <1>1 DEF LockInv, OperationInv, StatusInv, BusyStatusHasOwner
<1> QED BY <1>3, <1>4, <1>5

LEMMA RestartKeeps ==
  ASSUME UpdaterInv, UpdaterRestarts, app' \in {app, app + 1} PROVE UpdaterInv'
<1> USE DEF UpdaterInv, UpdaterRestarts
<1>1. UpdaterTypeOK'
  <2>1. app' \in Nat
    BY DEF UpdaterTypeOK
  <2>2. doing' \in [Workers -> {"none", "check", "download", "prepare", "save", "spawn", "launch"}]
    OBVIOUS
  <2>3. UNCHANGED <<saved, prepared, outcome, helper, from>> /\ transaction' = saved
    OBVIOUS
  <2>4. /\ status' = "idle" /\ available' = FALSE /\ downloaded' = FALSE
        /\ operation' = NoWorker
    OBVIOUS
  <2> HIDE DEF UpdaterRestarts
  <2> QED BY <2>1, <2>2, <2>3, <2>4 DEF UpdaterTypeOK
<1>2. LockInv' /\ OperationInv' /\ StatusInv'
  BY WorkersAssumption DEF WorkersAssumption, LockInv, OperationInv, StatusInv, BusyStatusHasOwner
<1>3. TransactionInv'
  BY DEF TransactionInv, UpdaterTypeOK
<1> QED BY <1>1, <1>2, <1>3

-----------------------------------------------------------------------------
LEMMA UpdaterInitial == UpdaterInit => UpdaterInv
<1> SUFFICES ASSUME UpdaterInit PROVE UpdaterInv
  OBVIOUS
<1> USE DEF UpdaterInit
<1>1. prepared \in 0..MaxTransactions /\ \A t \in Transactions : t > 0
  BY UpdaterAssumption DEF UpdaterAssumption, Transactions
<1>2. UpdaterTypeOK
  BY <1>1 DEF UpdaterTypeOK, Outcomes
<1>3. LockInv /\ OperationInv /\ StatusInv
  BY WorkersAssumption DEF WorkersAssumption, LockInv, OperationInv, StatusInv, BusyStatusHasOwner
<1>4. TransactionInv
  BY <1>1 DEF TransactionInv, Transactions
<1> QED BY <1>2, <1>3, <1>4 DEF UpdaterInv

\* The session calls keep within their types.
LEMMA AskKeeps ==
  ASSUME SessionTypeOK, NEW w \in Workers,
         AskCreate(w) \/ AskClaim(w) \/ AskPoll(w) \/ AskReport(w) \/ AskStop(w)
  PROVE  SessionTypeOK'
<1> USE DEF SessionTypeOK
<1>1. Named \subseteq Sessions
  BY SessionAssumption DEF SessionAssumption, Named, Sessions
<1>2. \E what \in {"create", "claim", "poll", "report", "stop"}, id \in Sessions \cup {0} : Call(w, what, id)
  BY <1>1 DEF AskCreate, AskClaim, AskPoll, AskReport, AskStop
<1>3. PICK what \in {"create", "claim", "poll", "report", "stop"}, id \in Sessions \cup {0} : Call(w, what, id)
  BY <1>2
<1>4. asking' \in [Workers -> [what : {"none", "create", "claim", "poll", "report", "stop"},
                               id : Sessions \cup {0}, at : {"none", "asked", "answered"}]]
  BY <1>3 DEF Call
<1>5. UNCHANGED <<active, live, created>> /\ held' \in {held, 0}
  BY DEF AskCreate, AskClaim, AskPoll, AskReport, AskStop
<1> QED BY <1>4, <1>5

LEMMA ProceedKeeps == ASSUME SessionTypeOK, NEW w \in Workers, Proceed(w) PROVE SessionTypeOK'
<1> USE DEF SessionTypeOK
<1>1. ASSUME NEW id \in Sessions \cup {0}, Answered(w, id) \/ Return(w)
      PROVE  asking' \in [Workers -> [what : {"none", "create", "claim", "poll", "report", "stop"},
                               id : Sessions \cup {0}, at : {"none", "asked", "answered"}]]
  BY <1>1 DEF Answered, Return, NoCall
<1>2. asking[w].id \in Sessions \cup {0}
  OBVIOUS
<1>3. CASE Creates(w)
  <2>1. CASE created' = created + 1 /\ created < MaxSessions
    <3>1. created' \in Sessions /\ created' \in 0..MaxSessions
      BY <2>1, SessionAssumption DEF SessionAssumption, Sessions
    <3>2. live' \subseteq Sessions
      BY <1>3, <3>1 DEF Creates
    <3>3. Answered(w, created') \/ Return(w)
      BY <1>3 DEF Creates
    <3> QED BY <1>1, <1>3, <3>1, <3>2, <3>3 DEF Creates
  <2>2. CASE Return(w) /\ UNCHANGED <<created, live>>
    BY <1>1, <1>3, <2>2 DEF Creates
  <2> QED BY <1>3, <2>1, <2>2 DEF Creates
<1>4. CASE Finds(w)
  BY <1>1, <1>2, <1>4 DEF Finds
<1>5. CASE Deletes(w)
  <2>1. live' \subseteq live /\ (Answered(w, asking[w].id) \/ Return(w))
    BY <1>5 DEF Deletes
  <2> QED BY <1>1, <1>2, <1>5, <2>1 DEF Deletes
<1>6. CASE Stores(w) \/ Forgets(w)
  BY <1>1, <1>2, <1>6 DEF Stores, Forgets
<1> QED BY <1>3, <1>4, <1>5, <1>6 DEF Proceed

LEMMA OthersKeep ==
  /\ UpdaterInv /\ UNCHANGED updater => UpdaterInv'
  /\ SessionTypeOK /\ UNCHANGED session => SessionTypeOK'
  /\ SessionTypeOK /\ SessionRestarts => SessionTypeOK'
<1>1. UpdaterInv /\ UNCHANGED updater => UpdaterInv'
  BY DEF updater, UpdaterInv, UpdaterTypeOK, LockInv, TransactionInv, OperationInv, StatusInv,
         BusyStatusHasOwner
<1>2. SessionTypeOK /\ UNCHANGED session => SessionTypeOK'
  BY DEF session, SessionTypeOK
<1>3. SessionTypeOK /\ SessionRestarts => SessionTypeOK'
  BY DEF SessionRestarts, SessionTypeOK, NoCall
<1> QED BY <1>1, <1>2, <1>3

LEMMA SessionStepKeeps ==
  ASSUME Base, NEW w \in Workers,
         Transition(w) \/ Ungated(w) \/ SessionStep(w)
  PROVE  Base'
<1> USE DEF Base, TypeOK
<1>1. CASE Transition(w)
  <2>1. GetState
    BY <1>1 DEF Transition, GetState, Transacted
  <2>2. SessionTypeOK'
    BY <1>1, AskKeeps DEF Transition
  <2> QED BY <1>1, <2>1, <2>2, LookKeeps DEF Transition, Gates, UpdaterInv
<1>2. CASE Ungated(w)
  BY <1>2, AskKeeps, OthersKeep DEF Ungated, UpdaterInv
<1>3. CASE SessionStep(w)
  BY <1>3, ProceedKeeps, OthersKeep DEF SessionStep, UpdaterInv
<1> QED BY <1>1, <1>2, <1>3

LEMMA UpdateStepKeeps ==
  ASSUME Base, NEW w \in Workers,
         BeginInstall(w) \/ Update(w) \/ UpdateStep(w)
  PROVE  Base'
<1> USE DEF Base, TypeOK
<1>1. CASE BeginInstall(w)
  BY <1>1, StartKeeps, OthersKeep DEF BeginInstall, UpdaterInv
<1>2. CASE Update(w)
  BY <1>2, StartKeeps, OthersKeep DEF Update, UpdaterInv
<1>3. CASE UpdateStep(w)
  BY <1>3, CheckKeeps, PrepareKeeps, SaveKeeps, LaunchKeeps, OthersKeep
  DEF UpdateStep, Operate, UpdaterInv
<1> QED BY <1>1, <1>2, <1>3

LEMMA BaseInductive == Base /\ [Next]_vars => Base'
<1> SUFFICES ASSUME Base, [Next]_vars PROVE Base'
  OBVIOUS
<1> USE DEF Base, TypeOK
<1>1. CASE UNCHANGED vars
  BY <1>1, OthersKeep DEF vars, UpdaterInv
<1>2. CASE \E w \in Workers : Worker(w)
  BY <1>2, SessionStepKeeps, UpdateStepKeeps DEF Worker
<1>3. CASE RefusedForUpdate \/ Ask
  BY <1>3, LookKeeps, OthersKeep DEF RefusedForUpdate, Ask, UpdaterInv
<1>4. CASE StreamerStarts
  <2>1. GetState
    BY <1>4 DEF StreamerStarts, GetState, Transacted
  <2> QED BY <1>4, <2>1, LookKeeps, OthersKeep DEF StreamerStarts, UpdaterInv
<1>5. CASE StreamerEnds
  BY <1>5, OthersKeep DEF StreamerEnds, UpdaterInv
<1>6. CASE ServiceEnds /\ UNCHANGED <<updater, gate, streamer, exits>>
  <2>1. SessionTypeOK'
    BY <1>6 DEF ServiceEnds, SessionTypeOK
  <2> QED BY <1>6, <2>1, OthersKeep DEF UpdaterInv
<1>7. CASE \E t \in Transactions : Helper(t) /\ UNCHANGED <<session, gate, streamer, exits>>
  BY <1>7, HelperKeeps, OthersKeep DEF UpdaterInv
<1>8. CASE Restart
  <2>1. UpdaterInv'
    BY <1>8, RestartKeeps DEF Restart
  <2>2. SessionTypeOK'
    BY <1>8, OthersKeep DEF Restart
  <2>3. UpdaterTypeOK'
    BY <2>1 DEF UpdaterInv
  <2>4. exits' \in Nat
    BY <1>8 DEF Restart
  <2>5. gate' \in Workers \cup {NoWorker} /\ streamer' \in BOOLEAN
    BY <1>8 DEF Restart
  <2> QED BY <2>1, <2>2, <2>3, <2>4, <2>5
<1> QED BY <1>1, <1>2, <1>3, <1>4, <1>5, <1>6, <1>7, <1>8 DEF Next

LEMMA BaseInitial == Init => Base
<1> SUFFICES ASSUME Init PROVE Base
  OBVIOUS
<1>1. SessionTypeOK
  BY SessionAssumption DEF SessionAssumption, Init, SessionInit, SessionTypeOK, NoCall
<1> QED BY <1>1, UpdaterInitial DEF Init, Base, TypeOK, UpdaterInv

-----------------------------------------------------------------------------
\* For the lemmas about the gate the core does not end: across an end it can take
\* a helper that is just starting for one that has stopped.

\* A worker in a session call is not in an operation.
WorkerInv == \A w \in Workers : asking[w] # NoCall => doing[w] = "none"

\* A helper that lives is that of the transaction the updater knows, and whose
\* outcome refuses every other operation; before that its launcher waits for it.
Lives(t) == helper[t] \in {"spawned", "locked"}
Launching == \E w \in Workers : doing[w] = "launch"
HelperInv ==
  /\ \A t \in Transactions : Lives(t) =>
       /\ t = transaction /\ t = prepared /\ outcome[t] \in Unfinished \cup {"prepared"}
       /\ helper[t] = "spawned" \/ outcome[t] = "prepared" => Launching
  /\ \A w \in Workers : doing[w] \in {"save", "spawn"} =>
       outcome[prepared] = "prepared" /\ \A t \in Transactions : ~Lives(t)

\* Whoever moves the session or installs an update holds the gate, and while the
\* session moves no helper lives.
GateInv ==
  \A w \in Workers :
    /\ Installing(w) => gate = w
    /\ Transitions(w) => gate = w /\ \A t \in Transactions : ~Lives(t)

GatedInv == exits = 0 /\ Base /\ WorkerInv /\ HelperInv /\ GateInv

LEMMA GatedInitial == Init => GatedInv
<1> SUFFICES ASSUME Init PROVE GatedInv
  OBVIOUS
<1>1. WorkerInv /\ GateInv
  BY DEF Init, UpdaterInit, SessionInit, WorkerInv, GateInv, Installing, Transitions, NoCall, Gated
<1>2. HelperInv
  BY DEF Init, UpdaterInit, HelperInv, Lives
<1> QED BY <1>1, <1>2, BaseInitial DEF Init, GatedInv

\* While a helper lives no operation begins, and no session moves.
LEMMA HelperRefuses ==
  ASSUME GatedInv, NEW t \in Transactions, Lives(t)
  PROVE  ~MayBegin /\ ~(gate = NoWorker /\ Reconciled \notin Pending)
<1>1. transaction = t /\ outcome[t] \in Unfinished \cup {"prepared"} /\ t # 0
  BY DEF GatedInv, HelperInv, Transactions
<1>2. CASE helper[t] = "locked"
  BY <1>1, <1>2 DEF Reconciled, StatusOf, Unfinished, Pending, MayBegin
<1>3. CASE helper[t] = "spawned"
  <2>1. PICK w \in Workers : doing[w] = "launch"
    BY <1>3 DEF GatedInv, HelperInv, Launching, Lives
  <2>2. operation = w /\ gate = w
    BY <2>1 DEF GatedInv, Base, UpdaterInv, LockInv, GateInv, Installing
  <2> QED BY <2>2, WorkersAssumption DEF WorkersAssumption, MayBegin
<1> QED BY <1>2, <1>3 DEF Lives

\* Neither the worker inside an operation nor one that moves the session is another's.
LEMMA Exclusive ==
  ASSUME GatedInv, NEW v \in Workers, NEW w \in Workers, Transitions(v), Installing(w)
  PROVE  FALSE
<1>1. v = w
  BY DEF GatedInv, GateInv
<1>2. asking[v] # NoCall /\ doing[v] # "none"
  BY <1>1 DEF Transitions, Installing, Gated, NoCall
<1> QED BY <1>2 DEF GatedInv, WorkerInv

\* Steps that leave alone what the invariant is about.
LEMMA QuietKeeps ==
  ASSUME GatedInv, Base', exits' = exits,
         UNCHANGED <<doing, asking, gate, helper, outcome, transaction, prepared>>
  PROVE  GatedInv'
BY DEF GatedInv, WorkerInv, HelperInv, GateInv, Lives, Launching, Installing, Transitions

LEMMA SessionGated ==
  ASSUME GatedInv, Base', exits' = exits, NEW w \in Workers,
         (Idle(w) /\ (Transition(w) \/ Ungated(w))) \/ SessionStep(w)
  PROVE  GatedInv'
<1>1. UNCHANGED <<doing, helper, outcome, transaction, prepared>>
  BY DEF Transition, Ungated, SessionStep, updater, Transacted
<1>2. HelperInv'
  BY <1>1 DEF GatedInv, HelperInv, Lives, Launching
<1>3. asking \in [Workers -> [what : {"none", "create", "claim", "poll", "report", "stop"},
                             id : Sessions \cup {0}, at : {"none", "asked", "answered"}]]
  BY DEF GatedInv, Base, TypeOK, SessionTypeOK
<1>4. CASE Idle(w) /\ Transition(w)
  <2>1. gate = NoWorker /\ gate' = w /\ \A t \in Transactions : ~Lives(t)
    BY <1>4, HelperRefuses DEF Transition, Gates
  <2>2. \A v \in Workers : v # w => asking'[v] = asking[v]
    BY <1>3, <1>4 DEF Transition, AskCreate, AskClaim, AskPoll, Call
  <2>3. \A v \in Workers : ~Installing(v) /\ ~Transitions(v)
    BY <2>1, WorkersAssumption DEF WorkersAssumption, GatedInv, GateInv
  <2>4. WorkerInv'
    BY <1>1, <1>4, <2>2 DEF GatedInv, WorkerInv, Idle
  <2>5. GateInv'
    BY <1>1, <2>1, <2>2, <2>3 DEF GateInv, Installing, Transitions, Lives
  <2> QED BY <1>2, <2>4, <2>5 DEF GatedInv
<1>5. CASE Idle(w) /\ Ungated(w)
  <2>1. gate' = gate /\ asking'[w].what \in {"report", "stop"}
        /\ \A v \in Workers : v # w => asking'[v] = asking[v]
    BY <1>3, <1>5 DEF Ungated, AskReport, AskStop, Call
  <2>2. WorkerInv'
    BY <1>1, <1>5, <2>1 DEF GatedInv, WorkerInv, Idle
  <2>3. GateInv'
    BY <1>1, <2>1 DEF GatedInv, GateInv, Installing, Transitions, Lives, Gated
  <2> QED BY <1>2, <2>2, <2>3 DEF GatedInv
<1>6. CASE SessionStep(w)
  <2>1. /\ asking[w] # NoCall /\ gate' = IF gate = w /\ asking'[w] = NoCall THEN NoWorker ELSE gate
        /\ \A v \in Workers : v # w => asking'[v] = asking[v]
        /\ asking'[w] = NoCall \/ asking'[w].what = asking[w].what
    BY <1>3, <1>6 DEF SessionStep, Proceed, Creates, Finds, Deletes, Stores, Forgets, Is,
                      Answered, Return, NoCall
  <2>2. doing[w] = "none"
    BY <2>1 DEF GatedInv, WorkerInv
  <2>3. WorkerInv'
    BY <1>1, <2>1, <2>2 DEF GatedInv, WorkerInv
  <2>4. \A v \in Workers : Transitions(v)' => Transitions(v) /\ (v = w => asking'[w] # NoCall)
    BY <2>1 DEF Transitions, Gated, NoCall
  <2>5. GateInv'
    BY <1>1, <2>1, <2>2, <2>4 DEF GatedInv, GateInv, Installing, Lives
  <2> QED BY <1>2, <2>3, <2>5 DEF GatedInv
<1> QED BY <1>4, <1>5, <1>6

LEMMA BeginGated ==
  ASSUME GatedInv, Base', exits' = exits, NEW w \in Workers,
         Idle(w), BeginInstall(w) \/ Update(w)
  PROVE  GatedInv'
<1> USE DEF GatedInv
<1>1. doing \in [Workers -> {"none", "check", "download", "prepare", "save", "spawn", "launch"}]
  BY DEF Base, TypeOK, UpdaterTypeOK
<1>2. asking' = asking /\ helper' = helper /\ outcome' = outcome /\ prepared' = prepared
  BY DEF BeginInstall, Update, Install, Check, Download, Refuse, GetState, Begins, session, Transacted
<1>3. CASE Refuse
  <2>1. UNCHANGED <<doing, transaction>>
    BY <1>3 DEF Refuse, GetState
  <2>2. gate' = gate
    BY <2>1 DEF BeginInstall, Update, Idle
  <2> QED BY <1>2, <2>1, <2>2, QuietKeeps
<1>4. ASSUME NEW what \in {"check", "download", "prepare"}, NEW as, Begins(w, what, as),
             what = "prepare" => gate = NoWorker /\ gate' = w,
             what # "prepare" => gate' = gate
      PROVE  GatedInv'
  <2>1. \A t \in Transactions : ~Lives(t)
    BY <1>4, HelperRefuses DEF Begins
  <2>2. doing' = [doing EXCEPT ![w] = what] /\ doing[w] = "none" /\ asking[w] = NoCall
    BY <1>4 DEF Begins, Idle
  <2>3. \A v \in Workers : doing'[v] = IF v = w THEN what ELSE doing[v]
    BY <1>1, <2>2
  <2>4. WorkerInv'
    BY <1>2, <2>2, <2>3 DEF WorkerInv
  <2>5. HelperInv'
    BY <1>2, <2>1, <2>3 DEF HelperInv, Lives
  <2>6. GateInv'
    BY <1>2, <1>4, <2>1, <2>3, WorkersAssumption DEF WorkersAssumption, GateInv, Installing,
       Transitions, Lives
  <2> QED BY <2>4, <2>5, <2>6
<1>5. CASE BeginInstall(w) /\ ~Refuse
  <2>1. Begins(w, "prepare", "preparing") /\ gate = NoWorker
    BY <1>5 DEF BeginInstall, Install
  <2>2. gate' = w
    BY <1>1, <1>5, <2>1 DEF BeginInstall, Begins
  <2> QED BY <1>4, <2>1, <2>2
<1>6. CASE Update(w) /\ ~Refuse
  BY <1>4, <1>6 DEF Update, Check, Download
<1> QED BY <1>3, <1>5, <1>6

LEMMA UpdateGated ==
  ASSUME GatedInv, Base', exits' = exits, NEW w \in Workers, UpdateStep(w)
  PROVE  GatedInv'
<1> USE DEF GatedInv
<1>1. /\ asking' = asking /\ doing[w] # "none"
      /\ gate' = IF gate = w /\ doing'[w] = "none" THEN NoWorker ELSE gate
      /\ doing \in [Workers -> {"none", "check", "download", "prepare", "save", "spawn", "launch"}]
  BY DEF UpdateStep, session, Operate, CheckEnds, DownloadEnds, Prepare, Save, SpawnHelper, Launched,
         LaunchFails, Goes, Base, TypeOK, UpdaterTypeOK
<1>2. \A v \in Workers : v # w => doing[v] = "none"
  BY <1>1, Alone DEF Base
<1>3. \E at \in {"none", "save", "spawn", "launch"} : doing' = [doing EXCEPT ![w] = at]
  BY DEF UpdateStep, Operate, CheckEnds, DownloadEnds, Prepare, Save, SpawnHelper, Launched,
         LaunchFails, Goes, Ends, Fails
<1>4. \A v \in Workers : v # w => doing'[v] = "none"
  BY <1>1, <1>2, <1>3
<1>5. Installing(w)' => Installing(w)
  BY <1>1, <1>3 DEF UpdateStep, Operate, CheckEnds, DownloadEnds, Prepare, Save, SpawnHelper, Launched,
         LaunchFails, Goes, Ends, Fails, Installing
<1>6. WorkerInv'
  BY <1>1, <1>2, <1>4 DEF WorkerInv
<1>7. \/ doing[w] \in {"prepare", "save", "spawn", "launch"}
      \/ doing[w] \in {"check", "download"} /\ helper' = helper
  BY <1>1 DEF UpdateStep, Operate, CheckEnds, DownloadEnds, Prepare, Save, SpawnHelper, Launched,
         LaunchFails, Goes, Transacted
<1>8. GateInv'
  <2>1. ASSUME NEW v \in Workers, Installing(v)' PROVE gate' = v
    BY <1>1, <1>4, <1>5, <2>1 DEF GateInv, Installing
  <2>2. ASSUME NEW v \in Workers, Transitions(v)'
        PROVE  gate' = v /\ \A t \in Transactions : ~Lives(t)'
    <3>1. Transitions(v) /\ gate = v /\ \A t \in Transactions : ~Lives(t)
      BY <1>1, <2>2 DEF Transitions, GateInv
    <3>2. ~Installing(w)
      BY <3>1, Exclusive
    <3>3. doing[w] \in {"check", "download"} /\ helper' = helper
      BY <1>7, <3>2 DEF Installing
    <3>4. v # w
      BY <1>1, <3>1 DEF WorkerInv, Transitions, Gated, NoCall
    <3> QED BY <1>1, <3>1, <3>3, <3>4 DEF Lives
  <2> QED BY <2>1, <2>2 DEF GateInv
<1>9. HelperInv'
  <2> USE DEF Base, UpdaterInv, OperationInv
  <2>1. CASE CheckEnds(w) \/ DownloadEnds(w)
    <3>1. transaction = 0 /\ doing' = [doing EXCEPT ![w] = "none"] /\ helper' = helper
      BY <2>1 DEF CheckEnds, DownloadEnds, Ends, Transacted
    <3>2. \A t \in Transactions : ~Lives(t)
      BY <3>1 DEF HelperInv, Transactions
    <3> QED BY <1>1, <1>4, <3>1, <3>2 DEF HelperInv, Lives
  <2>2. CASE Prepare(w)
    <3>1. transaction = 0 /\ helper' = helper
      BY <2>2 DEF Prepare, Goes
    <3>2. \A t \in Transactions : ~Lives(t)
      BY <3>1 DEF HelperInv, Transactions
    <3>3. CASE /\ Goes(w, "prepare", "save")
               /\ prepared < MaxTransactions /\ prepared' = prepared + 1
               /\ outcome' = [outcome EXCEPT ![prepared'] = "prepared"]
      <4>1. prepared' \in Transactions
        BY <3>3, UpdaterAssumption DEF UpdaterAssumption, TypeOK, UpdaterTypeOK, Transactions
      <4> QED BY <3>1, <3>2, <3>3, <4>1 DEF HelperInv, Lives, TypeOK, UpdaterTypeOK
    <3>4. CASE Fails(w)
      <4>1. doing' = [doing EXCEPT ![w] = "none"]
        BY <3>4 DEF Fails, Ends
      <4> QED BY <1>1, <1>4, <3>1, <3>2, <4>1 DEF HelperInv, Lives
    <3> QED BY <2>2, <3>3, <3>4 DEF Prepare
  <2>3. CASE Save(w)
    <3>1. transaction = 0 /\ helper' = helper /\ outcome' = outcome /\ prepared' = prepared
          /\ outcome[prepared] = "prepared"
      BY <2>3 DEF Save, Goes, HelperInv
    <3>2. \A t \in Transactions : ~Lives(t)
      BY <3>1 DEF HelperInv, Transactions
    <3> QED BY <3>1, <3>2 DEF HelperInv, Lives
  <2>4. CASE SpawnHelper(w)
    <3>1. /\ doing[w] = "spawn" /\ transaction = prepared /\ outcome[prepared] = "prepared"
          /\ \A t \in Transactions : ~Lives(t)
      BY <2>4 DEF SpawnHelper, Goes, HelperInv
    <3>2. CASE /\ Goes(w, "spawn", "launch")
               /\ helper' = [helper EXCEPT ![prepared] = "spawned"]
               /\ UNCHANGED <<transaction, saved, prepared, outcome, from>>
      <4>1. doing'[w] = "launch" /\ Launching'
        BY <1>1, <3>2 DEF Goes, Launching
      <4>2. \A t \in Transactions : Lives(t)' => t = prepared
        BY <3>1, <3>2 DEF Lives, TypeOK, UpdaterTypeOK
      <4> QED BY <1>4, <3>1, <3>2, <4>1, <4>2 DEF HelperInv
    <3>3. CASE Fails(w) /\ UNCHANGED helper
      <4>1. doing' = [doing EXCEPT ![w] = "none"]
        BY <3>3 DEF Fails, Ends
      <4> QED BY <1>1, <1>4, <3>1, <3>3, <4>1 DEF HelperInv, Lives
    <3> QED BY <2>4, <3>2, <3>3 DEF SpawnHelper
  <2>5. CASE Launched(w)
    <3>1. /\ transaction = prepared /\ outcome[prepared] = "waiting" /\ helper[prepared] = "locked"
          /\ UNCHANGED <<helper, outcome, transaction, prepared>>
          /\ doing' = [doing EXCEPT ![w] = "none"]
      BY <2>5 DEF Launched, Transacted, Ends
    <3> QED BY <1>1, <1>4, <3>1 DEF HelperInv, Lives
  <2>6. CASE LaunchFails(w)
    <3>1. /\ helper' = [helper EXCEPT ![prepared] = "gone"]
          /\ doing' = [doing EXCEPT ![w] = "none"]
      BY <2>6 DEF LaunchFails, Fails, Ends
    <3>2. \A t \in Transactions : ~Lives(t)'
      BY <3>1 DEF HelperInv, Lives, TypeOK, UpdaterTypeOK
    <3> QED BY <1>1, <1>4, <3>1, <3>2 DEF HelperInv
  <2> QED BY <2>1, <2>2, <2>3, <2>4, <2>5, <2>6 DEF UpdateStep, Operate
<1> QED BY <1>6, <1>8, <1>9

LEMMA HelperGated ==
  ASSUME GatedInv, Base', exits' = exits, NEW t \in Transactions, Helper(t),
         UNCHANGED <<session, gate>>
  PROVE  GatedInv'
<1> USE DEF GatedInv
<1>1. /\ Lives(t) /\ UNCHANGED <<doing, transaction, prepared, asking, gate>>
      /\ \A s \in Transactions : s # t => helper'[s] = helper[s] /\ outcome'[s] = outcome[s]
  BY DEF Helper, HelperLocks, HelperProceeds, HelperSettles, HelperDies, Lives, session, Base, TypeOK,
         UpdaterTypeOK
<1>2. WorkerInv' /\ GateInv'
  BY <1>1 DEF WorkerInv, GateInv, Installing, Transitions, Lives
<1>3. t = transaction /\ t = prepared
  BY <1>1 DEF HelperInv
<1>4. Lives(t)' => outcome'[t] \in Unfinished \cup {"prepared"}
  BY <1>1 DEF HelperInv, Helper, HelperLocks, HelperProceeds, HelperSettles, HelperDies, Lives, Base,
              TypeOK, UpdaterTypeOK, Unfinished
<1>5. Lives(t)' /\ (helper'[t] = "spawned" \/ outcome'[t] = "prepared") => Launching
  BY <1>1 DEF HelperInv, Helper, HelperLocks, HelperProceeds, HelperSettles, HelperDies, Lives, Base,
              TypeOK, UpdaterTypeOK
<1>6. \A w \in Workers : doing[w] \notin {"save", "spawn"}
  BY <1>1 DEF HelperInv
<1>7. HelperInv'
  BY <1>1, <1>3, <1>4, <1>5, <1>6 DEF HelperInv, Lives, Launching
<1> QED BY <1>2, <1>7

LEMMA GatedInductive == MaxExits = 0 /\ GatedInv /\ [Next]_vars => GatedInv'
<1> SUFFICES ASSUME MaxExits = 0, GatedInv, [Next]_vars PROVE GatedInv'
  OBVIOUS
<1>1. Base'
  BY BaseInductive DEF GatedInv
<1>2. ~Restart
  BY DEF Restart, GatedInv
<1>3. CASE UNCHANGED vars
  BY <1>1, <1>3, QuietKeeps DEF vars, updater, session
<1>4. CASE \E w \in Workers : Worker(w)
  <2>1. PICK w \in Workers : Worker(w)
    BY <1>4
  <2>2. exits' = exits
    BY <2>1 DEF Worker, Transition, Ungated, BeginInstall, Update, SessionStep, UpdateStep
  <2> QED BY <1>1, <2>1, <2>2, SessionGated, BeginGated, UpdateGated DEF Worker
<1>5. CASE RefusedForUpdate \/ Ask \/ StreamerStarts \/ StreamerEnds
  BY <1>1, <1>5, QuietKeeps DEF RefusedForUpdate, Ask, StreamerStarts, StreamerEnds, GetState, updater,
                                session, Transacted
<1>6. CASE ServiceEnds /\ UNCHANGED <<updater, gate, streamer, exits>>
  BY <1>1, <1>6, QuietKeeps DEF ServiceEnds, updater
<1>7. CASE \E t \in Transactions : Helper(t) /\ UNCHANGED <<session, gate, streamer, exits>>
  BY <1>1, <1>7, HelperGated
<1> QED BY <1>2, <1>3, <1>4, <1>5, <1>6, <1>7 DEF Next

-----------------------------------------------------------------------------
\* Every variable stays within its type, across any number of ends of the core.
THEOREM TypeCorrect == Spec => []TypeOK
<1>1. Base => TypeOK
  BY DEF Base
<1> QED BY <1>1, BaseInitial, BaseInductive, PTL DEF Spec

\* A status that refuses every operation (begin_operation) belongs to a worker that
\* will end it, across any number of ends of the core.
THEOREM BusyHasOwner == Spec => []BusyStatusHasOwner
<1>1. Base => BusyStatusHasOwner
  BY DEF Base, UpdaterInv, StatusInv
<1> QED BY <1>1, BaseInitial, BaseInductive, PTL DEF Spec

\* A verified download can be installed whenever nothing else is going on
\* (restore_downloaded_status), across any number of ends of the core.
THEOREM DownloadInstallable == Spec => []DownloadStaysInstallable
<1>1. Base => DownloadStaysInstallable
  <2> SUFFICES ASSUME Base, downloaded, operation = NoWorker
               PROVE  status \in CanInstall \cup Pending
    BY DEF DownloadStaysInstallable
  <2>1. status \notin {"idle", "succeeded", "checking", "downloading"}
    BY WorkersAssumption DEF WorkersAssumption, Base, UpdaterInv, StatusInv, BusyStatusHasOwner
  <2> QED BY <2>1 DEF Base, TypeOK, UpdaterTypeOK, CanInstall, Pending
<1> QED BY <1>1, BaseInitial, BaseInductive, PTL DEF Spec

\* While the core runs no two helpers work on the installation, for any number of
\* workers and transactions (begin_operation, helper_is_running).
THEOREM HelperAlone == ASSUME MaxExits = 0 PROVE Spec => []OneHelper
<1>1. GatedInv => OneHelper
  BY DEF GatedInv, HelperInv, Lives, OneHelper
<1>2. GatedInv /\ [Next]_vars => GatedInv'
  BY GatedInductive
<1> QED BY <1>1, <1>2, GatedInitial, PTL DEF Spec

\* While the core runs no session call passes an update that is prepared or applied
\* (session_update_gate), for any number of workers, sessions and transactions.
THEOREM SessionsWait == ASSUME MaxExits = 0 PROVE Spec => []NoTransitionUnderUpdate
<1>1. GatedInv => NoTransitionUnderUpdate
  BY Exclusive DEF GatedInv, GateInv, Lives, NoTransitionUnderUpdate
<1>2. GatedInv /\ [Next]_vars => GatedInv'
  BY GatedInductive
<1> QED BY <1>1, <1>2, GatedInitial, PTL DEF Spec

=============================================================================
