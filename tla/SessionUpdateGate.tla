-------------------------- MODULE SessionUpdateGate --------------------------
(***************************************************************************)
(* Sessions against updates (dispatch in native/opennow-core/src/main.rs): *)
(* the calls that move a session and the installation of an update take    *)
(* one gate, session calls are refused while an update waits for the       *)
(* application to end, and an installation while there is a session.       *)
(***************************************************************************)
EXTENDS Updater, CloudSession

CONSTANT MaxExits   \* bound on the ends of the core and of the application
ASSUME ExitsAssumption == MaxExits \in Nat

VARIABLES
    gate,      \* who holds session_update_gate
    streamer,  \* the native streamer is neither stopped nor failed
    exits

vars == <<updater, session, gate, streamer, exits>>

Idle(w) == doing[w] = "none" /\ asking[w] = NoCall

\* The session call under the gate; streamer.start is one, but has no session.
Gates(w) == gate = NoWorker /\ gate' = w

\* The transition is refused with update_pending; its check reconciles.
RefusedForUpdate == gate = NoWorker /\ GetState /\ UNCHANGED <<session, gate, streamer, exits>>

\* Mutated: sessions are not refused while an update waits.
Transition_Unchecked(w) ==
    /\ Gates(w)
    /\ AskCreate(w) \/ AskClaim(w) \/ AskPoll(w)
    /\ UNCHANGED <<updater, streamer, exits>>

Transition(w) ==
    /\ Gates(w)
    /\ Reconciled \notin Pending
    /\ status' = Reconciled
    /\ AskCreate(w) \/ AskClaim(w) \/ AskPoll(w)
    /\ UNCHANGED <<available, downloaded, transaction, operation, doing, Transacted,
                   streamer, exits>>

\* streamer.start holds the gate only as long as it takes to start a thread.
StreamerStarts ==
    /\ gate = NoWorker
    /\ Reconciled \notin Pending
    /\ status' = Reconciled
    /\ ~streamer /\ streamer' = TRUE
    /\ UNCHANGED <<available, downloaded, transaction, operation, doing, Transacted,
                   session, gate, exits>>

StreamerEnds ==
    /\ streamer /\ streamer' = FALSE
    /\ UNCHANGED <<updater, session, gate, exits>>

Ungated(w) ==
    /\ AskReport(w) \/ AskStop(w)
    /\ UNCHANGED <<updater, gate, streamer, exits>>

\* A worker goes on with its session call; the guard is dropped when it returns.
SessionStep(w) ==
    /\ Proceed(w)
    /\ gate' = IF gate = w /\ asking'[w] = NoCall THEN NoWorker ELSE gate
    /\ UNCHANGED <<updater, streamer, exits>>

\* updater.install of a core that holds no session.
BeginInstall(w) ==
    /\ gate = NoWorker
    /\ active = 0 /\ ~streamer
    /\ Install(w)
    /\ gate' = IF doing'[w] = "none" THEN NoWorker ELSE w
    /\ UNCHANGED <<session, streamer, exits>>

Update(w) ==
    /\ Check(w) \/ Download(w)
    /\ UNCHANGED <<session, gate, streamer, exits>>

UpdateStep(w) ==
    /\ Operate(w)
    /\ gate' = IF gate = w /\ doing'[w] = "none" THEN NoWorker ELSE gate
    /\ UNCHANGED <<session, streamer, exits>>

Worker(w) ==
    \/ Idle(w) /\ (Transition(w) \/ Ungated(w) \/ BeginInstall(w) \/ Update(w))
    \/ SessionStep(w) \/ UpdateStep(w)

Ask == GetState /\ UNCHANGED <<session, gate, streamer, exits>>

\* The core ends and is started again, alone or with the whole application.
Restart ==
    /\ exits < MaxExits /\ exits' = exits + 1
    /\ UpdaterRestarts /\ SessionRestarts
    /\ app' \in {app, app + 1}
    /\ gate' = NoWorker /\ streamer' = FALSE

Next ==
    \/ \E w \in Workers : Worker(w)
    \/ RefusedForUpdate \/ Ask \/ StreamerStarts \/ StreamerEnds
    \/ ServiceEnds /\ UNCHANGED <<updater, gate, streamer, exits>>
    \/ \E t \in Transactions : Helper(t) /\ UNCHANGED <<session, gate, streamer, exits>>
    \/ Restart

Init ==
    /\ UpdaterInit /\ SessionInit
    /\ gate = NoWorker /\ streamer = FALSE /\ exits = 0

Spec == Init /\ [][Next]_vars

\* Requests have deadlines, the helper's preparation has one, and the helper
\* that has been started goes on or dies.
FairSpec ==
    /\ Spec
    /\ \A w \in Workers :
          /\ WF_vars(SessionStep(w))
          /\ WF_vars(UpdateStep(w))

---------------------------------------------------------------------------
(* Properties *)

\* Every variable stays within its type.
TypeOK ==
    /\ UpdaterTypeOK /\ SessionTypeOK
    /\ gate \in Workers \cup {NoWorker}
    /\ streamer \in BOOLEAN /\ exits \in Nat

Installing(w) == doing[w] \in {"prepare", "save", "spawn", "launch"}
Transitions(w) == asking[w].what \in Gated

\* While a session is being created, claimed or polled no update is being
\* prepared, and no helper waits for the application to end or replaces it.
NoTransitionUnderUpdate ==
    \A w \in Workers : Transitions(w) =>
        /\ \A v \in Workers : ~Installing(v)
        /\ \A t \in Transactions :
              ~(helper[t] = "locked" /\ outcome[t] \in {"waiting", "applying"})

\* No two helpers work on the installation at a time.
OneHelper ==
    \A s, t \in Transactions :
        helper[s] \in {"spawned", "locked"} /\ helper[t] \in {"spawned", "locked"} => s = t

\* A status that refuses every operation belongs to one that will end it.
BusyStatusHasOwner ==
    /\ status = "checking" => \E w \in Workers : operation = w /\ doing[w] = "check"
    /\ status = "downloading" => \E w \in Workers : operation = w /\ doing[w] = "download"
    /\ status = "preparing" /\ transaction = 0 =>
          \E w \in Workers : operation = w /\ doing[w] \in {"prepare", "save"}

CanInstall == {"downloaded", "error", "available", "not-available", "failed", "rolled-back"}

\* A verified download can be installed whenever nothing else is going on,
\* whatever checks and downloads have failed since.
DownloadStaysInstallable ==
    downloaded /\ operation = NoWorker => status \in CanInstall \cup Pending

\* An installation is rejected while there is a session: one that the core has
\* created or claimed, that the service has, and that nobody asked to stop.
InstallRejectedWithSession ==
    \A w \in Workers : Installing(w) => held \notin live

\* Every installation that is asked for is decided while the core runs.
InstallDecided == \A w \in Workers : Installing(w) ~> ~Installing(w)
=============================================================================
