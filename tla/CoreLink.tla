------------------------------ MODULE CoreLink ------------------------------
(***************************************************************************)
(* Shell and core together: CoreClient and CoreRequests over the two pipes *)
(* of one core process, its exits and crashes, and what the link promises. *)
(***************************************************************************)
EXTENDS CoreRequests, CoreClient

CONSTANT MaxCrashes   \* bound on the exits and crashes of the core by itself
ASSUME CrashesAssumption == MaxCrashes \in Nat

VARIABLE crashes

vars == <<pipes, core, client, crashes>>

Init == PipesInit /\ CoreInit /\ ClientInit /\ crashes = 0

\* The steps of the shell leave the core's own state alone, and the reverse.
Shell ==
    /\ \/ ShellStart \/ RestartFires \/ Started \/ FailedToStart
       \/ ProcessError \/ Finished \/ Stop \/ Escalate
       \/ \E m \in {"control", "background"} : RequestSent(m)
       \/ \E id \in Ids : CancelRequest(id) \/ Timeout(id) \/ Retry(id)
       \/ ReadLine \/ Discard \/ BadLine
    /\ UNCHANGED <<core, crashes>>

Core ==
    /\ ReadRequest \/ ReadCancel \/ \E id \in Ids : Worker(id)
    /\ UNCHANGED <<client, crashes>>

\* main returns at the end of its input.
CoreEof ==
    /\ CoreRuns /\ blocked /\ toCore = <<>>
    /\ process' = "exited"
    /\ CoreGone
    /\ UNCHANGED <<client, crashes>>

CoreKilled ==
    /\ process = "dying"
    /\ process' = "crashed"
    /\ CoreGone
    /\ UNCHANGED <<client, crashes>>

\* main returns an error, or the process crashes.
CoreFails ==
    /\ process = "up"
    /\ crashes < MaxCrashes /\ crashes' = crashes + 1
    /\ process' \in {"exited", "crashed"}
    /\ CoreGone
    /\ UNCHANGED client

Next == Shell \/ Core \/ CoreEof \/ CoreKilled \/ CoreFails

Spec == Init /\ [][Next]_vars

\* Sockets notify, timers fire and threads run; deadlines bound every method.
\* The user need not do anything, and nothing fails by necessity.
FairSpec ==
    /\ Spec
    /\ WF_vars(RestartFires /\ UNCHANGED <<core, crashes>>)
    /\ WF_vars((Started \/ FailedToStart) /\ UNCHANGED <<core, crashes>>)
    /\ WF_vars((Finished \/ ReadLine \/ Discard) /\ UNCHANGED <<core, crashes>>)
    /\ WF_vars(Escalate /\ UNCHANGED <<core, crashes>>)
    /\ \A id \in Ids :
          /\ WF_vars(Timeout(id) /\ UNCHANGED <<core, crashes>>)
          /\ WF_vars(Worker(id) /\ UNCHANGED <<client, crashes>>)
    /\ WF_vars((ReadRequest \/ ReadCancel) /\ UNCHANGED <<client, crashes>>)
    /\ WF_vars(CoreEof \/ CoreKilled)

---------------------------------------------------------------------------
(* Properties *)

\* Every variable stays within its type.
TypeOK ==
    /\ PipesTypeOK /\ CoreTypeOK /\ ClientTypeOK
    /\ crashes \in Nat

\* A method is never run twice: a busy answer means that nothing was run.
AtMostOnce == \A id \in Ids : executed[id] <= 1

\* A request is waited for until it has ended, and its caller is told at most
\* once; only the caller of the handshake, the client itself, need not be.
ToldOnce ==
    \A id \in Ids :
        /\ told[id] <= 1
        /\ (id \in pending) <=> (method[id] # "none" /\ got[id] = "none")
        /\ method[id] \in {"control", "background"} =>
              (told[id] = 1) = (got[id] # "none")

\* A retry of a refused request never meets an earlier copy of itself: the
\* duplicate-id rule of the core is not what answers busy.
NoDuplicateRefused ==
    CoreRuns /\ toCore # <<>> /\ Head(toCore).type = "request" =>
        Head(toCore).id \notin active

\* Background methods never take the workers kept for the others.
ControlReserve ==
    /\ Cardinality(active) <= MaxActive
    /\ Cardinality(Background) <= MaxBackground

\* Ready is only said of a process that answered the handshake of this start.
ReadyIsGreeted == link = "ready" => hello # 0 /\ got[hello] = "result"

Caller == INSTANCE RequestPromise WITH
    end <- [id \in Ids |-> IF method[id] = "none" THEN "unknown"
                           ELSE IF got[id] = "none" THEN "open" ELSE got[id]],
    ran <- [id \in Ids |-> executed[id] > 0]

\* The link keeps the promise made to the caller of each request.
KeepsPromise == Caller!Spec

\* Every request comes to an end, also one that is refused again and again, one
\* that outlives its process, and one made from inside a failure.  (No request is
\* made twice, so there are times at which none is waited for.)
EveryRequestEnds == []<>(pending = {})

\* After a failure the link is ready again, unless it is stopped, has used up its
\* restarts, or was told of an error that did not end the process or of a
\* malformed line.
GaveUp == attempts = MaxRestarts /\ ~restartTimer /\ process = "none"
LinkRecovers ==
    link = "failed" /\ ~manualStop ~> link = "ready" \/ manualStop \/ GaveUp \/ errors > 0

=============================================================================
