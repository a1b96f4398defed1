----------------------------- MODULE CoreClient -----------------------------
(***************************************************************************)
(* The shell's side of the link (opennow-qt/src/core/CoreClient.cpp): the  *)
(* pending requests with their deadlines and busy retries, the handshake,  *)
(* the restarts after a failure, and stop().  All of it runs on the GUI    *)
(* thread, one slot after the other; a slot connected to requestFailed may *)
(* call request() again from inside it.                                    *)
(***************************************************************************)
EXTENDS CorePipes

CONSTANTS
    MaxRestarts,  \* consecutive automatic restarts, 3 in the code
    MaxErrors     \* bound on malformed lines and on errors of the process object
ASSUME ClientAssumption == MaxRestarts \in Nat /\ MaxErrors \in Nat

VARIABLES
    link,          \* m_state
    pending,       \* m_pending
    retrying,      \* those of it whose retryAtMs is set
    nextId,        \* m_nextRequestId
    hello,         \* m_handshakeRequestId, 0 when empty
    attempts,      \* m_restartAttempts
    restartTimer,  \* m_restartTimer is active
    manualStop,    \* m_manualStop
    blocked,       \* stop() has closed the write channel and waits for the end
    got,           \* what each request came to
    told,          \* how often its caller was told
    errors         \* malformed lines and process errors so far

client == <<link, pending, retrying, nextId, hello, attempts, restartTimer,
            manualStop, blocked, got, told, errors>>

Links == {"stopped", "starting", "handshaking", "ready", "failed", "stopping"}
Listening == link \in {"ready", "handshaking"}

Writable == QRunning /\ ~blocked

\* writeMessage; what is written to a process that is gone is lost.
Send(msg) == toCore' = IF CoreRuns THEN Append(toCore, msg) ELSE toCore

\* Every id of a set comes to the same end.
Ended(ids, end) == [id \in Ids |-> IF id \in ids THEN end ELSE got[id]]
Told(ids) == [id \in Ids |-> IF id \in ids THEN told[id] + 1 ELSE told[id]]

NewId == nextId <= MaxRequests

\* failAll: the map is emptied first, so that a request made by a slot that is
\* told of a failure stays in it.  What is dropped is ended without being told.
FailAll(dropped) ==
    /\ retrying' = {}
    /\ got' = Ended(pending \cup dropped, "failure")
    /\ told' = Told(pending \ dropped)
    /\ \/ /\ pending' = {}
          /\ UNCHANGED <<nextId, toCore, method>>
       \/ /\ Writable /\ NewId /\ pending \ dropped # {}
          /\ pending' = {nextId}
          /\ method' = [method EXCEPT ![nextId] = "control"]
          /\ Send(Request(nextId))
          /\ nextId' = nextId + 1

\* The same where the process is gone: no slot can make a request.
FailAllGone ==
    /\ retrying' = {} /\ pending' = {}
    /\ got' = Ended(pending, "failure")
    /\ told' = Told(pending)
    /\ UNCHANGED <<nextId, method>>

ScheduleRestart ==
    IF manualStop \/ restartTimer \/ attempts >= MaxRestarts
    THEN UNCHANGED <<restartTimer, attempts>>
    ELSE restartTimer' = TRUE /\ attempts' = attempts + 1

\* protocolFailure: tell everyone, then kill.
ProtocolFailure(dropped) ==
    /\ link' = "failed"
    /\ FailAll(dropped)
    /\ process' = IF process = "up" THEN "dying" ELSE process
    /\ UNCHANGED <<hello, attempts, restartTimer, manualStop, blocked>>

---------------------------------------------------------------------------
Start ==
    /\ process = "none"
    /\ process' = "starting"
    /\ link' = "starting"
    /\ manualStop' = FALSE
    /\ toShell' = <<>>
    /\ UNCHANGED <<toCore, method, pending, retrying, nextId, hello, attempts,
                   blocked, got, told, errors>>

ShellStart == ~blocked /\ Start /\ UNCHANGED restartTimer

RestartFires ==
    /\ restartTimer /\ ~blocked
    /\ restartTimer' = FALSE
    /\ IF ~manualStop /\ process = "none" THEN Start
       ELSE UNCHANGED <<pipes, link, pending, retrying, nextId, hello, attempts,
                        manualStop, blocked, got, told, errors>>

\* started(): the first request of a process is the handshake; inside stop() it
\* can no longer be written.
Started ==
    /\ process = "starting" /\ NewId
    /\ process' = "up"
    /\ link' = "handshaking"
    /\ nextId' = nextId + 1
    /\ method' = [method EXCEPT ![nextId] = "hello"]
    /\ IF blocked
       THEN /\ hello' = 0
            /\ got' = [got EXCEPT ![nextId] = "failure"]
            /\ told' = [told EXCEPT ![nextId] = @ + 1]
            /\ UNCHANGED <<toCore, pending>>
       ELSE /\ hello' = nextId
            /\ toCore' = Append(toCore, Request(nextId))
            /\ pending' = pending \cup {nextId}
            /\ UNCHANGED <<got, told>>
    /\ UNCHANGED <<toShell, retrying, attempts, restartTimer, manualStop, blocked, errors>>

\* Mutated: a core that cannot be started is not tried again.
FailedToStart_GivesUp ==
    /\ process = "starting"
    /\ process' = "none"
    /\ link' = "failed"
    /\ FailAllGone
    /\ blocked' = FALSE
    /\ UNCHANGED <<toCore, toShell, hello, attempts, restartTimer, manualStop, errors>>

\* errorOccurred(FailedToStart)
FailedToStart ==
    /\ process = "starting"
    /\ process' = "none"
    /\ link' = "failed"
    /\ FailAllGone
    /\ ScheduleRestart
    /\ blocked' = FALSE
    /\ UNCHANGED <<toCore, toShell, hello, manualStop, errors>>

\* errorOccurred of a process that goes on: nothing is killed or restarted.
ProcessError ==
    /\ QRunning /\ ~blocked
    /\ errors < MaxErrors /\ errors' = errors + 1
    /\ link' = "failed"
    /\ FailAll({})
    /\ UNCHANGED <<process, toShell, hello, attempts, restartTimer, manualStop, blocked>>

\* errorOccurred(Crashed) and finished(), once all output has been read.
Finished ==
    /\ process \in {"exited", "crashed"} /\ toShell = <<>>
    /\ process' = "none"
    /\ blocked' = FALSE
    /\ IF process = "exited" /\ link = "stopping"
       THEN /\ link' = "stopped"
            /\ UNCHANGED <<pending, retrying, nextId, method, attempts, restartTimer, got, told>>
       ELSE /\ link' = "failed"
            /\ FailAllGone
            /\ ScheduleRestart
    /\ UNCHANGED <<toCore, toShell, hello, manualStop, errors>>

\* stop(), up to the wait for the process.
Stop ==
    /\ ~blocked
    /\ manualStop' = TRUE
    /\ restartTimer' = FALSE
    /\ IF process = "none"
       THEN /\ link' = "stopped"
            /\ UNCHANGED <<toCore, method, pending, retrying, nextId, got, told, blocked>>
       ELSE /\ link' = "stopping"
            /\ FailAll({})
            /\ blocked' = TRUE
    /\ UNCHANGED <<process, toShell, hello, attempts, errors>>

\* terminate() or kill() after the graceful wait.
Escalate ==
    /\ blocked /\ process = "up"
    /\ process' = "dying"
    /\ UNCHANGED <<toCore, toShell, method, client>>

---------------------------------------------------------------------------
\* request() asks for a running process only.
RequestSent(m) ==
    /\ Writable /\ NewId
    /\ method' = [method EXCEPT ![nextId] = m]
    /\ pending' = pending \cup {nextId}
    /\ Send(Request(nextId))
    /\ nextId' = nextId + 1
    /\ UNCHANGED <<process, toShell, link, retrying, hello, attempts, restartTimer,
                   manualStop, blocked, got, told, errors>>

\* One pending request is ended and told.
Complete(id, end) ==
    /\ pending' = pending \ {id}
    /\ retrying' = retrying \ {id}
    /\ got' = Ended({id}, end)
    /\ told' = Told({id})

\* Mutated: the shell forgets a cancelled request without telling its caller.
CancelRequest_Silent(id) ==
    /\ id \in pending /\ ~blocked
    /\ pending' = pending \ {id}
    /\ retrying' = retrying \ {id}
    /\ IF Writable THEN Send(Cancel(id)) ELSE UNCHANGED toCore
    /\ UNCHANGED <<process, toShell, method, link, nextId, hello, attempts, restartTimer,
                   manualStop, blocked, got, told, errors>>

\* Nobody but the client knows the id of the handshake.
CancelRequest(id) ==
    /\ id \in pending /\ id # hello /\ ~blocked
    /\ Complete(id, "failure")
    /\ IF Writable THEN Send(Cancel(id)) ELSE UNCHANGED toCore
    /\ UNCHANGED <<process, toShell, method, link, nextId, hello, attempts, restartTimer,
                   manualStop, blocked, errors>>

\* Mutated: a request that waits for its retry has no deadline.
Timeout_NotRetrying(id) ==
    /\ id \in pending \ retrying /\ ~blocked
    /\ IF id = hello
       THEN ProtocolFailure({id}) /\ UNCHANGED <<toShell, errors>>
       ELSE CancelRequest(id)

\* processTimeouts, for a deadline that has passed ...
Timeout(id) ==
    /\ id \in pending /\ ~blocked
    /\ IF id = hello
       THEN ProtocolFailure({id}) /\ UNCHANGED <<toShell, errors>>
       ELSE CancelRequest(id)

\* Mutated: the request stays due for another retry.
Retry_StaysDue(id) ==
    /\ id \in retrying /\ id \in pending /\ Writable
    /\ Send(Request(id))
    /\ UNCHANGED <<process, toShell, method, client>>

\* ... and for a retry that is due.
Retry(id) ==
    /\ id \in retrying /\ id \in pending /\ ~blocked
    /\ IF Writable
       THEN /\ Send(Request(id))
            /\ retrying' = retrying \ {id}
            /\ UNCHANGED <<pending, got, told>>
       ELSE Complete(id, "failure") /\ UNCHANGED toCore
    /\ UNCHANGED <<process, toShell, method, link, nextId, hello, attempts, restartTimer,
                   manualStop, blocked, errors>>

---------------------------------------------------------------------------
(* processStdout and processLine *)

\* Mutated: an answer is passed on whether or not it is still waited for.
ReadLine_AnyId ==
    /\ QRunning /\ toShell # <<>> /\ Listening
    /\ toShell' = Tail(toShell)
    /\ LET id == Head(toShell).id IN
       /\ Head(toShell).code # "busy"
       /\ Complete(id, IF Head(toShell).code = "ok" THEN "result" ELSE "failure")
    /\ UNCHANGED <<process, toCore, method, link, nextId, hello, attempts, restartTimer,
                   manualStop, blocked, errors>>

ReadLine ==
    /\ QRunning /\ toShell # <<>> /\ Listening
    /\ toShell' = Tail(toShell)
    /\ LET id == Head(toShell).id
           code == Head(toShell).code
           Same == UNCHANGED <<process, toCore, method, nextId, hello, restartTimer,
                               manualStop, blocked>>
       IN \/ /\ id \notin pending
             /\ Same /\ UNCHANGED <<link, pending, retrying, attempts, got, told>>
          \/ /\ id \in pending /\ code = "busy"
             /\ retrying' = retrying \cup {id}
             /\ Same /\ UNCHANGED <<link, pending, attempts, got, told>>
          \/ /\ id \in pending /\ code = "ok"
             /\ Complete(id, "result")
             /\ link' = IF id = hello THEN "ready" ELSE link
             /\ attempts' = IF id = hello THEN 0 ELSE attempts
             /\ Same
          \/ /\ id \in pending /\ code = "error" /\ id # hello
             /\ Complete(id, "failure")
             /\ Same /\ UNCHANGED <<link, attempts>>
          \/ /\ id \in pending /\ code # "busy" /\ id = hello   \* or another version
             /\ ProtocolFailure({id})
    /\ UNCHANGED errors

\* Output that arrives in any other state is thrown away.
Discard ==
    /\ QRunning /\ toShell # <<>> /\ ~Listening
    /\ toShell' = <<>>
    /\ UNCHANGED <<process, toCore, method, client>>

\* A line that is no message.
BadLine ==
    /\ QRunning /\ Listening
    /\ errors < MaxErrors /\ errors' = errors + 1
    /\ ProtocolFailure({})
    /\ UNCHANGED toShell

ClientTypeOK ==
    /\ link \in Links
    /\ pending \subseteq Ids
    /\ retrying \subseteq pending
    /\ nextId \in 1..(MaxRequests + 1)
    /\ hello \in Ids \cup {0}
    /\ attempts \in 0..MaxRestarts
    /\ restartTimer \in BOOLEAN /\ manualStop \in BOOLEAN /\ blocked \in BOOLEAN
    /\ got \in [Ids -> {"none", "result", "failure"}]
    /\ told \in [Ids -> Nat]
    /\ errors \in Nat

ClientInit ==
    /\ link = "stopped"
    /\ pending = {} /\ retrying = {} /\ nextId = 1 /\ hello = 0
    /\ attempts = 0 /\ restartTimer = FALSE /\ manualStop = FALSE /\ blocked = FALSE
    /\ got = [id \in Ids |-> "none"] /\ told = [id \in Ids |-> 0]
    /\ errors = 0
=============================================================================
