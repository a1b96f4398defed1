---------------------------- MODULE StreamEngine ----------------------------
\* The native streamer inside the shell's process: the engine thread with its
\* commands, the worker that forwards the events of a session, and the media
\* receiver. A generation only tells whether a worker is still the one of the
\* session that runs, so it is the flag "current".
EXTENDS Naturals, Sequences

CONSTANT AttemptLimit   \* NVST_RECOVERY_ATTEMPT_LIMIT
ASSUME AttemptAssumption == AttemptLimit \in Nat

VARIABLES
  commands,   \* to the engine thread
  responses,  \* to the response dispatcher
  events,     \* to the event dispatcher
  phase,      \* of the engine thread
  state,      \* Lifecycle.state
  current,    \* Lifecycle.generation is that of the worker
  worker,     \* feedback_worker
  receiver,   \* the receiver that owns the media timeout
  signals,    \* nvst_events, from the receiver to the worker
  attempts,   \* recovery_attempts
  played      \* the first frame of the session has been shown

queueVars == <<commands, responses, events>>
threadVars == <<phase, state, current>>
mediaVars == <<receiver, signals, attempts, played>>
engineVars == <<queueVars, threadVars, worker, mediaVars>>

EngineInit ==
  /\ commands = <<>> /\ responses = <<>> /\ events = <<>>
  /\ phase = "waits" /\ state = "Idle" /\ current = FALSE
  /\ worker = "none" /\ receiver = "none" /\ signals = <<>>
  /\ attempts = 0 /\ played = FALSE

Emit(event) == events' = Append(events, event)
Respond(type) ==
  /\ responses' = Append(responses, [to |-> Head(commands), type |-> type])
  /\ commands' = Tail(commands)
  /\ phase' = "waits"

Serves(command) == phase = "waits" /\ commands # <<>> /\ Head(commands) = command

-----------------------------------------------------------------------------
\* Command start. What an old session left is torn down before the media of
\* the new one is built; its worker is waited for.
StartRefused ==
  /\ Serves("start") /\ state # "Idle"
  /\ Respond("error")
  /\ UNCHANGED <<events, state, current, worker, mediaVars>>

NegotiationFails ==
  /\ Serves("start") /\ state = "Idle"
  /\ Respond("error")
  /\ UNCHANGED <<events, state, current, worker, mediaVars>>

Negotiate ==
  /\ Serves("start") /\ state = "Idle"
  /\ phase' = "clears"
  /\ UNCHANGED <<queueVars, state, current, worker, mediaVars>>

WorkerGone == worker \in {"none", "ended"}

ClearOld ==
  /\ phase = "clears" /\ WorkerGone
  /\ phase' = "builds" /\ worker' = "none" /\ receiver' = "none" /\ signals' = <<>>
  /\ UNCHANGED <<queueVars, state, current, attempts, played>>

BuildFails ==
  /\ phase = "builds"
  /\ Respond("error")
  /\ UNCHANGED <<events, state, current, worker, mediaVars>>

Connect ==
  /\ phase = "builds"
  /\ phase' = "finishes" /\ state' = "Connected" /\ current' = TRUE
  /\ worker' = "runs" /\ receiver' = "running" /\ signals' = <<>>
  /\ attempts' = 0 /\ played' = FALSE
  /\ UNCHANGED queueVars

Finish ==
  /\ phase = "finishes"
  /\ Emit("ready")
  /\ Respond("ok")
  /\ UNCHANGED <<state, current, worker, mediaVars>>

\* Engine::stop: the lock, then the transports, then the worker.
BeginStop(active, idle) ==
  /\ phase' = IF state = "Idle" THEN idle ELSE active
  /\ state' = "Idle" /\ current' = FALSE
  /\ UNCHANGED <<queueVars, worker, mediaVars>>

FinishFails == phase = "finishes" /\ BeginStop("fails active", "fails")
Stop == Serves("stop") /\ BeginStop("stops active", "stops")

StopEnds ==
  /\ phase \in {"stops", "stops active", "fails", "fails active"} /\ WorkerGone
  /\ worker' = "none" /\ receiver' = "none" /\ signals' = <<>>
  /\ IF phase \in {"stops active", "fails active"} THEN Emit("stopped") ELSE UNCHANGED events
  /\ Respond(IF phase \in {"fails", "fails active"} THEN "error" ELSE "ok")
  /\ UNCHANGED <<state, current, attempts, played>>

EngineFails == NegotiationFails \/ BuildFails \/ FinishFails
EngineStep ==
  \/ StartRefused \/ Negotiate \/ ClearOld \/ Connect \/ Finish
  \/ Stop \/ StopEnds

-----------------------------------------------------------------------------
\* The receiver. Its timeout is told once; then it waits to be recovered.
TimesOut ==
  /\ receiver = "running"
  /\ receiver' = "lost" /\ signals' = Append(signals, "timeout")
  /\ UNCHANGED <<queueVars, threadVars, worker, attempts, played>>

ReceiverEnds ==
  /\ receiver \in {"running", "lost", "recovers"}
  /\ receiver' = "none" /\ signals' = Append(signals, "stopped")
  /\ UNCHANGED <<queueVars, threadVars, worker, attempts, played>>

Recovered ==
  /\ receiver = "recovers"
  /\ receiver' = "running" /\ signals' = Append(signals, "running")
  /\ UNCHANGED <<queueVars, threadVars, worker, attempts, played>>

-----------------------------------------------------------------------------
\* The worker (forward_nvst_session_events).
Superseded ==
  /\ worker = "runs" /\ ~current
  /\ worker' = "ended"
  /\ UNCHANGED <<queueVars, threadVars, mediaVars>>

Receives(signal) ==
  /\ worker = "runs" /\ current
  /\ signals # <<>> /\ Head(signals) = signal
  /\ signals' = Tail(signals)

\* emit_nvst_terminal
Terminal_Silent ==
  /\ state' = "Idle" /\ worker' = "ended"
  /\ UNCHANGED <<phase, current>>

Terminal ==
  /\ state' = "Idle" /\ worker' = "reports error"
  /\ UNCHANGED <<phase, current>>

\* The generation is asked for first, and the state set afterwards.
Resumes ==
  /\ Receives("running")
  /\ worker' = "resumes"
  /\ UNCHANGED <<queueVars, threadVars, receiver, attempts, played>>

SetsConnected ==
  /\ worker = "resumes"
  /\ worker' = "runs" /\ state' = "Connected"
  /\ Emit("streaming")
  /\ UNCHANGED <<commands, responses, phase, current, mediaVars>>

\* attempt_nvst_recovery: a receiver that has ended cannot be recovered.
AttemptRecovery ==
  /\ Receives("timeout")
  /\ IF attempts < AttemptLimit /\ receiver = "lost"
     THEN /\ attempts' = attempts + 1 /\ receiver' = "recovers"
          /\ UNCHANGED <<threadVars, worker>>
     ELSE Terminal /\ UNCHANGED <<receiver, attempts>>
  /\ UNCHANGED <<queueVars, played>>

RecoveryFails ==
  /\ Receives("timeout") /\ attempts < AttemptLimit /\ receiver = "lost"
  /\ attempts' = attempts + 1
  /\ Terminal
  /\ UNCHANGED <<queueVars, receiver, played>>

ReceiverStopped ==
  /\ Receives("stopped")
  /\ Terminal
  /\ UNCHANGED <<queueVars, receiver, attempts, played>>

\* Input capture fails, or overflows.
CaptureFails ==
  /\ worker = "runs" /\ current
  /\ Terminal
  /\ UNCHANGED <<queueVars, mediaVars>>

ReportsError ==
  /\ worker = "reports error"
  /\ worker' = "reports stopped" /\ receiver' = "none" /\ signals' = <<>>
  /\ Emit("error")
  /\ UNCHANGED <<commands, responses, threadVars, attempts, played>>

ReportsStopped ==
  /\ worker = "reports stopped"
  /\ worker' = "ended"
  /\ Emit("stopped")
  /\ UNCHANGED <<commands, responses, threadVars, mediaVars>>

\* Feedback of the media session (forward_nvst_media_feedback).
Presents ==
  /\ worker = "runs" /\ current /\ receiver = "running" /\ ~played
  /\ played' = TRUE
  /\ Emit("first-frame")
  /\ UNCHANGED <<commands, responses, threadVars, worker, receiver, signals, attempts>>

KeyframeAccepted ==
  /\ worker = "runs" /\ current /\ receiver = "running" /\ attempts > 0
  /\ attempts' = 0
  /\ UNCHANGED <<queueVars, threadVars, worker, receiver, signals, played>>

MediaError ==
  /\ worker = "runs" /\ current
  /\ Emit("error")
  /\ UNCHANGED <<commands, responses, threadVars, worker, mediaVars>>

WorkerStep ==
  \/ Superseded \/ Resumes \/ SetsConnected \/ AttemptRecovery \/ ReceiverStopped
  \/ ReportsError \/ ReportsStopped \/ Presents \/ Recovered

WorkerFails == TimesOut \/ ReceiverEnds \/ RecoveryFails \/ CaptureFails \/ MediaError
=============================================================================
