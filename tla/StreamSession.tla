---------------------------- MODULE StreamSession ----------------------------
\* One cloud session from the seat to its end: the shell, the runtime on its
\* thread, the native streamer, and the core that answers for the cloud.
EXTENDS StreamEngine, StreamRecovery, StreamPresentation

CONSTANTS MaxTrouble,  \* failures of the streamer, refused commands
          MaxRetries,  \* times the user asks for the media again
          MaxStops,    \* times the user ends the session
          Prompt       \* what the streamer has said is heard before the network and the timers
ASSUME SessionAssumption ==
  MaxTrouble \in Nat /\ MaxRetries \in Nat /\ MaxStops \in Nat /\ Prompt \in BOOLEAN

VARIABLES trouble, retries, stops,
          overdue   \* a recovery has given up waiting for its stop; guards nothing

boundVars == <<trouble, retries, stops, overdue>>
vars == <<engineVars, shell, presentationVars, boundVars>>

Init ==
  /\ EngineInit /\ PresentationInit
  /\ shell \in {AcceptSession(Fresh, answer) : answer \in {"preparing", "ready"}}
  /\ trouble = 0 /\ retries = 0 /\ stops = 0 /\ overdue = FALSE

TroubleOnly == trouble < MaxTrouble /\ trouble' = trouble + 1
Trouble == TroubleOnly /\ UNCHANGED <<retries, stops, overdue>>

\* What the streamer has said already has been heard. What it is still doing,
\* a start or a stop, may take longer than any answer of the network.
Quiet == responses = <<>> /\ events = <<>>
Slow == Prompt => Quiet

-----------------------------------------------------------------------------
\* The streamer.
Streams ==
  /\ EngineStep \/ WorkerStep
  /\ UNCHANGED <<shell, presentationVars, boundVars>>

Shows ==
  /\ Presents \/ KeyframeAccepted
  /\ UNCHANGED <<shell, presentationVars, boundVars>>

StreamerFails ==
  /\ EngineFails \/ WorkerFails
  /\ Trouble
  /\ UNCHANGED <<shell, presentationVars>>

-----------------------------------------------------------------------------
\* The GUI thread. Each handler runs to its end, and what it has sent is
\* queued for the engine.
Becomes(s) ==
  /\ shell' = [s EXCEPT !.sent = <<>>]
  /\ commands' = commands \o s.sent
  /\ Sends(s.sent)
  /\ UNCHANGED <<responses, events, threadVars, worker, mediaVars>>

\* A handler that sends comes to one state when the runtime accepts its
\* command, and may come to another when it refuses it.
Either(accepted, refused) ==
  \/ Becomes(accepted) /\ UNCHANGED trouble
  \/ refused # accepted /\ Becomes(refused) /\ TroubleOnly
Handles(accepted, refused) ==
  Either(accepted, refused) /\ UNCHANGED <<retries, stops, overdue>>

DeliverEvent ==
  /\ events # <<>>
  /\ events' = Tail(events)
  /\ ShowsEvent(Head(events))
  /\ shell' = NativeEvent(shell, Head(events))
  /\ UNCHANGED <<commands, responses, threadVars, worker, mediaVars, boundVars>>

DeliverResponse ==
  /\ responses # <<>>
  /\ responses' = Tail(responses)
  /\ LET response == Head(responses)
     IN /\ ShowsResponse(response)
        /\ shell' = IF response.to = "start" THEN Started(shell, response.type = "ok")
                    ELSE Stopped(shell)
  /\ UNCHANGED <<commands, events, threadVars, worker, mediaVars, boundVars>>

\* The renderer reports a failure of this presentation.
PresentationFails ==
  /\ shown
  /\ Invalidate
  /\ shell' = IF Open(shell) THEN Snapshot(shell, "error") ELSE shell
  /\ Trouble
  /\ UNCHANGED engineVars

\* Timers.
RestartTimer ==
  /\ shell.timer /\ Slow
  /\ LET fired == [shell EXCEPT !.timer = FALSE]
     IN Handles(Recover(fired, TRUE), Recover(fired, FALSE))

StopTimer ==
  /\ shell.pending /\ "stop" \in shell.calls /\ Slow
  /\ shell' = StopOverdue(shell) /\ overdue' = TRUE
  /\ TroubleOnly
  /\ UNCHANGED <<engineVars, presentationVars, retries, stops>>

Polls ==
  /\ shell.polling /\ Open(shell) /\ shell.calls \cap {"poll", "end"} = {}
  /\ Becomes(Called(shell, "poll"))
  /\ UNCHANGED boundVars

ResumeDeadline ==
  /\ shell.polling /\ shell.session = "resuming" /\ shell.calls \cap {"poll", "end"} = {}
  /\ Becomes(ScheduleRecovery([shell EXCEPT !.polling = FALSE]))
  /\ UNCHANGED boundVars

\* The user.
UserStops ==
  /\ Open(shell) /\ "end" \notin shell.calls
  /\ stops < MaxStops /\ stops' = stops + 1
  /\ Either(StopSession(shell, TRUE), StopSession(shell, FALSE))
  /\ UNCHANGED <<retries, overdue>>

UserRetries ==
  /\ Open(shell) /\ shell.stream = "error"
  /\ retries < MaxRetries /\ retries' = retries + 1
  /\ Either(Retry(shell, TRUE), Retry(shell, FALSE))
  /\ UNCHANGED <<stops, overdue>>

-----------------------------------------------------------------------------
\* The core answers, for the cloud or itself.
Asked(call) == call \in shell.calls /\ (call = "prepare" \/ Slow)

AnswerPrepare ==
  /\ Asked("prepare")
  /\ \/ Handles(Prepared(shell, TRUE), Prepared(shell, FALSE))
     \/ Becomes(PrepareFailed(shell)) /\ UNCHANGED boundVars

Later(session) ==
  CASE session = "preparing" -> Phases \ {"resuming"}
    [] session = "resuming" -> Phases \ {"preparing"}
    [] OTHER -> {"ready", "failed"}

AnswerPoll ==
  /\ Asked("poll")
  /\ \/ \E answer \in Later(shell.session) : Becomes(AcceptSession(Answered(shell, "poll"), answer))
     \/ Becomes(PollFailed(shell))
  /\ UNCHANGED boundVars

AnswerDiscover ==
  /\ Asked("discover")
  /\ \/ \E found \in BOOLEAN : Becomes(Discovered(shell, found))
     \/ Becomes(ScheduleRecovery(Answered(shell, "discover")))
  /\ UNCHANGED boundVars

AnswerClaim ==
  /\ Asked("claim")
  /\ \/ \E answer \in {"ready", "resuming"} : Becomes(Claimed(shell, answer))
     \/ Becomes(ScheduleRecovery(Answered(shell, "claim")))
  /\ UNCHANGED boundVars

AnswerEnd ==
  /\ Asked("end")
  /\ LET ended == Answered(shell, "end")
     IN \/ Handles(SessionGone(ended, TRUE), SessionGone(ended, FALSE))
        \/ Becomes(EndFailed(shell)) /\ UNCHANGED boundVars

Next ==
  \/ Streams \/ Shows \/ StreamerFails
  \/ DeliverEvent \/ DeliverResponse \/ PresentationFails
  \/ RestartTimer \/ StopTimer \/ Polls \/ ResumeDeadline
  \/ UserStops \/ UserRetries
  \/ AnswerPrepare \/ AnswerPoll \/ AnswerDiscover \/ AnswerClaim \/ AnswerEnd

Spec == Init /\ [][Next]_vars

\* Threads run, queues drain, timers fire, and the core answers each request.
Fairness ==
  /\ WF_vars(Streams) /\ WF_vars(DeliverEvent) /\ WF_vars(DeliverResponse)
  /\ WF_vars(RestartTimer) /\ WF_vars(Polls) /\ SF_vars(ResumeDeadline)
  /\ WF_vars(AnswerPrepare) /\ WF_vars(AnswerPoll) /\ WF_vars(AnswerDiscover)
  /\ WF_vars(AnswerClaim) /\ WF_vars(AnswerEnd)

FairSpec == Spec /\ Fairness

-----------------------------------------------------------------------------
Queued(event) == \E k \in DOMAIN events : events[k] = event

\* Frames are shown and input is captured only for a session that the engine
\* runs, or whose end is already on its way to the runtime: an answer to an
\* earlier start, or one that crosses a stop, opens nothing.
ShownMeansAlive ==
  shown => \/ state = "Connected"
           \/ worker \in {"reports error", "reports stopped"}
           \/ Queued("error") \/ Queued("stopped")

\* The media of the old connection is gone, and none is being started.
Reaped == WorkerGone /\ receiver = "none" /\ phase = "waits" /\ commands = <<>>

ClaimMade == "claim" \in shell'.calls \ shell.calls

\* Recovery claims the session again only after the old transport was stopped,
\* however long a start or a stop takes, whatever fails and however often the
\* user retries, until the user ends the session (recoverStreamingSession).
\* Prompt: nothing the streamer has said is overtaken by an answer of the core.
RecoversAfterStop == [][ClaimMade /\ stops = 0 => Reaped]_vars

\* A stream the shell calls streaming, which has ended though nobody asked
\* for it while reconnects were left
Unnoticed ==
  /\ shell.stream = "streaming" /\ state = "Idle"
  /\ ~shell.exhausted /\ ~shell.expected /\ stops = 0

\* The end of a stream is noticed, whichever of its answers and events come
\* first and whatever else fails meanwhile, until the user ends the session.
\* Prompt: nothing the streamer has said is overtaken by an answer of the core.
EndIsNoticed == Unnoticed ~> ~Unnoticed

\* A reconnection comes to a result: the timer, the stop, the discovery, the
\* claim or the polls always lead on, until the user ends the session or a stop
\* has taken more than thirty seconds (recoveryStopTimer). Prompt: what the
\* streamer has said is heard before the timer fires.
Reconnecting == shell.stream = "reconnecting" /\ stops = 0
RecoveryDecided == Reconnecting /\ ~overdue ~> ~Reconnecting \/ overdue
=============================================================================
