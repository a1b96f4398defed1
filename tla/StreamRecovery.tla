--------------------------- MODULE StreamRecovery ---------------------------
\* ShellStore: what the shell makes of the answers and events of the native
\* streamer and of the core, and how it reconnects a running cloud session.
\* A handler calls others, so each is an operator from one state of the shell
\* to the next. "calls" are the requests without an answer, "sent" the
\* commands a handler has sent to the native streamer.
EXTENDS Naturals, Sequences

CONSTANT MaxReconnects   \* maximumSessionReconnectAttempts
ASSUME ReconnectAssumption == MaxReconnects \in Nat \ {0}

VARIABLE shell

Core == {"prepare", "poll", "discover", "claim", "end"}
Calls == Core \cup {"start", "stop"}
Terminals == {"error", "stopped"}
Phases == {"preparing", "resuming", "ready", "failed"}

Fresh == [session |-> "none", stream |-> "idle", streamer |-> "null", own |-> FALSE,
          calls |-> {}, pending |-> FALSE, timer |-> FALSE, polling |-> FALSE,
          tries |-> 0, exhausted |-> FALSE, expected |-> FALSE, sent |-> <<>>]

Open(s) == s.session # "none"
Answered(s, call) == [s EXCEPT !.calls = @ \ {call}]
Called(s, call) == [s EXCEPT !.calls = @ \cup {call}]

\* Attempts are only compared with the limit.
OneMore(tries) == IF tries > MaxReconnects THEN tries ELSE tries + 1

Exhaust(s) == [s EXCEPT !.exhausted = TRUE, !.timer = FALSE, !.stream = "error"]

\* scheduleSessionRecovery
ScheduleRecovery(s) ==
  LET p == [s EXCEPT !.pending = FALSE]
  IN IF ~Open(p) \/ "end" \in p.calls THEN p
     ELSE IF p.tries >= MaxReconnects THEN Exhaust(p)
     ELSE [p EXCEPT !.stream = "reconnecting", !.timer = TRUE]

-----------------------------------------------------------------------------
\* acceptStreamerSnapshot: one failure, told twice, is counted once.
Snapshot(s, status) ==
  LET p == [s EXCEPT !.streamer = status,
                     !.stream = IF Open(s) /\ ~s.pending /\ status \notin Terminals
                                THEN status ELSE @]
  IN IF s.streamer \in Terminals /\ status \in Terminals THEN s
     ELSE IF \/ status \notin Terminals \/ ~Open(p)
             \/ status = "stopped" /\ p.expected
             \/ p.pending \/ p.timer
     THEN p ELSE ScheduleRecovery(p)

\* A terminal snapshot that no longer names the session.
Replaced(s, status) ==
  IF s.streamer \in Terminals THEN s ELSE [Snapshot(s, status) EXCEPT !.own = FALSE]

\* sendNativeCommand: the runtime may refuse a command.
Send(s, command, accepted) ==
  IF accepted THEN [Called(s, command) EXCEPT !.sent = Append(@, command)] ELSE s

\* stopNativeStreamer
StopStreamer(s, accepted) ==
  LET p == [s EXCEPT !.timer = FALSE]
  IN IF "stop" \in p.calls \/ p.streamer \in {"null", "stopped"} THEN p
     ELSE [Send(p, "stop", accepted) EXCEPT !.expected = accepted]

\* startNativeStreamer: the context of a start is prepared by the core first.
StartStreamer(s) ==
  IF \/ ~Open(s) \/ s.pending \/ s.session = "resuming" \/ s.timer \/ s.exhausted
     \/ s.calls \cap {"stop", "start", "prepare", "claim"} # {}
     \/ s.own /\ s.streamer = "streaming"
  THEN s
  ELSE [Called(s, "prepare") EXCEPT !.streamer = "starting", !.own = TRUE, !.expected = FALSE]

\* cancelSessionRecovery
CancelRecovery(s) ==
  [s EXCEPT !.timer = FALSE, !.pending = FALSE, !.calls = @ \ {"discover", "claim"}]

\* acceptStreamingSession, without and with a session
SessionGone(s, accepted) ==
  LET p == CancelRecovery([s EXCEPT !.session = "none", !.tries = 0, !.exhausted = FALSE])
      q == IF Open(s) THEN StopStreamer(p, accepted) ELSE p
  IN [q EXCEPT !.stream = "idle", !.polling = FALSE]

AcceptSession(s, answer) ==
  LET p == IF Open(s) THEN [s EXCEPT !.session = answer]
           ELSE [s EXCEPT !.session = answer, !.timer = FALSE, !.tries = 0, !.exhausted = FALSE]
  IN IF p.exhausted THEN p
     ELSE IF answer = "ready"
          THEN StartStreamer([p EXCEPT !.stream = "ready", !.polling = FALSE])
     ELSE [p EXCEPT !.stream = answer, !.polling = (answer # "failed")]

-----------------------------------------------------------------------------
\* A failed or cancelled poll.
PollFailed(s) ==
  LET p == Answered(s, "poll")
      tries == OneMore(p.tries)
  IN IF p.session = "resuming" THEN [p EXCEPT !.polling = TRUE]
     ELSE IF Open(p) /\ tries <= MaxReconnects
          THEN [p EXCEPT !.tries = tries, !.stream = "reconnecting", !.polling = TRUE]
     ELSE [p EXCEPT !.tries = tries, !.stream = "error"]

PrepareFailed(s) == Replaced(Answered(s, "prepare"), "error")

\* CoreClient::cancel reports the failure before it returns.
CancelPoll(s) == IF "poll" \in s.calls THEN PollFailed(s) ELSE s
CancelPrepare(s) == IF "prepare" \in s.calls THEN PrepareFailed(s) ELSE s

\* recoverStreamingSession: the old connection is stopped before the session
\* is claimed again.
Recover_NotWaiting(s, accepted) ==
  IF ~Open(s) \/ s.calls \cap {"claim", "discover", "stop"} # {} THEN s
  ELSE IF s.tries >= MaxReconnects THEN Exhaust(s)
  ELSE LET p == [s EXCEPT !.tries = OneMore(@), !.timer = FALSE, !.pending = TRUE,
                          !.stream = "reconnecting", !.polling = FALSE]
           q == CancelPoll(CancelPrepare(p))
           r == StopStreamer(q, accepted)
       IN IF q.streamer \in {"null", "stopped"} THEN Called(q, "discover")
          ELSE IF "stop" \in r.calls THEN Called(r, "discover") ELSE ScheduleRecovery(r)

Recover(s, accepted) ==
  IF ~Open(s) \/ s.calls \cap {"claim", "discover", "stop"} # {} THEN s
  ELSE IF s.tries >= MaxReconnects THEN Exhaust(s)
  ELSE LET p == [s EXCEPT !.tries = OneMore(@), !.timer = FALSE, !.pending = TRUE,
                          !.stream = "reconnecting", !.polling = FALSE]
           q == CancelPoll(CancelPrepare(p))
           r == StopStreamer(q, accepted)
       IN IF q.streamer \in {"null", "stopped"} THEN Called(q, "discover")
          ELSE IF "stop" \in r.calls THEN r ELSE ScheduleRecovery(r)

\* retryNativeStreamer
Retry(s, accepted) ==
  Recover([s EXCEPT !.timer = FALSE, !.tries = 0, !.exhausted = FALSE], accepted)

\* stopStreamingSession
StopSession(s, accepted) ==
  LET p == CancelPoll(StopStreamer([CancelRecovery(s) EXCEPT !.polling = FALSE], accepted))
  IN IF ~Open(p) THEN [p EXCEPT !.stream = "idle"]
     ELSE IF "end" \in p.calls THEN p
     ELSE [Called(p, "end") EXCEPT !.stream = "stopping"]

-----------------------------------------------------------------------------
\* Answers of the core.
Prepared(s, accepted) ==
  LET p == Answered(s, "prepare")
      q == Send(Snapshot(p, p.streamer), "start", accepted)
  IN IF ~Open(p) THEN p   \* the handler throws
     ELSE IF accepted THEN q ELSE Snapshot(q, "error")

Discovered_GivesUp(s, found) ==
  LET p == Answered(s, "discover")
  IN IF ~p.pending \/ ~Open(p) THEN p
     ELSE IF found THEN Called(p, "claim") ELSE p

Discovered(s, found) ==
  LET p == Answered(s, "discover")
  IN IF ~p.pending \/ ~Open(p) THEN p
     ELSE IF found THEN Called(p, "claim") ELSE ScheduleRecovery(p)

Claimed(s, answer) ==
  AcceptSession([Answered(s, "claim") EXCEPT !.pending = FALSE, !.streamer = "null", !.own = FALSE],
                answer)

EndFailed(s) == [Answered(s, "end") EXCEPT !.stream = "error"]

\* Answers of the native streamer.
Started(s, ok) ==
  LET p == Answered(s, "start")
  IN IF ~ok THEN Snapshot(p, "error")
     ELSE IF p.pending THEN p ELSE Snapshot(p, "streaming")

Stopped(s) ==
  LET p == Replaced(Answered(s, "stop"), "stopped")
  IN IF p.pending THEN Called(Answered(p, "start"), "discover") ELSE p

\* acceptNativeEvent
FirstFrame(s) ==
  IF ~Open(s) \/ s.streamer \in {"null", "error", "stopped"} THEN s
  ELSE Snapshot([s EXCEPT !.tries = 0, !.exhausted = FALSE, !.timer = FALSE], "streaming")

NativeEvent(s, event) ==
  IF event = "first-frame" THEN FirstFrame(s)
  ELSE Snapshot(s, IF event = "ready" THEN "streaming" ELSE event)

\* recoveryStopTimer
StopOverdue(s) == [s EXCEPT !.pending = FALSE, !.stream = "error"]
=============================================================================
