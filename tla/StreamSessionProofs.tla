------------------------ MODULE StreamSessionProofs ------------------------
(***************************************************************************)
(* Proofs about StreamSession, for every bound and whatever the speed of   *)
(* the network: the shell's handlers first, then the commands on their way *)
(* to the engine and back, then what is shown; and, until the user ends    *)
(* the session, its reconnection: the handlers once more, now with what a  *)
(* recovery relies on, then the engine, and then the two together.         *)
(***************************************************************************)
EXTENDS StreamSession, SequenceTheorems, TLAPS

Commands == {"start", "stop"}

Events == {"ready", "streaming", "first-frame", "error", "stopped"}
EnginePhases == {"waits", "clears", "builds", "finishes", "fails", "fails active",
                 "stops", "stops active"}

Fields == {"session", "stream", "streamer", "own", "calls", "pending", "timer",
           "polling", "tries", "exhausted", "expected", "sent"}
Formed(s) == Fields \subseteq DOMAIN s

-----------------------------------------------------------------------------
(* What the handlers do with their calls and commands. *)

\* Calls and commands are left alone, and no recovery begins.
Keeps(s, t) ==
  /\ Formed(t)
  /\ t.calls = s.calls /\ t.sent = s.sent
  /\ t.pending => s.pending

\* A handler that sends nothing: it begins no command, and asks for a context
\* or begins a recovery only where no command is on its way.
Plain(s, t) ==
  /\ Formed(t)
  /\ t.sent = s.sent
  /\ \A command \in Commands : command \in t.calls <=> command \in s.calls
  /\ t.pending => s.pending \/ "stop" \notin t.calls
  /\ "prepare" \in t.calls => \/ "prepare" \in s.calls
                              \/ "start" \notin t.calls /\ "stop" \notin t.calls

\* A handler that sends a stop, while none is on its way.
Stopping(s, t) ==
  /\ Formed(t)
  /\ t.sent = <<"stop">>
  /\ "stop" \notin s.calls /\ "stop" \in t.calls
  /\ "start" \in t.calls <=> "start" \in s.calls
  /\ "prepare" \in t.calls => "prepare" \in s.calls
  /\ t.pending => "prepare" \notin t.calls

\* A handler that sends a start, whose context has been prepared.
Starting(s, t) ==
  /\ Formed(t)
  /\ t.sent = <<"start">>
  /\ "prepare" \in s.calls /\ "prepare" \notin t.calls
  /\ "start" \in t.calls
  /\ "stop" \in t.calls <=> "stop" \in s.calls
  /\ t.pending => s.pending

LEMMA PlainTwice ==
  ASSUME NEW s, NEW t, NEW u, Plain(s, t), Plain(t, u)
  PROVE  Plain(s, u)
BY DEF Plain, Commands

LEMMA KeepsPlain ==
  ASSUME NEW s, NEW t, Keeps(s, t)
  PROVE  Plain(s, t)
BY DEF Plain, Keeps

LEMMA KeepsTwice ==
  ASSUME NEW s, NEW t, NEW u, Keeps(s, t), Keeps(t, u)
  PROVE  Keeps(s, u)
BY DEF Keeps

USE DEF Fields, Formed

LEMMA ScheduleRecoveryKeeps ==
  ASSUME NEW s, Formed(s)
  PROVE  Keeps(s, ScheduleRecovery(s)) /\ ~ScheduleRecovery(s).pending
BY DEF Keeps, ScheduleRecovery, Exhaust, Open

LEMMA KeepsSelf ==
  ASSUME NEW s, Formed(s)
  PROVE  Keeps(s, s)
BY DEF Keeps

LEMMA SnapshotKeeps ==
  ASSUME NEW s, NEW status, Formed(s)
  PROVE  Keeps(s, Snapshot(s, status))
<1> DEFINE told == IF Open(s) /\ ~s.pending /\ status \notin Terminals
                   THEN status ELSE s.stream
           p == [s EXCEPT !.streamer = status, !.stream = told]
<1>1. Keeps(s, p) /\ Keeps(s, s)
  <2> HIDE DEF told
  <2>1. Keeps(s, p)
    BY DEF Keeps
  <2> QED BY <2>1, KeepsSelf
<1> HIDE DEF p
<1>2. Keeps(s, ScheduleRecovery(p))
  BY <1>1, ScheduleRecoveryKeeps, KeepsTwice DEF Keeps
<1> QED BY <1>1, <1>2 DEF Snapshot, p, told

LEMMA ReplacedKeeps ==
  ASSUME NEW s, NEW status, Formed(s)
  PROVE  Keeps(s, Replaced(s, status))
<1>1. Keeps(s, Snapshot(s, status)) /\ Keeps(s, s)
  BY SnapshotKeeps DEF Keeps
<1>2. ASSUME NEW t, Keeps(s, t) PROVE Keeps(s, [t EXCEPT !.own = FALSE])
  BY <1>2 DEF Keeps
<1> QED BY <1>1, <1>2 DEF Replaced

LEMMA CallsPlain ==
  ASSUME NEW s, Formed(s), NEW call \in Core
  PROVE  /\ Plain(s, Answered(s, call))
         /\ call # "prepare" => Plain(s, Called(s, call))
BY DEF Plain, Answered, Called, Core, Commands

LEMMA StartStreamerPlain ==
  ASSUME NEW s, Formed(s)
  PROVE  Plain(s, StartStreamer(s))
BY DEF Plain, StartStreamer, Called, Commands

LEMMA AcceptSessionPlain ==
  ASSUME NEW s, Formed(s), NEW answer
  PROVE  Plain(s, AcceptSession(s, answer))
<1> DEFINE p == IF Open(s) THEN [s EXCEPT !.session = answer]
                ELSE [s EXCEPT !.session = answer, !.timer = FALSE, !.tries = 0,
                               !.exhausted = FALSE]
           q == [p EXCEPT !.stream = "ready", !.polling = FALSE]
           r == [p EXCEPT !.stream = answer, !.polling = (answer # "failed")]
<1>1. Plain(s, p) /\ Formed(p)
  BY DEF Plain
<1>2. Plain(p, q) /\ Formed(q) /\ Plain(p, r)
  <2> HIDE DEF p
  <2> QED BY <1>1 DEF Plain
<1>3. Plain(q, StartStreamer(q))
  <2> HIDE DEF q
  <2> QED BY <1>2, StartStreamerPlain
<1> HIDE DEF p, q, r
<1>4. Plain(s, StartStreamer(q)) /\ Plain(s, r)
  BY <1>1, <1>2, <1>3, PlainTwice
<1> QED BY <1>1, <1>4 DEF AcceptSession, p, q, r

LEMMA PollFailedPlain ==
  ASSUME NEW s, Formed(s)
  PROVE  /\ Plain(s, PollFailed(s))
         /\ PollFailed(s).calls = s.calls \ {"poll"}
         /\ PollFailed(s).pending = s.pending
<1> DEFINE p == Answered(s, "poll")
           tries == OneMore(p.tries)
<1>1. Formed(p) /\ p.sent = s.sent /\ p.calls = s.calls \ {"poll"} /\ p.pending = s.pending
  BY DEF Answered
<1> HIDE DEF p, tries
<1> DEFINE t == PollFailed(s)
<1>2. Formed(t) /\ t.sent = p.sent /\ t.calls = p.calls /\ t.pending = p.pending
  BY <1>1 DEF PollFailed, p, tries
<1> HIDE DEF t
<1>3. Plain(s, t)
  BY <1>1, <1>2 DEF Plain, Commands
<1> QED BY <1>1, <1>2, <1>3 DEF t

LEMMA FirstSent ==
  ASSUME NEW command \in Commands
  PROVE  Append(<<>>, command) = <<command>>
OBVIOUS

LEMMA StopStreamerSends ==
  ASSUME NEW s, Formed(s), s.sent = <<>>, NEW accepted
  PROVE  LET t == StopStreamer(s, accepted)
         IN /\ Formed(t) /\ t.pending = s.pending
            /\ \/ t.calls = s.calls /\ t.sent = <<>>
               \/ /\ "stop" \notin s.calls /\ t.calls = s.calls \cup {"stop"}
                  /\ t.sent = <<"stop">>
<1> DEFINE p == [s EXCEPT !.timer = FALSE]
           q == Send(p, "stop", accepted)
<1>1. Formed(p) /\ p.sent = <<>> /\ p.calls = s.calls /\ p.pending = s.pending
  OBVIOUS
<1>2. Append(p.sent, "stop") = <<"stop">>
  BY <1>1, FirstSent DEF Commands
<1> HIDE DEF p
<1>3. /\ Formed(q) /\ q.pending = p.pending
      /\ \/ q = p
         \/ q.calls = p.calls \cup {"stop"} /\ q.sent = <<"stop">>
  BY <1>1, <1>2 DEF Send, Called
<1> HIDE DEF q
<1> QED BY <1>1, <1>3 DEF StopStreamer, p, q

\* What a cancelled request leaves behind: no prepare, and nothing new.
LEMMA CancelsPlain ==
  ASSUME NEW s, Formed(s)
  PROVE  LET t == CancelPoll(CancelPrepare(s))
         IN /\ Plain(s, t) /\ "prepare" \notin t.calls
            /\ t.calls \subseteq s.calls
            /\ t.pending => s.pending
<1> DEFINE a == Answered(s, "prepare")
           p == CancelPrepare(s)
<1>1. Formed(a) /\ a.calls = s.calls \ {"prepare"} /\ a.sent = s.sent /\ a.pending = s.pending
  BY DEF Answered
<1>2. Keeps(a, PrepareFailed(s))
  BY <1>1, ReplacedKeeps DEF PrepareFailed
<1>3. /\ Formed(p) /\ p.calls = s.calls \ {"prepare"} /\ p.sent = s.sent
      /\ p.pending => s.pending
  BY <1>1, <1>2 DEF CancelPrepare, Keeps
<1> HIDE DEF a, p
<1>4. Plain(s, p)
  BY <1>3 DEF Plain, Commands
<1>5. Plain(p, p) /\ Plain(p, PollFailed(p))
  BY <1>3, PollFailedPlain, KeepsPlain, KeepsSelf
<1>6. Plain(s, CancelPoll(p))
  BY <1>4, <1>5, PlainTwice DEF CancelPoll
<1>7. /\ CancelPoll(p).calls \subseteq p.calls
      /\ CancelPoll(p).pending = p.pending
  BY <1>3, PollFailedPlain DEF CancelPoll
<1> QED BY <1>3, <1>6, <1>7 DEF p

LEMMA RecoverSteps ==
  ASSUME NEW s, Formed(s), s.sent = <<>>, NEW accepted
  PROVE  Plain(s, Recover(s, accepted)) \/ Stopping(s, Recover(s, accepted))
<1> DEFINE p == [s EXCEPT !.tries = OneMore(@), !.timer = FALSE, !.pending = TRUE,
                          !.stream = "reconnecting", !.polling = FALSE]
           q == CancelPoll(CancelPrepare(p))
           r == StopStreamer(q, accepted)
           t == Recover(s, accepted)
<1> SUFFICES Plain(s, t) \/ Stopping(s, t)
  OBVIOUS
<1>1. CASE ~Open(s) \/ s.calls \cap {"claim", "discover", "stop"} # {}
  <2>1. t = s
    BY <1>1 DEF Recover
  <2> QED BY <2>1, KeepsPlain, KeepsSelf
<1>2. CASE Open(s) /\ s.calls \cap {"claim", "discover", "stop"} = {} /\ s.tries >= MaxReconnects
  <2>1. t = Exhaust(s)
    BY <1>2 DEF Recover
  <2>2. Keeps(s, Exhaust(s))
    BY DEF Keeps, Exhaust
  <2> QED BY <2>1, <2>2, KeepsPlain
<1>3. CASE Open(s) /\ s.calls \cap {"claim", "discover", "stop"} = {} /\ ~(s.tries >= MaxReconnects)
  <2>1. Formed(p) /\ p.calls = s.calls /\ p.sent = s.sent
    OBVIOUS
  <2>2. t = IF q.streamer \in {"null", "stopped"} THEN Called(q, "discover")
            ELSE IF "stop" \in r.calls THEN r ELSE ScheduleRecovery(r)
    BY <1>3 DEF Recover
  <2> HIDE DEF p, t
  <2>3. /\ Formed(q)
        /\ "start" \in q.calls <=> "start" \in s.calls
        /\ "stop" \in q.calls <=> "stop" \in s.calls
        /\ "prepare" \notin q.calls /\ q.sent = <<>>
    <3>1. Plain(p, q) /\ "prepare" \notin q.calls
      BY <2>1, CancelsPlain
    <3> HIDE DEF q
    <3> QED BY <2>1, <3>1 DEF Plain, Commands
  <2> HIDE DEF q
  <2>4. /\ Formed(r)
        /\ \/ r.calls = q.calls /\ r.sent = <<>>
           \/ r.calls = q.calls \cup {"stop"} /\ r.sent = <<"stop">>
    BY <2>3, StopStreamerSends
  <2> HIDE DEF r
  <2>5. "stop" \notin s.calls
    BY <1>3
  <2>6. CASE q.streamer \in {"null", "stopped"}
    <3>1. t = Called(q, "discover")
      BY <2>2, <2>6
    <3>2. Formed(t) /\ t.calls = q.calls \cup {"discover"} /\ t.sent = q.sent
      BY <2>3, <3>1 DEF Called
    <3> QED BY <2>3, <2>5, <3>2 DEF Plain, Commands
  <2>7. CASE q.streamer \notin {"null", "stopped"} /\ "stop" \in r.calls
    <3>1. t = r
      BY <2>2, <2>7
    <3> QED BY <2>3, <2>4, <2>5, <2>7, <3>1 DEF Stopping, Commands
  <2>8. CASE q.streamer \notin {"null", "stopped"} /\ "stop" \notin r.calls
    <3>1. t = ScheduleRecovery(r)
      BY <2>2, <2>8
    <3>2. Keeps(r, t)
      BY <2>4, <3>1, ScheduleRecoveryKeeps
    <3> QED BY <2>3, <2>4, <2>5, <2>8, <3>2 DEF Plain, Keeps, Commands
  <2> QED BY <2>6, <2>7, <2>8
<1> QED BY <1>1, <1>2, <1>3

LEMMA RetrySteps ==
  ASSUME NEW s, Formed(s), s.sent = <<>>, NEW accepted
  PROVE  Plain(s, Retry(s, accepted)) \/ Stopping(s, Retry(s, accepted))
<1> DEFINE p == [s EXCEPT !.timer = FALSE, !.tries = 0, !.exhausted = FALSE]
           t == Recover(p, accepted)
<1>1. Formed(p) /\ p.sent = <<>> /\ p.calls = s.calls /\ p.pending = s.pending
  OBVIOUS
<1> HIDE DEF p
<1>2. Plain(p, t) \/ Stopping(p, t)
  BY <1>1, RecoverSteps
<1> HIDE DEF t
<1>3. Plain(s, t) \/ Stopping(s, t)
  BY <1>1, <1>2 DEF Plain, Stopping
<1> QED BY <1>3 DEF Retry, p, t

LEMMA SessionGoneSteps ==
  ASSUME NEW s, Formed(s), s.sent = <<>>, NEW accepted
  PROVE  Plain(s, SessionGone(s, accepted)) \/ Stopping(s, SessionGone(s, accepted))
<1> DEFINE g == [s EXCEPT !.session = "none", !.tries = 0, !.exhausted = FALSE]
           p == CancelRecovery(g)
           q == IF Open(s) THEN StopStreamer(p, accepted) ELSE p
           t == SessionGone(s, accepted)
<1> SUFFICES Plain(s, t) \/ Stopping(s, t)
  OBVIOUS
<1>1. Formed(g) /\ g.sent = <<>> /\ g.calls = s.calls
  OBVIOUS
<1>2. t = [q EXCEPT !.stream = "idle", !.polling = FALSE]
  BY DEF SessionGone
<1> HIDE DEF g, t
<1>3. /\ Formed(p) /\ p.sent = <<>> /\ p.pending = FALSE
      /\ p.calls = s.calls \ {"discover", "claim"}
  BY <1>1 DEF CancelRecovery
<1> HIDE DEF p
<1>4. /\ Formed(q) /\ q.pending = FALSE
      /\ \/ q.calls = p.calls /\ q.sent = <<>>
         \/ /\ "stop" \notin p.calls /\ q.calls = p.calls \cup {"stop"}
            /\ q.sent = <<"stop">>
  BY <1>3, StopStreamerSends
<1> HIDE DEF q
<1>5. Formed(t) /\ t.calls = q.calls /\ t.sent = q.sent /\ t.pending = FALSE
  BY <1>2, <1>4
<1> QED BY <1>3, <1>4, <1>5 DEF Plain, Stopping, Commands

LEMMA StopSessionSteps ==
  ASSUME NEW s, Formed(s), s.sent = <<>>, NEW accepted
  PROVE  Plain(s, StopSession(s, accepted)) \/ Stopping(s, StopSession(s, accepted))
<1> DEFINE c == [CancelRecovery(s) EXCEPT !.polling = FALSE]
           q == StopStreamer(c, accepted)
           p == CancelPoll(q)
           t == StopSession(s, accepted)
<1> SUFFICES Plain(s, t) \/ Stopping(s, t)
  OBVIOUS
<1>1. /\ Formed(c) /\ c.sent = <<>> /\ c.pending = FALSE
      /\ c.calls = s.calls \ {"discover", "claim"}
  BY DEF CancelRecovery
<1>2. t = IF ~Open(p) THEN [p EXCEPT !.stream = "idle"]
          ELSE IF "end" \in p.calls THEN p
          ELSE [Called(p, "end") EXCEPT !.stream = "stopping"]
  BY DEF StopSession
<1> HIDE DEF c, t
<1>3. /\ Formed(q) /\ q.pending = FALSE
      /\ \/ q.calls = c.calls /\ q.sent = <<>>
         \/ /\ "stop" \notin c.calls /\ q.calls = c.calls \cup {"stop"}
            /\ q.sent = <<"stop">>
  BY <1>1, StopStreamerSends
<1> HIDE DEF q
<1>4. /\ Formed(p) /\ p.pending = FALSE /\ p.sent = q.sent
      /\ p.calls \in {q.calls, q.calls \ {"poll"}}
  BY <1>3, PollFailedPlain DEF CancelPoll, Plain
<1> HIDE DEF p
<1>5. /\ Formed(t) /\ t.pending = FALSE /\ t.sent = p.sent
      /\ t.calls \in {p.calls, p.calls \cup {"end"}}
  BY <1>2, <1>4 DEF Called
<1> QED BY <1>1, <1>3, <1>4, <1>5 DEF Plain, Stopping, Commands

LEMMA PreparedSteps ==
  ASSUME NEW s, Formed(s), s.sent = <<>>, "prepare" \in s.calls, NEW accepted \in BOOLEAN
  PROVE  Plain(s, Prepared(s, accepted)) \/ Starting(s, Prepared(s, accepted))
<1> DEFINE p == Answered(s, "prepare")
           n == Snapshot(p, p.streamer)
           q == Send(n, "start", accepted)
           t == Prepared(s, accepted)
<1> SUFFICES Plain(s, t) \/ Starting(s, t)
  OBVIOUS
<1>1. Formed(p) /\ p.sent = <<>> /\ p.calls = s.calls \ {"prepare"} /\ p.pending = s.pending
  BY DEF Answered
<1>2. t = IF ~Open(p) THEN p ELSE IF accepted THEN q ELSE Snapshot(q, "error")
  BY DEF Prepared
<1> HIDE DEF p, t
<1>3. Keeps(p, n)
  BY <1>1, SnapshotKeeps
<1> HIDE DEF n
<1>4. /\ ~accepted => q = n
      /\ accepted => /\ Formed(q) /\ q.sent = <<"start">> /\ q.pending = n.pending
                     /\ q.calls = n.calls \cup {"start"}
  <2>1. Append(<<>>, "start") = <<"start">>
    BY FirstSent DEF Commands
  <2> QED BY <1>1, <1>3, <2>1 DEF Send, Called, Keeps
<1> HIDE DEF q
<1>5. CASE ~Open(p)
  BY <1>1, <1>2, <1>5 DEF Plain, Commands
<1>6. CASE Open(p) /\ accepted
  BY <1>1, <1>2, <1>3, <1>4, <1>6 DEF Starting, Keeps
<1>7. CASE Open(p) /\ ~accepted
  <2>1. Keeps(n, t)
    BY <1>2, <1>3, <1>4, <1>7, SnapshotKeeps DEF Keeps
  <2> QED BY <1>1, <1>3, <2>1 DEF Plain, Keeps, Commands
<1> QED BY <1>5, <1>6, <1>7

LEMMA AnswersPlain ==
  ASSUME NEW s, Formed(s), NEW found, NEW answer
  PROVE  /\ Plain(s, PrepareFailed(s))
         /\ Plain(s, AcceptSession(Answered(s, "poll"), answer))
         /\ Plain(s, Discovered(s, found))
         /\ Plain(s, ScheduleRecovery(Answered(s, "discover")))
         /\ Plain(s, Claimed(s, answer))
         /\ Plain(s, ScheduleRecovery(Answered(s, "claim")))
         /\ Plain(s, EndFailed(s))
<1>1. ASSUME NEW call \in Core
      PROVE  Plain(s, Answered(s, call)) /\ Formed(Answered(s, call))
  BY CallsPlain DEF Plain
<1>2. ASSUME NEW call \in Core, NEW u, Plain(Answered(s, call), u)
      PROVE  Plain(s, u)
  BY <1>1, <1>2, PlainTwice
<1>3. Plain(s, PrepareFailed(s))
  BY <1>1, <1>2, ReplacedKeeps, KeepsPlain DEF PrepareFailed, Core
<1>4. Plain(s, AcceptSession(Answered(s, "poll"), answer))
  BY <1>1, <1>2, AcceptSessionPlain DEF Core
<1>5. ASSUME NEW call \in Core
      PROVE  Plain(s, ScheduleRecovery(Answered(s, call)))
  BY <1>1, <1>2, ScheduleRecoveryKeeps, KeepsPlain
<1>6. Plain(s, Discovered(s, found))
  <2>1. Plain(s, Called(Answered(s, "discover"), "claim"))
    BY <1>1, <1>2, CallsPlain DEF Core
  <2> QED BY <1>1, <1>5, <2>1 DEF Discovered, Core
<1>7. Plain(s, Claimed(s, answer))
  <2> DEFINE p == Answered(s, "claim")
             q == [p EXCEPT !.pending = FALSE, !.streamer = "null", !.own = FALSE]
  <2>1. Plain(s, p) /\ Formed(p)
    BY <1>1 DEF Core
  <2> HIDE DEF p
  <2>2. Plain(p, q) /\ Formed(q)
    BY <2>1 DEF Plain
  <2> HIDE DEF q
  <2>3. Plain(q, AcceptSession(q, answer))
    BY <2>2, AcceptSessionPlain
  <2>4. Plain(s, AcceptSession(q, answer))
    BY <2>1, <2>2, <2>3, PlainTwice
  <2> QED BY <2>4 DEF Claimed, p, q
<1>8. Plain(s, EndFailed(s))
  BY DEF Plain, EndFailed, Answered, Commands
<1> QED BY <1>3, <1>4, <1>5, <1>6, <1>7, <1>8 DEF Core

LEMMA NativeEventKeeps ==
  ASSUME NEW s, Formed(s), NEW event
  PROVE  Keeps(s, NativeEvent(s, event))
<1> DEFINE p == [s EXCEPT !.tries = 0, !.exhausted = FALSE, !.timer = FALSE]
<1>1. Keeps(s, p)
  BY DEF Keeps
<1> HIDE DEF p
<1>2. Keeps(s, Snapshot(p, "streaming"))
  BY <1>1, SnapshotKeeps, KeepsTwice DEF Keeps
<1>3. Keeps(s, FirstFrame(s))
  BY <1>2, KeepsSelf DEF FirstFrame, p
<1> QED BY <1>3, SnapshotKeeps DEF NativeEvent

LEMMA StopOverdueKeeps ==
  ASSUME NEW s, Formed(s)
  PROVE  Keeps(s, StopOverdue(s))
BY DEF Keeps, StopOverdue

LEMMA StartedAnswers ==
  ASSUME NEW s, Formed(s), NEW ok
  PROVE  LET t == Started(s, ok)
         IN /\ Formed(t) /\ t.sent = s.sent
            /\ t.calls = s.calls \ {"start"}
            /\ t.pending => s.pending
<1> DEFINE p == Answered(s, "start")
           t == Started(s, ok)
<1>1. Formed(p) /\ p.sent = s.sent /\ p.calls = s.calls \ {"start"} /\ p.pending = s.pending
  BY DEF Answered
<1> HIDE DEF p
<1>2. Keeps(p, t)
  BY <1>1, SnapshotKeeps, KeepsSelf DEF Started, p
<1> HIDE DEF t
<1>3. Formed(t) /\ t.sent = s.sent /\ t.calls = s.calls \ {"start"} /\ t.pending => s.pending
  BY <1>1, <1>2 DEF Keeps
<1> QED BY <1>1, <1>2 DEF Keeps, t

LEMMA StoppedAnswers ==
  ASSUME NEW s, Formed(s)
  PROVE  LET t == Stopped(s)
         IN /\ Formed(t) /\ t.sent = s.sent
            /\ t.pending => s.pending
            /\ IF t.pending THEN t.calls = (s.calls \ {"stop", "start"}) \cup {"discover"}
               ELSE t.calls = s.calls \ {"stop"}
<1> DEFINE a == Answered(s, "stop")
           p == Replaced(a, "stopped")
           t == Stopped(s)
<1>1. Formed(a) /\ a.sent = s.sent /\ a.calls = s.calls \ {"stop"} /\ a.pending = s.pending
  BY DEF Answered
<1>2. t = IF p.pending THEN Called(Answered(p, "start"), "discover") ELSE p
  BY DEF Stopped
<1> HIDE DEF a, t
<1>3. Keeps(a, p)
  BY <1>1, ReplacedKeeps
<1> HIDE DEF p
<1>4. /\ Formed(t) /\ t.sent = s.sent
      /\ t.pending = p.pending
      /\ p.pending => t.calls = (p.calls \ {"start"}) \cup {"discover"}
      /\ ~p.pending => t = p
  BY <1>1, <1>2, <1>3 DEF Keeps, Called, Answered
<1> QED BY <1>1, <1>3, <1>4 DEF Keeps, t

-----------------------------------------------------------------------------
(* The commands on their way to the engine, and their answers on the way    *)
(* back, in the order in which they were sent.                              *)

Responses == [to : Commands, type : {"ok", "error"}]
Travels(r, c) == [k \in 1 .. Len(r) |-> r[k].to] \o c
InFlight == Travels(responses, commands)

LEMMA TravelsType ==
  ASSUME NEW r \in Seq(Responses), NEW c \in Seq(Commands)
  PROVE  /\ Travels(r, c) \in Seq(Commands)
         /\ Len(Travels(r, c)) = Len(r) + Len(c)
         /\ \A k \in 1 .. Len(r) : Travels(r, c)[k] = r[k].to
         /\ \A k \in 1 .. Len(c) : Travels(r, c)[Len(r) + k] = c[k]
<1> DEFINE b == [k \in 1 .. Len(r) |-> r[k].to]
<1>1. b \in Seq(Commands) /\ Len(b) = Len(r) /\ \A k \in 1 .. Len(r) : b[k] = r[k].to
  <2>1. Len(r) \in Nat
    BY LenProperties
  <2>2. ASSUME NEW k \in 1 .. Len(r) PROVE r[k].to \in Commands
    <3>1. r[k] \in Responses
      BY ElementOfSeq
    <3> QED BY <3>1 DEF Responses
  <2>3. b \in [1 .. Len(r) -> Commands]
    BY <2>2
  <2> HIDE DEF b
  <2>4. b \in Seq(Commands) /\ Len(b) = Len(r)
    BY <2>1, <2>3
  <2> QED BY <2>4 DEF b
<1> HIDE DEF b
<1>2. /\ b \o c \in Seq(Commands) /\ Len(b \o c) = Len(r) + Len(c)
      /\ \A k \in 1 .. Len(b) + Len(c) :
           (b \o c)[k] = IF k <= Len(b) THEN b[k] ELSE c[k - Len(b)]
  BY <1>1, ConcatProperties
<1>3. \A k \in 1 .. Len(r) : (b \o c)[k] = r[k].to
  BY <1>1, <1>2
<1>4. ASSUME NEW k \in 1 .. Len(c) PROVE (b \o c)[Len(r) + k] = c[k]
  <2>1. Len(r) \in Nat /\ Len(c) \in Nat
    BY LenProperties
  <2>2. /\ Len(b) + k \in 1 .. Len(b) + Len(c)
        /\ ~(Len(b) + k <= Len(b)) /\ (Len(b) + k) - Len(b) = k
    BY <1>1, <2>1
  <2> QED BY <1>1, <1>2, <2>2
<1> QED BY <1>1, <1>2, <1>3, <1>4 DEF Travels, b

\* What TravelsType says, for the defined sequences of a proof.
Carries(f, r, c) ==
  /\ f \in Seq(Commands) /\ Len(f) = Len(r) + Len(c)
  /\ Len(r) \in Nat /\ Len(c) \in Nat
  /\ \A k \in 1 .. Len(r) : f[k] = r[k].to
  /\ \A k \in 1 .. Len(c) : f[Len(r) + k] = c[k]

LEMMA TravelsCarries ==
  ASSUME NEW r \in Seq(Responses), NEW c \in Seq(Commands)
  PROVE  Carries(Travels(r, c), r, c)
BY TravelsType, LenProperties DEF Carries

LEMMA TravelsAnswer ==
  ASSUME NEW r \in Seq(Responses), NEW c \in Seq(Commands), c # <<>>,
         NEW type \in {"ok", "error"}
  PROVE  LET response == [to |-> Head(c), type |-> type]
         IN /\ Tail(c) \in Seq(Commands) /\ Append(r, response) \in Seq(Responses)
            /\ Travels(Append(r, response), Tail(c)) = Travels(r, c)
<1> DEFINE response == [to |-> Head(c), type |-> type]
           s == Append(r, response)
           d == Tail(c)
           f == Travels(r, c)
           g == Travels(s, d)
<1>1. response \in Responses /\ response.to = c[1]
  BY DEF Responses
<1>2. /\ d \in Seq(Commands) /\ Len(d) = Len(c) - 1
      /\ \A k \in 1 .. Len(d) : d[k] = c[k + 1]
  OBVIOUS
<1> HIDE DEF response
<1>3. /\ s \in Seq(Responses) /\ Len(s) = Len(r) + 1 /\ s[Len(r) + 1] = response
      /\ \A k \in 1 .. Len(r) : s[k] = r[k]
  BY <1>1
<1>4. Carries(f, r, c) /\ Carries(g, s, d)
  BY <1>2, <1>3, TravelsCarries
<1> HIDE DEF s, d, f, g
<1>5. Len(f) = Len(g)
  BY <1>2, <1>3, <1>4 DEF Carries
<1>6. ASSUME NEW k \in 1 .. Len(f) PROVE f[k] = g[k]
  <2>1. CASE k \in 1 .. Len(r)
    <3>1. k \in 1 .. Len(s)
      BY <1>3, <1>4, <2>1 DEF Carries
    <3>2. f[k] = r[k].to /\ g[k] = s[k].to
      BY <1>4, <2>1, <3>1 DEF Carries
    <3> QED BY <1>3, <2>1, <3>2
  <2>2. CASE k = Len(r) + 1
    BY <1>1, <1>2, <1>3, <1>4, <2>2 DEF Carries
  <2>3. CASE k > Len(r) + 1
    <3>1. PICK j \in 2 .. Len(c) : k = Len(r) + j
      <4>1. k - Len(r) \in 2 .. Len(c) /\ k = Len(r) + (k - Len(r))
        BY <1>4, <2>3 DEF Carries
      <4> QED BY <4>1
    <3>2. f[k] = c[j]
      BY <1>4, <3>1 DEF Carries
    <3>3. j - 1 \in 1 .. Len(d) /\ k = Len(s) + (j - 1) /\ (j - 1) + 1 = j
      BY <1>2, <1>3, <1>4, <3>1 DEF Carries
    <3>4. g[k] = d[j - 1]
      BY <1>4, <3>3 DEF Carries
    <3> QED BY <1>2, <3>2, <3>3, <3>4
  <2>4. k \in 1 .. Len(r) \/ k = Len(r) + 1 \/ k > Len(r) + 1
    BY <1>4 DEF Carries
  <2> QED BY <2>1, <2>2, <2>3, <2>4
<1>7. f = g
  BY <1>4, <1>5, <1>6, SeqEqual DEF Carries
<1> QED BY <1>2, <1>3, <1>7 DEF f, g, s, d, response

LEMMA TravelsSend ==
  ASSUME NEW r \in Seq(Responses), NEW c \in Seq(Commands), NEW command \in Commands
  PROVE  /\ c \o <<command>> \in Seq(Commands)
         /\ Travels(r, c \o <<command>>) = Append(Travels(r, c), command)
<1> DEFINE d == c \o <<command>>
           f == Travels(r, c)
           g == Travels(r, d)
           h == Append(f, command)
<1>1. /\ d \in Seq(Commands) /\ Len(d) = Len(c) + 1 /\ d[Len(c) + 1] = command
      /\ \A k \in 1 .. Len(c) : d[k] = c[k]
  OBVIOUS
<1>2. Carries(f, r, c) /\ Carries(g, r, d)
  BY <1>1, TravelsCarries
<1> HIDE DEF d, f, g
<1>3. /\ h \in Seq(Commands) /\ Len(h) = Len(f) + 1 /\ h[Len(f) + 1] = command
      /\ \A k \in 1 .. Len(f) : h[k] = f[k]
  BY <1>2 DEF Carries
<1> HIDE DEF h
<1>4. Len(g) = Len(h)
  BY <1>1, <1>2, <1>3 DEF Carries
<1>5. ASSUME NEW k \in 1 .. Len(g) PROVE g[k] = h[k]
  <2>1. CASE k \in 1 .. Len(r)
    BY <1>2, <1>3, <2>1 DEF Carries
  <2>2. CASE k > Len(r)
    <3>1. PICK j \in 1 .. Len(d) : k = Len(r) + j
      <4>1. k - Len(r) \in 1 .. Len(d) /\ k = Len(r) + (k - Len(r))
        BY <1>2, <2>2 DEF Carries
      <4> QED BY <4>1
    <3>2. g[k] = d[j]
      BY <1>2, <3>1 DEF Carries
    <3>3. CASE j \in 1 .. Len(c)
      BY <1>1, <1>2, <1>3, <3>1, <3>2, <3>3 DEF Carries
    <3>4. CASE j = Len(c) + 1
      BY <1>1, <1>2, <1>3, <3>1, <3>2, <3>4 DEF Carries
    <3> QED BY <1>1, <1>2, <3>3, <3>4 DEF Carries
  <2> QED BY <1>2, <2>1, <2>2 DEF Carries
<1>6. g = h
  BY <1>2, <1>3, <1>4, <1>5, SeqEqual DEF Carries
<1> QED BY <1>1, <1>6 DEF d, f, g, h

LEMMA TravelsDeliver ==
  ASSUME NEW r \in Seq(Responses), NEW c \in Seq(Commands), r # <<>>
  PROVE  /\ Tail(r) \in Seq(Responses)
         /\ Travels(r, c) # <<>> /\ Head(r).to = Travels(r, c)[1]
         /\ Travels(Tail(r), c) = Tail(Travels(r, c))
<1> DEFINE s == Tail(r)
           f == Travels(r, c)
           g == Travels(s, c)
           h == Tail(f)
<1>1. /\ s \in Seq(Responses) /\ Len(s) = Len(r) - 1 /\ Len(r) > 0
      /\ \A k \in 1 .. Len(s) : s[k] = r[k + 1]
  OBVIOUS
<1>2. Carries(f, r, c) /\ Carries(g, s, c)
  BY <1>1, TravelsCarries
<1>3. Head(r) = r[1]
  OBVIOUS
<1> HIDE DEF s, f, g
<1>4. f # <<>> /\ Len(f) > 0 /\ Head(r).to = f[1]
  BY <1>1, <1>2, <1>3 DEF Carries
<1>5. /\ h \in Seq(Commands) /\ Len(h) = Len(f) - 1
      /\ \A k \in 1 .. Len(h) : h[k] = f[k + 1]
  BY <1>2, <1>4 DEF Carries
<1> HIDE DEF h
<1>6. Len(g) = Len(h)
  BY <1>1, <1>2, <1>5 DEF Carries
<1>7. ASSUME NEW k \in 1 .. Len(g) PROVE g[k] = h[k]
  <2>1. h[k] = f[k + 1]
    BY <1>5, <1>6
  <2>2. CASE k \in 1 .. Len(s)
    <3>1. k + 1 \in 1 .. Len(r)
      BY <1>1, <1>2, <2>2 DEF Carries
    <3>2. f[k + 1] = r[k + 1].to /\ g[k] = s[k].to
      BY <1>2, <2>2, <3>1 DEF Carries
    <3> QED BY <1>1, <2>1, <2>2, <3>2
  <2>3. CASE k > Len(s)
    <3>1. PICK j \in 1 .. Len(c) : k = Len(s) + j
      <4>1. k - Len(s) \in 1 .. Len(c) /\ k = Len(s) + (k - Len(s))
        BY <1>2, <2>3 DEF Carries
      <4> QED BY <4>1
    <3>2. k + 1 = Len(r) + j
      BY <1>1, <1>2, <3>1 DEF Carries
    <3> QED BY <1>2, <2>1, <3>1, <3>2 DEF Carries
  <2> QED BY <1>1, <1>2, <2>2, <2>3 DEF Carries
<1>8. g = h
  BY <1>2, <1>5, <1>6, <1>7, SeqEqual DEF Carries
<1> QED BY <1>1, <1>4, <1>8 DEF f, g, h, s

-----------------------------------------------------------------------------
(* The calls of the shell and the commands in flight.                       *)

\* A command is in flight at most once, and only while its call is open. A
\* context is prepared only while no start is in flight; and while a recovery
\* waits for the old connection to stop, nothing is started after that stop.
Orderly(s, f) ==
  /\ \A k \in DOMAIN f : f[k] \in s.calls
  /\ \A j, k \in DOMAIN f : f[j] = f[k] => j = k
  /\ "prepare" \in s.calls => "start" \notin s.calls
  /\ s.pending /\ "stop" \in s.calls =>
       /\ "prepare" \notin s.calls
       /\ \A j, k \in DOMAIN f : f[j] = "stop" /\ f[k] = "start" => k < j

LEMMA AppendFacts ==
  ASSUME NEW f \in Seq(Commands), NEW command \in Commands
  PROVE  LET g == Append(f, command)
         IN /\ g \in Seq(Commands) /\ g # <<>>
            /\ DOMAIN f = 1 .. Len(f) /\ DOMAIN g = 1 .. Len(f) + 1
            /\ Len(f) \in Nat /\ Len(g) = Len(f) + 1
            /\ g[Len(f) + 1] = command
            /\ \A k \in 1 .. Len(f) : g[k] = f[k]
OBVIOUS

LEMMA TailFacts ==
  ASSUME NEW f \in Seq(Commands), f # <<>>
  PROVE  LET g == Tail(f)
         IN /\ g \in Seq(Commands)
            /\ DOMAIN f = 1 .. Len(f) /\ DOMAIN g = 1 .. Len(f) - 1
            /\ Len(f) \in Nat \ {0} /\ Len(g) = Len(f) - 1
            /\ \A k \in 1 .. Len(f) - 1 : g[k] = f[k + 1]
OBVIOUS

LEMMA OrderlyPlain ==
  ASSUME NEW s, NEW t, NEW f \in Seq(Commands), Orderly(s, f), Plain(s, t)
  PROVE  Orderly(t, f)
<1>1. \A k \in DOMAIN f : f[k] \in Commands
  OBVIOUS
<1>2. \A k \in DOMAIN f : f[k] \in t.calls
  BY <1>1 DEF Orderly, Plain
<1>3. "prepare" \in t.calls => "start" \notin t.calls
  BY DEF Orderly, Plain, Commands
<1>4. t.pending /\ "stop" \in t.calls =>
        /\ s.pending /\ "stop" \in s.calls /\ "prepare" \notin t.calls
  BY DEF Orderly, Plain, Commands
<1> QED BY <1>2, <1>3, <1>4 DEF Orderly

LEMMA OrderlyStopping ==
  ASSUME NEW s, NEW t, NEW f \in Seq(Commands), Orderly(s, f), Stopping(s, t)
  PROVE  Orderly(t, Append(f, "stop"))
<1> DEFINE g == Append(f, "stop")
<1>1. /\ DOMAIN f = 1 .. Len(f) /\ DOMAIN g = 1 .. Len(f) + 1 /\ Len(f) \in Nat
      /\ g[Len(f) + 1] = "stop" /\ \A k \in 1 .. Len(f) : g[k] = f[k]
  BY AppendFacts DEF Commands
<1>2. \A k \in 1 .. Len(f) : f[k] = "start"
  <2>1. \A k \in 1 .. Len(f) : f[k] \in Commands /\ f[k] \in s.calls
    BY <1>1 DEF Orderly
  <2> QED BY <2>1 DEF Stopping, Commands
<1> HIDE DEF g
<1>3. \A k \in DOMAIN g : k = Len(f) + 1 \/ (k \in DOMAIN f /\ g[k] = f[k] /\ k < Len(f) + 1)
  BY <1>1
<1>4. \A k \in DOMAIN g : g[k] \in t.calls
  BY <1>1, <1>2, <1>3 DEF Orderly, Stopping
<1>5. \A j, k \in DOMAIN g : g[j] = g[k] => j = k
  BY <1>1, <1>2, <1>3 DEF Orderly
<1>6. "prepare" \in t.calls => "start" \notin t.calls
  BY DEF Orderly, Stopping
<1>7. \A j, k \in DOMAIN g : g[j] = "stop" /\ g[k] = "start" => k < j
  BY <1>1, <1>2, <1>3
<1> QED BY <1>4, <1>5, <1>6, <1>7 DEF Orderly, Stopping, g

LEMMA OrderlyStarting ==
  ASSUME NEW s, NEW t, NEW f \in Seq(Commands), Orderly(s, f), Starting(s, t)
  PROVE  Orderly(t, Append(f, "start"))
<1> DEFINE g == Append(f, "start")
<1>1. /\ DOMAIN f = 1 .. Len(f) /\ DOMAIN g = 1 .. Len(f) + 1 /\ Len(f) \in Nat
      /\ g[Len(f) + 1] = "start" /\ \A k \in 1 .. Len(f) : g[k] = f[k]
  BY AppendFacts DEF Commands
<1>2. \A k \in 1 .. Len(f) : f[k] = "stop"
  <2>1. \A k \in 1 .. Len(f) : f[k] \in Commands /\ f[k] \in s.calls
    BY <1>1 DEF Orderly
  <2> QED BY <2>1 DEF Starting, Orderly, Commands
<1> HIDE DEF g
<1>3. \A k \in DOMAIN g : k = Len(f) + 1 \/ (k \in DOMAIN f /\ g[k] = f[k])
  BY <1>1
<1>4. \A k \in DOMAIN g : g[k] \in t.calls
  BY <1>1, <1>2, <1>3 DEF Orderly, Starting
<1>5. \A j, k \in DOMAIN g : g[j] = g[k] => j = k
  BY <1>1, <1>2, <1>3 DEF Orderly
<1>6. ~(t.pending /\ "stop" \in t.calls)
  BY DEF Orderly, Starting
<1> QED BY <1>4, <1>5, <1>6 DEF Orderly, Starting, g

\* The first answer in flight is delivered.
LEMMA OrderlyDelivered ==
  ASSUME NEW s, NEW t, NEW f \in Seq(Commands), Orderly(s, f), f # <<>>,
         s.calls \ {f[1]} \subseteq t.calls \/ \A k \in DOMAIN Tail(f) : Tail(f)[k] \in t.calls,
         "prepare" \in t.calls => "prepare" \in s.calls,
         "start" \in t.calls => "start" \in s.calls,
         "stop" \in t.calls => "stop" \in s.calls,
         t.pending => s.pending
  PROVE  Orderly(t, Tail(f))
<1> DEFINE g == Tail(f)
<1>1. /\ DOMAIN f = 1 .. Len(f) /\ DOMAIN g = 1 .. Len(f) - 1 /\ Len(f) \in Nat \ {0}
      /\ \A k \in 1 .. Len(f) - 1 : g[k] = f[k + 1]
  BY TailFacts
<1> HIDE DEF g
<1>2. \A k \in DOMAIN g : k + 1 \in DOMAIN f /\ 1 \in DOMAIN f /\ k + 1 # 1 /\ g[k] = f[k + 1]
  BY <1>1
<1>3. \A k \in DOMAIN g : g[k] \in s.calls \ {f[1]}
  BY <1>2 DEF Orderly
<1>4. \A k \in DOMAIN g : g[k] \in t.calls
  BY <1>3 DEF g
<1>5. \A j, k \in DOMAIN g : g[j] = g[k] => j = k
  <2>1. ASSUME NEW j \in DOMAIN g, NEW k \in DOMAIN g, g[j] = g[k]
        PROVE  j = k
    <3>1. j + 1 = k + 1
      BY <1>2, <2>1 DEF Orderly
    <3> QED BY <1>1, <3>1
  <2> QED BY <2>1
<1>6. ASSUME t.pending, "stop" \in t.calls
      PROVE  /\ "prepare" \notin t.calls
             /\ \A j, k \in DOMAIN g : g[j] = "stop" /\ g[k] = "start" => k < j
  <2>1. /\ "prepare" \notin s.calls
        /\ \A j, k \in DOMAIN f : f[j] = "stop" /\ f[k] = "start" => k < j
    BY <1>6 DEF Orderly
  <2>2. ASSUME NEW j \in DOMAIN g, NEW k \in DOMAIN g, g[j] = "stop", g[k] = "start"
        PROVE  k < j
    <3>1. k + 1 < j + 1
      BY <1>2, <2>1, <2>2
    <3> QED BY <1>1, <3>1
  <2> QED BY <2>1, <2>2
<1> QED BY <1>4, <1>5, <1>6 DEF Orderly, g

-----------------------------------------------------------------------------
(* The invariant.                                                           *)

Typed ==
  /\ commands \in Seq(Commands) /\ responses \in Seq(Responses) /\ events \in Seq(Events)
  /\ phase \in EnginePhases
  /\ Formed(shell) /\ shell.sent = <<>>
  /\ shown \in BOOLEAN /\ awaited \in BOOLEAN

\* Frames are shown only with nothing in flight, and the answer that may show
\* them is awaited only while it is the last one in flight.
Showing ==
  /\ shown => InFlight = <<>>
  /\ awaited => InFlight # <<>> /\ InFlight[Len(InFlight)] = "start"

\* The engine is busy with the first of its commands.
Serving ==
  /\ phase # "waits" => commands # <<>>
  /\ phase \in {"clears", "builds", "finishes", "fails", "fails active"} =>
       Head(commands) = "start"
  /\ phase \in {"stops", "stops active"} => Head(commands) = "stop"

\* The worker of the session that the engine runs is at work.
Runs == worker \in {"runs", "resumes"} /\ current
Connected == Runs => state = "Connected"

Alive ==
  \/ Runs
  \/ worker \in {"reports error", "reports stopped"}
  \/ Queued("error") \/ Queued("stopped")

\* The start whose answer is awaited is about to be answered, or has been.
Granted ==
  \/ phase = "finishes"
  \/ commands = <<>> /\ responses[Len(responses)].type = "ok"

Inv ==
  /\ Typed /\ Orderly(shell, InFlight) /\ Showing /\ Serving /\ Connected
  /\ shown \/ (awaited /\ Granted) => Alive

Within(q, event) == \E k \in DOMAIN q : q[k] = event

LEMMA QueuedAfterEmit ==
  ASSUME NEW q \in Seq(Events), NEW event \in Events
  PROVE  LET r == Append(q, event)
         IN /\ r \in Seq(Events)
            /\ Within(r, event)
            /\ \A e : Within(q, e) => Within(r, e)
<1> DEFINE r == Append(q, event)
<1>1. /\ r \in Seq(Events) /\ DOMAIN q = 1 .. Len(q) /\ DOMAIN r = 1 .. Len(q) + 1
      /\ Len(q) \in Nat /\ r[Len(q) + 1] = event
      /\ \A k \in 1 .. Len(q) : r[k] = q[k]
  OBVIOUS
<1> HIDE DEF r
<1>2. Len(q) + 1 \in DOMAIN r /\ \A k \in DOMAIN q : k \in DOMAIN r /\ r[k] = q[k]
  BY <1>1
<1> QED BY <1>1, <1>2 DEF r, Within

LEMMA EmitQueues ==
  ASSUME events \in Seq(Events), NEW event \in Events, Emit(event)
  PROVE  /\ events' \in Seq(Events)
         /\ Queued(event)'
         /\ Queued("error") => Queued("error")'
         /\ Queued("stopped") => Queued("stopped")'
<1>1. events' = Append(events, event)
  BY DEF Emit
<1>2. /\ events' \in Seq(Events)
      /\ Within(events', event)
      /\ \A e : Within(events, e) => Within(events', e)
  BY <1>1, QueuedAfterEmit
<1> QED BY <1>2 DEF Queued, Within

LEMMA QueuedAfterTail ==
  ASSUME NEW q \in Seq(Events), q # <<>>
  PROVE  LET r == Tail(q)
         IN /\ r \in Seq(Events)
            /\ \A e : e # Head(q) /\ Within(q, e) => Within(r, e)
<1> DEFINE r == Tail(q)
<1>1. /\ r \in Seq(Events) /\ DOMAIN q = 1 .. Len(q) /\ DOMAIN r = 1 .. Len(q) - 1
      /\ Len(q) \in Nat \ {0} /\ Head(q) = q[1]
      /\ \A k \in 1 .. Len(q) - 1 : r[k] = q[k + 1]
  OBVIOUS
<1> HIDE DEF r
<1>2. ASSUME NEW e, e # Head(q), NEW k \in DOMAIN q, q[k] = e
      PROVE  \E j \in DOMAIN r : r[j] = e
  <2>1. k # 1 /\ k - 1 \in 1 .. Len(q) - 1 /\ (k - 1) + 1 = k
    BY <1>1, <1>2
  <2>2. k - 1 \in DOMAIN r /\ r[k - 1] = e
    BY <1>1, <1>2, <2>1
  <2> QED BY <2>2
<1> QED BY <1>1, <1>2 DEF r, Within

LEMMA Initially == Init => Inv
<1> SUFFICES ASSUME Init PROVE Inv
  OBVIOUS
<1>1. /\ commands = <<>> /\ responses = <<>> /\ events = <<>> /\ phase = "waits"
      /\ worker = "none" /\ shown = FALSE /\ awaited = FALSE
  BY DEF Init, EngineInit, PresentationInit
<1>2. Formed(Fresh) /\ Fresh.sent = <<>> /\ Fresh.calls = {} /\ Fresh.pending = FALSE
  BY DEF Fresh
<1>3. PICK answer \in {"preparing", "ready"} : shell = AcceptSession(Fresh, answer)
  BY DEF Init
<1>4. Plain(Fresh, shell)
  BY <1>2, <1>3, AcceptSessionPlain
<1>5. InFlight \in Seq(Commands) /\ Len(InFlight) = 0
  <2>1. <<>> \in Seq(Responses) /\ <<>> \in Seq(Commands) /\ Len(<<>>) = 0
    BY EmptySeq
  <2>2. InFlight = Travels(<<>>, <<>>)
    BY <1>1 DEF InFlight
  <2>3. Travels(<<>>, <<>>) \in Seq(Commands) /\ Len(Travels(<<>>, <<>>)) = 0 + 0
    BY <2>1, TravelsType
  <2> QED BY <2>2, <2>3
<1>6. InFlight = <<>> /\ DOMAIN InFlight = {}
  BY <1>5
<1>7. Orderly(shell, InFlight)
  <2>1. Orderly(Fresh, InFlight)
    BY <1>2, <1>6 DEF Orderly
  <2> QED BY <1>4, <1>5, <2>1, OrderlyPlain
<1>8. Typed
  <2>1. \A S : <<>> \in Seq(S)
    OBVIOUS
  <2> QED BY <1>1, <1>2, <1>4, <2>1 DEF Typed, Plain, EnginePhases
<1> QED BY <1>1, <1>7, <1>8 DEF Inv, Showing, Serving, Connected, Runs

LEMMA FlightTyped ==
  ASSUME Typed
  PROVE  /\ InFlight \in Seq(Commands)
         /\ commands # <<>> => InFlight # <<>>
         /\ Len(InFlight) \in Nat /\ Len(responses) \in Nat /\ Len(commands) \in Nat
         /\ Len(InFlight) = Len(responses) + Len(commands)
         /\ commands # <<>> => InFlight[Len(InFlight)] = commands[Len(commands)]
         /\ commands = <<>> /\ responses # <<>> =>
              InFlight[Len(InFlight)] = responses[Len(responses)].to
<1>1. commands \in Seq(Commands) /\ responses \in Seq(Responses)
  BY DEF Typed
<1>2. Len(responses) \in Nat /\ Len(commands) \in Nat
  BY <1>1, LenProperties
<1>3. commands # <<>> => Len(commands) > 0
  BY <1>1
<1>4. responses # <<>> => Len(responses) > 0
  BY <1>1
<1>5. Carries(InFlight, responses, commands)
  BY <1>1, TravelsCarries DEF InFlight
<1>6. commands = <<>> => Len(commands) = 0
  OBVIOUS
<1>7. InFlight \in Seq(Commands) /\ Len(InFlight) = Len(responses) + Len(commands)
  BY <1>5 DEF Carries
<1>8. commands # <<>> => InFlight # <<>>
  BY <1>2, <1>3, <1>7
<1>9. commands # <<>> => InFlight[Len(InFlight)] = commands[Len(commands)]
  <2>1. commands # <<>> => Len(commands) \in 1 .. Len(commands)
    BY <1>2, <1>3
  <2> QED BY <1>5, <2>1 DEF Carries
<1>10. commands = <<>> /\ responses # <<>> =>
         InFlight[Len(InFlight)] = responses[Len(responses)].to
  <2>1. commands = <<>> /\ responses # <<>> =>
          Len(InFlight) = Len(responses) /\ Len(responses) \in 1 .. Len(responses)
    BY <1>2, <1>4, <1>6, <1>7
  <2> QED BY <1>5, <2>1 DEF Carries
<1> QED BY <1>2, <1>7, <1>8, <1>9, <1>10

LEMMA RespondKeeps ==
  ASSUME Typed, commands # <<>>, NEW type \in {"ok", "error"}, Respond(type)
  PROVE  /\ InFlight' = InFlight
         /\ commands' \in Seq(Commands) /\ responses' \in Seq(Responses)
         /\ phase' = "waits"
         /\ responses'[Len(responses')].type = type
<1> DEFINE response == [to |-> Head(commands), type |-> type]
<1>1. responses' = Append(responses, response) /\ commands' = Tail(commands) /\ phase' = "waits"
  BY DEF Respond
<1>2. commands \in Seq(Commands) /\ responses \in Seq(Responses)
  BY DEF Typed
<1>3. /\ Travels(Append(responses, response), Tail(commands)) = Travels(responses, commands)
      /\ Tail(commands) \in Seq(Commands) /\ Append(responses, response) \in Seq(Responses)
  BY <1>2, TravelsAnswer
<1>4. response.type = type
  OBVIOUS
<1> HIDE DEF response
<1>5. Append(responses, response)[Len(Append(responses, response))] = response
  <2>1. response \in Responses
    BY <1>2 DEF response, Responses
  <2> QED BY <1>2, <2>1
<1> QED BY <1>1, <1>3, <1>4, <1>5 DEF InFlight

\* What the engine does with a command, told from what it does to the queues.
LEMMA EngineQueues ==
  ASSUME Inv, EngineStep \/ EngineFails
  PROVE  /\ commands # <<>>
         /\ InFlight' = InFlight
         /\ commands' \in Seq(Commands) /\ responses' \in Seq(Responses)
         /\ events' \in Seq(Events) /\ phase' \in EnginePhases
<1> USE DEF queueVars
<1>1. commands # <<>>
  BY DEF Inv, Serving, EngineStep, EngineFails, StartRefused, Negotiate, ClearOld, Connect,
         Finish, Stop, StopEnds, NegotiationFails, BuildFails, FinishFails, Serves
<1>2. Typed
  BY DEF Inv
<1>3. ASSUME UNCHANGED <<commands, responses>> PROVE InFlight' = InFlight
  BY <1>3 DEF InFlight
<1>4. CASE StartRefused \/ NegotiationFails \/ BuildFails
  <2>1. Respond("error") /\ UNCHANGED events
    BY <1>4 DEF StartRefused, NegotiationFails, BuildFails
  <2> QED BY <1>1, <1>2, <2>1, RespondKeeps DEF Typed, EnginePhases
<1>5. CASE Finish
  <2>1. Respond("ok") /\ events' = Append(events, "ready")
    BY <1>5 DEF Finish, Emit
  <2>2. events' \in Seq(Events)
    BY <1>2, <2>1, QueuedAfterEmit DEF Typed, Events
  <2> QED BY <1>1, <1>2, <2>1, <2>2, RespondKeeps DEF EnginePhases
<1>6. CASE StopEnds
  <2>1. /\ \E type \in {"ok", "error"} : Respond(type)
        /\ events' \in {events, Append(events, "stopped")}
    BY <1>6 DEF StopEnds, Emit
  <2>2. events' \in Seq(Events)
    BY <1>2, <2>1, QueuedAfterEmit DEF Typed, Events
  <2> QED BY <1>1, <1>2, <2>1, <2>2, RespondKeeps DEF EnginePhases
<1>7. CASE Negotiate \/ ClearOld \/ Connect
  <2>1. UNCHANGED <<commands, responses, events>> /\ phase' \in {"clears", "builds", "finishes"}
    BY <1>7 DEF Negotiate, ClearOld, Connect
  <2> QED BY <1>1, <1>2, <1>3, <2>1 DEF Typed, EnginePhases
<1>8. CASE Stop \/ FinishFails
  <2>1. /\ UNCHANGED <<commands, responses, events>>
        /\ phase' \in {"stops", "stops active", "fails", "fails active"}
    BY <1>8 DEF Stop, FinishFails, BeginStop
  <2> QED BY <1>1, <1>2, <1>3, <2>1 DEF Typed, EnginePhases
<1> QED BY <1>4, <1>5, <1>6, <1>7, <1>8 DEF EngineStep, EngineFails

LEMMA EngineKeepsInv ==
  ASSUME Inv, EngineStep \/ EngineFails, UNCHANGED <<shell, presentationVars>>
  PROVE  Inv'
<1> USE DEF queueVars, presentationVars
<1>1. /\ commands # <<>> /\ InFlight' = InFlight
      /\ Typed' /\ Typed
  BY EngineQueues DEF Inv, Typed
<1>2. InFlight # <<>>
  BY <1>1, FlightTyped
<1>3. Orderly(shell, InFlight)' /\ Showing'
  BY <1>1 DEF Inv, Showing
<1>4. Serving'
  <2>1. CASE phase' = "waits"
    BY <2>1 DEF Serving
  <2>2. CASE phase' # "waits"
    BY <2>2 DEF Inv, Serving, EngineStep, EngineFails, StartRefused, Negotiate, ClearOld,
         Connect, Finish, Stop, StopEnds, NegotiationFails, BuildFails, FinishFails, Serves,
         Respond, BeginStop
  <2> QED BY <2>1, <2>2
<1>5. (awaited /\ Granted => Alive)'
  <2> SUFFICES ASSUME awaited, Granted' PROVE Alive'
    OBVIOUS
  <2>1. CASE Connect
    BY <2>1 DEF Connect, Alive, Runs
  <2>2. CASE Finish
    <3>1. Alive
      BY <2>2 DEF Inv, Finish, Granted
    <3>2. Emit("ready") /\ UNCHANGED <<state, current, worker>>
      BY <2>2 DEF Finish
    <3>3. events \in Seq(Events) /\ "ready" \in Events
      BY <1>1 DEF Typed, Events
    <3> QED BY <3>1, <3>2, <3>3, EmitQueues DEF Alive, Runs
  <2>3. CASE StartRefused \/ NegotiationFails \/ BuildFails
    <3>1. Respond("error")
      BY <2>3 DEF StartRefused, NegotiationFails, BuildFails
    <3> QED BY <1>1, <3>1, RespondKeeps DEF Granted
  <2>4. CASE Negotiate \/ ClearOld \/ Stop \/ FinishFails
    <3>1. commands' # <<>> /\ phase' # "finishes"
      BY <1>1, <2>4 DEF Negotiate, ClearOld, Stop, FinishFails, BeginStop
    <3> QED BY <3>1 DEF Granted
  <2>5. CASE StopEnds
    <3>1. CASE phase \in {"fails", "fails active"}
      <4>1. Respond("error")
        BY <2>5, <3>1 DEF StopEnds
      <4> QED BY <1>1, <4>1, RespondKeeps DEF Granted
    <3>2. CASE phase \in {"stops", "stops active"}
      <4>1. commands' = Tail(commands) /\ phase' = "waits"
        BY <2>5 DEF StopEnds, Respond
      <4>2. commands' = <<>> /\ Head(commands) = "stop"
        BY <3>2, <4>1 DEF Inv, Granted, Serving
      <4>3. Len(commands) = 1 /\ commands[Len(commands)] = "stop"
        <5>1. /\ commands \in Seq(Commands) /\ Len(Tail(commands)) = Len(commands) - 1
              /\ Len(commands) \in Nat /\ Head(commands) = commands[1]
          BY <1>1, HeadTailProperties DEF Typed
        <5>2. Len(Tail(commands)) = 0
          BY <4>1, <4>2, EmptySeq
        <5> QED BY <4>2, <5>1, <5>2
      <4>4. InFlight[Len(InFlight)] = "stop"
        BY <1>1, <4>3, FlightTyped
      <4> QED BY <4>4 DEF Inv, Showing
    <3> QED BY <2>5, <3>1, <3>2 DEF StopEnds
  <2> QED BY <2>1, <2>2, <2>3, <2>4, <2>5 DEF EngineStep, EngineFails
<1>6. ~shown'
  BY <1>2 DEF Inv, Showing
<1>7. Connected'
  BY DEF Inv, Connected, Runs, EngineStep, EngineFails, StartRefused, Negotiate, ClearOld,
         Connect, Finish, Stop, StopEnds, NegotiationFails, BuildFails, FinishFails, BeginStop
<1> QED BY <1>1, <1>3, <1>4, <1>5, <1>6, <1>7 DEF Inv

LEMMA WorkerKeepsInv ==
  ASSUME Inv, WorkerStep \/ WorkerFails \/ KeyframeAccepted, UNCHANGED <<shell, presentationVars>>
  PROVE  Inv'
<1> USE DEF queueVars, threadVars, mediaVars, presentationVars
<1>1. UNCHANGED <<commands, responses, phase>>
  BY DEF WorkerStep, WorkerFails, Superseded, Resumes, SetsConnected, AttemptRecovery,
         ReceiverStopped, ReportsError, ReportsStopped, Presents, Recovered, TimesOut,
         ReceiverEnds, RecoveryFails, CaptureFails, MediaError, KeyframeAccepted, Terminal
<1>2. Typed /\ events \in Seq(Events)
  BY DEF Inv, Typed
<1>3. \/ UNCHANGED events
      \/ \E event \in Events : Emit(event)
  BY DEF WorkerStep, WorkerFails, Superseded, Resumes, SetsConnected, AttemptRecovery,
         ReceiverStopped, ReportsError, ReportsStopped, Presents, Recovered, TimesOut,
         ReceiverEnds, RecoveryFails, CaptureFails, MediaError, KeyframeAccepted, Terminal, Events
<1>4. Typed' /\ InFlight' = InFlight
  BY <1>1, <1>2, <1>3, EmitQueues DEF Typed, InFlight
<1>5. Alive => Alive'
  <2>1. CASE Superseded \/ Resumes \/ Recovered \/ TimesOut \/ ReceiverEnds \/ KeyframeAccepted
    <3>1. /\ UNCHANGED <<events, current>>
          /\ \/ UNCHANGED worker
             \/ /\ worker \notin {"reports error", "reports stopped"}
                /\ worker' \in {"runs", "resumes"} \/ ~current
      BY <2>1 DEF Superseded, Resumes, Recovered, TimesOut, ReceiverEnds, KeyframeAccepted,
                  Receives
    <3> QED BY <3>1 DEF Alive, Runs, Queued
  <2>2. CASE AttemptRecovery \/ ReceiverStopped \/ RecoveryFails \/ CaptureFails
    <3>1. /\ UNCHANGED events
          /\ worker' = "reports error" \/ UNCHANGED <<current, worker>>
      BY <2>2 DEF AttemptRecovery, ReceiverStopped, RecoveryFails, CaptureFails, Terminal
    <3> QED BY <3>1 DEF Alive, Runs, Queued
  <2>3. CASE SetsConnected
    <3>1. Emit("streaming") /\ UNCHANGED current /\ worker = "resumes" /\ worker' = "runs"
      BY <2>3 DEF SetsConnected
    <3>2. "streaming" \in Events
      BY DEF Events
    <3> QED BY <1>2, <3>1, <3>2, EmitQueues DEF Alive, Runs
  <2>4. CASE ReportsError
    BY <1>2, <2>4, EmitQueues DEF ReportsError, Alive, Events
  <2>5. CASE ReportsStopped
    BY <1>2, <2>5, EmitQueues DEF ReportsStopped, Alive, Events
  <2>6. CASE Presents \/ MediaError
    <3>1. /\ \E event \in Events : Emit(event)
          /\ UNCHANGED <<state, current, worker>>
      BY <2>6 DEF Presents, MediaError, Events
    <3> QED BY <1>2, <3>1, EmitQueues DEF Alive, Runs
  <2> QED BY <2>1, <2>2, <2>3, <2>4, <2>5, <2>6 DEF WorkerStep, WorkerFails
<1>6. Orderly(shell, InFlight)' /\ Showing' /\ Serving'
  BY <1>1, <1>4 DEF Inv, Showing, Serving
<1>7. Granted' => Granted
  BY <1>1 DEF Granted
<1>8. Connected'
  BY DEF Inv, Connected, Runs, WorkerStep, WorkerFails, Superseded, Resumes, SetsConnected,
         AttemptRecovery, ReceiverStopped, ReportsError, ReportsStopped, Presents, Recovered,
         TimesOut, ReceiverEnds, RecoveryFails, CaptureFails, MediaError, KeyframeAccepted,
         Terminal, Receives
<1> QED BY <1>4, <1>5, <1>6, <1>7, <1>8 DEF Inv

\* A handler of the shell whose commands are sent.
LEMMA BecomesKeepsInv ==
  ASSUME Inv, NEW s, Becomes(s),
         Plain(shell, s) \/ Stopping(shell, s) \/ Starting(shell, s)
  PROVE  Inv'
<1> USE DEF queueVars, threadVars, mediaVars, presentationVars
<1>1. /\ Typed /\ commands \in Seq(Commands) /\ responses \in Seq(Responses)
      /\ InFlight \in Seq(Commands) /\ Orderly(shell, InFlight) /\ shell.sent = <<>>
  BY FlightTyped DEF Inv, Typed
<1>2. /\ Formed(shell') /\ shell'.sent = <<>>
      /\ shell'.calls = s.calls /\ shell'.pending = s.pending
  BY DEF Becomes, Plain, Stopping, Starting
<1>3. ASSUME NEW f, Orderly(s, f) PROVE Orderly(shell', f)
  BY <1>2, <1>3 DEF Orderly
<1>4. UNCHANGED <<responses, events, phase, state, current, worker>> /\ commands' = commands \o s.sent
  BY DEF Becomes
<1>5. Alive' = Alive
  BY <1>4 DEF Alive, Runs, Queued
<1>6. CASE Plain(shell, s)
  <2>1. UNCHANGED <<commands, shown, awaited>>
    <3>1. s.sent = <<>>
      BY <1>1, <1>6 DEF Plain
    <3> QED BY <1>1, <1>4, <3>1, ConcatEmptySeq DEF Becomes, Sends
  <2>2. InFlight' = InFlight
    BY <1>4, <2>1 DEF InFlight
  <2>3. Orderly(shell, InFlight)'
    BY <1>1, <1>3, <1>6, <2>2, OrderlyPlain
  <2>4. Typed' /\ Showing' /\ Serving' /\ Granted' = Granted
    BY <1>2, <1>4, <2>1, <2>2 DEF Inv, Typed, Showing, Serving, Granted
  <2> QED BY <1>4, <1>5, <2>1, <2>3, <2>4 DEF Inv, Connected, Runs
<1>7. ASSUME NEW command \in Commands, s.sent = <<command>>, Orderly(s, Append(InFlight, command)),
             command = "start" => phase # "finishes"
      PROVE  Inv'
  <2>1. /\ commands' = commands \o <<command>> /\ shown' = FALSE /\ awaited' = (command = "start")
    <3>1. s.sent # <<>> /\ s.sent[Len(s.sent)] = command
      BY <1>7
    <3> QED BY <1>4, <1>7, <3>1 DEF Becomes, Sends
  <2>2. /\ InFlight' = Append(InFlight, command) /\ commands' \in Seq(Commands)
    BY <1>1, <1>4, <2>1, TravelsSend DEF InFlight
  <2>3. commands' # <<>> /\ (commands # <<>> => Head(commands') = Head(commands))
    BY <1>1, <2>1
  <2>4. Orderly(shell, InFlight)'
    BY <1>3, <1>7, <2>2
  <2>5. Typed'
    <3>1. shown' \in BOOLEAN /\ awaited' \in BOOLEAN
      BY <2>1
    <3> QED BY <1>1, <1>2, <1>4, <2>2, <3>1 DEF Typed
  <2>6. Showing'
    <3>1. InFlight' # <<>> /\ InFlight'[Len(InFlight')] = command
      BY <1>1, <2>2, AppendFacts
    <3> QED BY <2>1, <3>1 DEF Showing
  <2>7. Serving'
    BY <1>4, <2>3 DEF Inv, Serving
  <2>8. ~(awaited' /\ Granted')
    BY <1>4, <1>7, <2>1, <2>3 DEF Granted
  <2> QED BY <1>4, <2>1, <2>4, <2>5, <2>6, <2>7, <2>8 DEF Inv, Connected, Runs
<1>8. CASE Stopping(shell, s)
  BY <1>1, <1>7, <1>8, OrderlyStopping DEF Stopping, Commands
<1>9. CASE Starting(shell, s)
  <2>1. phase # "finishes"
    <3>1. ASSUME phase = "finishes" PROVE "start" \in shell.calls
      <4>1. commands # <<>> /\ Head(commands) = "start"
        BY <3>1 DEF Inv, Serving
      <4>2. Len(commands) \in Nat /\ 1 \in 1 .. Len(commands) /\ commands[1] = "start"
        BY <1>1, <4>1
      <4>3. InFlight[Len(responses) + 1] = "start" /\ Len(responses) + 1 \in DOMAIN InFlight
        BY <1>1, <4>2, TravelsCarries DEF InFlight, Carries
      <4> QED BY <1>1, <4>3 DEF Orderly
    <3> QED BY <1>1, <1>9, <3>1 DEF Orderly, Starting
  <2> QED BY <1>1, <1>7, <1>9, <2>1, OrderlyStarting DEF Starting, Commands
<1> QED BY <1>6, <1>8, <1>9

\* A step of the shell that leaves the commands in flight alone.
LEMMA ShellKeepsInv ==
  ASSUME Inv, Keeps(shell, shell'), UNCHANGED engineVars,
         UNCHANGED presentationVars \/ Invalidate
  PROVE  Inv'
<1> USE DEF engineVars, queueVars, threadVars, mediaVars, presentationVars
<1>1. InFlight' = InFlight
  BY DEF InFlight
<1>2. Typed'
  <2>1. shown' \in BOOLEAN /\ awaited' \in BOOLEAN
    BY DEF Inv, Typed, Invalidate
  <2> QED BY <2>1 DEF Inv, Typed, Keeps
<1>3. Orderly(shell, InFlight)'
  <2>1. Orderly(shell', InFlight)
    BY FlightTyped, KeepsPlain, OrderlyPlain DEF Inv
  <2> QED BY <1>1, <2>1
<1>4. (shown' => shown) /\ (awaited' => awaited)
  BY DEF Invalidate
<1>5. Alive' = Alive /\ Granted' = Granted
  BY DEF Alive, Runs, Granted, Queued
<1> QED BY <1>1, <1>2, <1>3, <1>4, <1>5 DEF Inv, Showing, Serving, Connected, Runs, Alive

LEMMA EventKeepsInv ==
  ASSUME Inv, DeliverEvent
  PROVE  Inv'
<1> USE DEF queueVars, threadVars, mediaVars, presentationVars
<1>1. /\ events # <<>> /\ events' = Tail(events) /\ ShowsEvent(Head(events))
      /\ shell' = NativeEvent(shell, Head(events))
      /\ UNCHANGED <<commands, responses, phase, state, current, worker>>
  BY DEF DeliverEvent
<1>2. events \in Seq(Events) /\ Formed(shell) /\ shell.sent = <<>>
  BY DEF Inv, Typed
<1>3. /\ events' \in Seq(Events)
      /\ \A e : e # Head(events) /\ Within(events, e) => Within(events', e)
  BY <1>1, <1>2, QueuedAfterTail
<1>4. Keeps(shell, shell')
  BY <1>1, <1>2, NativeEventKeeps
<1>5. InFlight' = InFlight
  BY <1>1 DEF InFlight
<1>6. Orderly(shell, InFlight)'
  <2>1. Orderly(shell', InFlight)
    BY <1>4, FlightTyped, KeepsPlain, OrderlyPlain DEF Inv
  <2> QED BY <1>5, <2>1
<1>7. CASE Head(events) \in {"error", "stopped"}
  <2>1. shown' = FALSE /\ awaited' = FALSE
    BY <1>1, <1>7 DEF ShowsEvent, Invalidate
  <2>2. Typed'
    BY <1>1, <1>2, <1>3, <1>4, <2>1 DEF Inv, Typed, Keeps
  <2> QED BY <1>1, <1>5, <1>6, <2>1, <2>2 DEF Inv, Showing, Serving, Connected, Runs
<1>8. CASE Head(events) \notin {"error", "stopped"}
  <2>1. UNCHANGED <<shown, awaited>>
    BY <1>1, <1>8 DEF ShowsEvent
  <2>2. Typed'
    BY <1>1, <1>2, <1>3, <1>4, <2>1 DEF Inv, Typed, Keeps
  <2>3. Alive => Alive'
    <3>1. (Queued("error") => Queued("error")') /\ (Queued("stopped") => Queued("stopped")')
      BY <1>3, <1>8 DEF Queued, Within
    <3> QED BY <1>1, <3>1 DEF Alive, Runs
  <2>4. Granted' = Granted
    BY <1>1 DEF Granted
  <2> QED BY <1>1, <1>5, <1>6, <2>1, <2>2, <2>3, <2>4
          DEF Inv, Showing, Serving, Connected, Runs, Alive
<1> QED BY <1>7, <1>8

\* The shell's side of an answer: its call is closed.
LEMMA ResponseOrderly ==
  ASSUME Inv, DeliverResponse
  PROVE  /\ Orderly(shell', Tail(InFlight))
         /\ Formed(shell') /\ shell'.sent = <<>>
<1> DEFINE response == Head(responses)
           f == InFlight
<1>1. /\ responses # <<>> /\ responses \in Seq(Responses) /\ commands \in Seq(Commands)
      /\ Formed(shell) /\ shell.sent = <<>> /\ Orderly(shell, f) /\ f \in Seq(Commands)
  BY FlightTyped DEF DeliverResponse, Inv, Typed
<1>2. /\ f # <<>> /\ response.to = f[1]
  BY <1>1, TravelsDeliver DEF InFlight
<1>3. f[1] \in Commands /\ f[1] \in shell.calls /\ 1 \in DOMAIN f
  BY <1>1, <1>2 DEF Orderly
<1>4. shell' = IF response.to = "start" THEN Started(shell, response.type = "ok")
               ELSE Stopped(shell)
  BY DEF DeliverResponse
<1> SUFFICES Orderly(shell', Tail(f)) /\ Formed(shell') /\ shell'.sent = <<>>
  OBVIOUS
<1> HIDE DEF response, f
<1>5. CASE f[1] = "start"
  <2>1. shell' = Started(shell, response.type = "ok")
    BY <1>2, <1>4, <1>5
  <2>2. /\ Formed(shell') /\ shell'.sent = shell.sent
        /\ shell'.calls = shell.calls \ {"start"}
        /\ shell'.pending => shell.pending
    BY <1>1, <2>1, StartedAnswers
  <2>3. Orderly(shell', Tail(f))
    BY <1>1, <1>2, <1>5, <2>2, OrderlyDelivered
  <2> QED BY <1>1, <2>2, <2>3
<1>6. CASE f[1] = "stop"
  <2>1. shell' = Stopped(shell)
    BY <1>2, <1>4, <1>6
  <2>2. /\ Formed(shell') /\ shell'.sent = shell.sent
        /\ shell'.pending => shell.pending
        /\ IF shell'.pending
           THEN shell'.calls = (shell.calls \ {"stop", "start"}) \cup {"discover"}
           ELSE shell'.calls = shell.calls \ {"stop"}
    BY <1>1, <2>1, StoppedAnswers
  <2>3. CASE ~shell'.pending
    <3>1. shell'.calls = shell.calls \ {"stop"} /\ shell.calls \ {f[1]} \subseteq shell'.calls
      BY <1>6, <2>2, <2>3
    <3>2. Orderly(shell', Tail(f))
      BY <1>1, <1>2, <2>2, <3>1, OrderlyDelivered
    <3> QED BY <1>1, <2>2, <3>2
  <2>4. CASE shell'.pending
    <3>1. \A k \in DOMAIN f : f[k] = "start" => k < 1
      BY <1>3, <1>6, <2>2, <2>4, <1>1 DEF Orderly
    <3>2. \A k \in DOMAIN f : f[k] \in Commands /\ k >= 1
      BY <1>1
    <3>3. \A k \in DOMAIN f : k = 1
      BY <1>1, <1>3, <1>6, <3>1, <3>2 DEF Orderly, Commands
    <3>4. \A k \in DOMAIN Tail(f) : Tail(f)[k] \in shell'.calls
      <4>1. /\ DOMAIN f = 1 .. Len(f) /\ DOMAIN Tail(f) = 1 .. Len(f) - 1
            /\ Len(f) \in Nat \ {0}
        BY <1>1, <1>2, TailFacts
      <4>2. Len(f) = 1
        BY <3>3, <4>1
      <4> QED BY <4>1, <4>2
    <3>5. Orderly(shell', Tail(f))
      <4>1. shell'.calls = (shell.calls \ {"stop", "start"}) \cup {"discover"}
        BY <2>2, <2>4
      <4> QED BY <1>1, <1>2, <2>2, <3>4, <4>1, OrderlyDelivered
    <3> QED BY <1>1, <2>2, <3>5
  <2> QED BY <2>3, <2>4
<1> QED BY <1>3, <1>5, <1>6 DEF Commands

LEMMA ResponseKeepsInv ==
  ASSUME Inv, DeliverResponse
  PROVE  Inv'
<1> USE DEF queueVars, threadVars, mediaVars, presentationVars
<1> DEFINE response == Head(responses)
<1>1. /\ responses # <<>> /\ responses' = Tail(responses) /\ ShowsResponse(response)
      /\ UNCHANGED <<commands, events, phase, state, current, worker>>
  BY DEF DeliverResponse
<1>2. /\ Typed /\ responses \in Seq(Responses) /\ commands \in Seq(Commands)
      /\ InFlight \in Seq(Commands) /\ Orderly(shell, InFlight)
  BY FlightTyped DEF Inv, Typed
<1>3. /\ responses' \in Seq(Responses)
      /\ InFlight # <<>> /\ response.to = InFlight[1]
      /\ InFlight' = Tail(InFlight)
  BY <1>1, <1>2, TravelsDeliver DEF InFlight
<1>4. Orderly(shell, InFlight)' /\ Formed(shell') /\ shell'.sent = <<>>
  BY <1>3, ResponseOrderly
<1>5. Alive' = Alive
  BY <1>1 DEF Alive, Runs, Queued
<1>6. ~shown
  BY <1>3 DEF Inv, Showing
<1>7. Serving'
  BY <1>1 DEF Inv, Serving
<1>8. /\ Len(InFlight) \in Nat \ {0} /\ DOMAIN InFlight = 1 .. Len(InFlight)
      /\ Len(InFlight') = Len(InFlight) - 1
      /\ \A k \in 1 .. Len(InFlight) - 1 : InFlight'[k] = InFlight[k + 1]
  BY <1>2, <1>3, TailFacts
<1>9. CASE awaited /\ response.to = "start"
  <2>1. shown' = (response.type = "ok") /\ awaited' = FALSE
    BY <1>1, <1>9 DEF ShowsResponse
  <2>2. InFlight[Len(InFlight)] = "start"
    BY <1>9 DEF Inv, Showing
  <2>3. Len(InFlight) = 1
    <3>1. 1 \in DOMAIN InFlight /\ Len(InFlight) \in DOMAIN InFlight
      BY <1>8
    <3> QED BY <1>2, <1>3, <1>9, <2>2, <3>1 DEF Orderly
  <2>4. InFlight' = <<>>
    BY <1>2, <1>3, <1>8, <2>3
  <2>5. response.type = "ok" => Alive
    <3>1. /\ Len(responses) \in Nat /\ Len(commands) \in Nat
          /\ Len(InFlight) = Len(responses) + Len(commands)
          /\ Len(responses) # 0
      BY <1>1, <1>2, FlightTyped, EmptySeq
    <3>2. Len(responses) = 1 /\ Len(commands) = 0
      <4>1. \A m, n \in Nat : m # 0 /\ m + n = 1 => m = 1 /\ n = 0
        OBVIOUS
      <4>2. Len(responses) + Len(commands) = 1
        BY <2>3, <3>1
      <4> QED BY <3>1, <4>1, <4>2
    <3>3. commands = <<>> /\ response = responses[Len(responses)]
      BY <1>1, <1>2, <3>2
    <3> QED BY <1>9, <3>3 DEF Inv, Granted
  <2>6. Typed'
    BY <1>1, <1>2, <1>3, <1>4, <2>1 DEF Typed
  <2> QED BY <1>1, <1>4, <1>5, <1>7, <2>1, <2>4, <2>5, <2>6 DEF Inv, Showing, Connected, Runs
<1>10. CASE ~(awaited /\ response.to = "start")
  <2>1. UNCHANGED <<shown, awaited>>
    BY <1>1, <1>10 DEF ShowsResponse
  <2>2. Typed'
    BY <1>1, <1>2, <1>3, <1>4, <2>1 DEF Typed
  <2>3. ASSUME awaited
        PROVE  /\ InFlight' # <<>> /\ InFlight'[Len(InFlight')] = "start"
               /\ Granted' => Granted
    <3>1. InFlight[Len(InFlight)] = "start" /\ InFlight[1] # "start"
      BY <1>3, <1>10, <2>3 DEF Inv, Showing
    <3>2. Len(InFlight) > 1
      BY <1>8, <3>1
    <3>3. /\ Len(InFlight') \in 1 .. Len(InFlight) - 1
          /\ Len(InFlight') + 1 = Len(InFlight)
      BY <1>8, <3>2
    <3>4. InFlight'[Len(InFlight')] = "start"
      BY <1>8, <3>1, <3>3
    <3>5. InFlight' # <<>>
      BY <3>3, EmptySeq
    <3>6. ASSUME commands = <<>>, responses'[Len(responses')].type = "ok"
          PROVE  responses[Len(responses)].type = "ok"
      <4>1. Len(InFlight) = Len(responses) /\ Len(responses) > 1
        BY <1>2, <3>2, <3>6, FlightTyped, EmptySeq
      <4>2. /\ Len(responses') = Len(responses) - 1 /\ Len(responses) \in Nat
            /\ \A k \in 1 .. Len(responses') : responses'[k] = responses[k + 1]
        BY <1>1, <1>2, HeadTailProperties, LenProperties
      <4>3. Len(responses') \in 1 .. Len(responses') /\ Len(responses') + 1 = Len(responses)
        BY <4>1, <4>2
      <4> QED BY <3>6, <4>2, <4>3
    <3> QED BY <1>1, <3>4, <3>5, <3>6 DEF Granted
  <2> QED BY <1>1, <1>4, <1>5, <1>6, <1>7, <2>1, <2>2, <2>3 DEF Inv, Showing, Connected, Runs
<1> QED BY <1>9, <1>10


LEMMA NextKeepsInv ==
  ASSUME Inv, [Next]_vars
  PROVE  Inv'
<1>1. Formed(shell) /\ shell.sent = <<>>
  BY DEF Inv, Typed
<1>2. ASSUME NEW s, Becomes(s), Plain(shell, s) \/ Stopping(shell, s) \/ Starting(shell, s)
      PROVE  Inv'
  BY <1>2, BecomesKeepsInv
<1>3. CASE Streams
  BY <1>3, EngineKeepsInv, WorkerKeepsInv DEF Streams
<1>4. CASE Shows
  BY <1>4, WorkerKeepsInv DEF Shows, WorkerStep
<1>5. CASE StreamerFails
  BY <1>5, EngineKeepsInv, WorkerKeepsInv DEF StreamerFails
<1>6. CASE DeliverEvent
  BY <1>6, EventKeepsInv
<1>7. CASE DeliverResponse
  BY <1>7, ResponseKeepsInv
<1>8. CASE PresentationFails
  <2>1. Keeps(shell, shell')
    BY <1>1, <1>8, SnapshotKeeps, KeepsSelf DEF PresentationFails
  <2> QED BY <1>8, <2>1, ShellKeepsInv DEF PresentationFails
<1>9. CASE RestartTimer
  <2> DEFINE fired == [shell EXCEPT !.timer = FALSE]
  <2>1. PICK accepted \in BOOLEAN : Becomes(Recover(fired, accepted))
    BY <1>9 DEF RestartTimer, Handles, Either
  <2>2. /\ Formed(fired) /\ fired.sent = <<>>
        /\ fired.calls = shell.calls /\ fired.pending = shell.pending
    BY <1>1
  <2> HIDE DEF fired
  <2> DEFINE t == Recover(fired, accepted)
  <2>3. Plain(fired, t) \/ Stopping(fired, t)
    BY <2>2, RecoverSteps
  <2>4. Becomes(t)
    BY <2>1
  <2> HIDE DEF t
  <2>5. Plain(shell, t) \/ Stopping(shell, t)
    BY <1>1, <2>2, <2>3 DEF Plain, Stopping
  <2> QED BY <1>2, <2>4, <2>5
<1>10. CASE StopTimer
  BY <1>1, <1>10, StopOverdueKeeps, ShellKeepsInv DEF StopTimer
<1>11. CASE Polls
  BY <1>1, <1>2, <1>11, CallsPlain DEF Polls, Core
<1>12. CASE ResumeDeadline
  <2> DEFINE p == [shell EXCEPT !.polling = FALSE]
  <2>1. Keeps(shell, p)
    BY <1>1 DEF Keeps
  <2>2. Becomes(ScheduleRecovery(p))
    BY <1>12 DEF ResumeDeadline
  <2> HIDE DEF p
  <2>3. Keeps(shell, ScheduleRecovery(p))
    BY <2>1, ScheduleRecoveryKeeps, KeepsTwice DEF Keeps
  <2> QED BY <1>2, <2>2, <2>3, KeepsPlain
<1>13. CASE UserStops
  <2>1. PICK accepted \in BOOLEAN : Becomes(StopSession(shell, accepted))
    BY <1>13 DEF UserStops, Either
  <2> QED BY <1>1, <1>2, <2>1, StopSessionSteps
<1>14. CASE UserRetries
  <2>1. PICK accepted \in BOOLEAN : Becomes(Retry(shell, accepted))
    BY <1>14 DEF UserRetries, Either
  <2> QED BY <1>1, <1>2, <2>1, RetrySteps
<1>15. CASE AnswerPrepare
  <2>1. CASE Handles(Prepared(shell, TRUE), Prepared(shell, FALSE))
    <3>1. PICK accepted \in BOOLEAN : Becomes(Prepared(shell, accepted))
      BY <2>1 DEF Handles, Either
    <3>2. "prepare" \in shell.calls
      BY <1>15 DEF AnswerPrepare, Asked
    <3> QED BY <1>1, <1>2, <3>1, <3>2, PreparedSteps
  <2>2. CASE Becomes(PrepareFailed(shell))
    BY <1>1, <1>2, <2>2, AnswersPlain
  <2> QED BY <1>15, <2>1, <2>2 DEF AnswerPrepare
<1>16. CASE AnswerPoll
  <2>1. CASE Becomes(PollFailed(shell))
    BY <1>1, <1>2, <2>1, PollFailedPlain
  <2>2. CASE \E answer \in Later(shell.session) : Becomes(AcceptSession(Answered(shell, "poll"), answer))
    BY <1>1, <1>2, <2>2, AnswersPlain
  <2> QED BY <1>16, <2>1, <2>2 DEF AnswerPoll
<1>17. CASE AnswerDiscover
  BY <1>1, <1>2, <1>17, AnswersPlain DEF AnswerDiscover
<1>18. CASE AnswerClaim
  BY <1>1, <1>2, <1>18, AnswersPlain DEF AnswerClaim
<1>19. CASE AnswerEnd
  <2> DEFINE ended == Answered(shell, "end")
  <2>1. CASE Becomes(EndFailed(shell))
    BY <1>1, <1>2, <2>1, AnswersPlain
  <2>2. CASE Handles(SessionGone(ended, TRUE), SessionGone(ended, FALSE))
    <3>1. PICK accepted \in BOOLEAN : Becomes(SessionGone(ended, accepted))
      BY <2>2 DEF Handles, Either
    <3>2. /\ Formed(ended) /\ ended.sent = <<>> /\ ended.pending = shell.pending
          /\ ended.calls = shell.calls \ {"end"}
      BY <1>1 DEF Answered
    <3> HIDE DEF ended
    <3> DEFINE t == SessionGone(ended, accepted)
    <3>3. Plain(ended, t) \/ Stopping(ended, t)
      BY <3>2, SessionGoneSteps
    <3>4. Becomes(t)
      BY <3>1
    <3> HIDE DEF t
    <3>5. Plain(shell, t) \/ Stopping(shell, t)
      BY <1>1, <3>2, <3>3 DEF Plain, Stopping, Commands
    <3> QED BY <1>2, <3>4, <3>5
  <2> QED BY <1>19, <2>1, <2>2 DEF AnswerEnd
<1>20. CASE UNCHANGED vars
  <2>1. Keeps(shell, shell') /\ UNCHANGED <<engineVars, presentationVars>>
    BY <1>1, <1>20, KeepsSelf DEF vars
  <2> QED BY <2>1, ShellKeepsInv
<1> QED BY <1>3, <1>4, <1>5, <1>6, <1>7, <1>8, <1>9, <1>10, <1>11, <1>12, <1>13, <1>14, <1>15,
           <1>16, <1>17, <1>18, <1>19, <1>20 DEF Next

\* The invariant holds throughout: the commands in flight are in order, and
\* the answer that shows frames speaks of the engine as it still is.
THEOREM SessionIsOrderly == Spec => []Inv
<1>1. Init => Inv
  BY Initially
<1>2. Inv /\ [Next]_vars => Inv'
  BY NextKeepsInv
<1> QED BY <1>1, <1>2, PTL DEF Spec

\* Frames are shown, and input is captured, only for a session that the engine
\* runs or whose end is on its way to the runtime (NativeStreamRuntime's
\* presentationStartId, drainCallbacks), for every number of reconnections,
\* failures, retries and stops.
THEOREM ShownIsAlive == Spec => []ShownMeansAlive
<1>1. Inv => ShownMeansAlive
  BY DEF Inv, Alive, Connected, ShownMeansAlive
<1> QED BY <1>1, SessionIsOrderly, PTL

-----------------------------------------------------------------------------
(* Recovery: what a shell whose session the user has not ended relies on.  *)

\* At most one step of a recovery is under way, and while one is, no timer
\* runs, no context is prepared and no reconnect is missing.
Sane(s) ==
  /\ Open(s) /\ "end" \notin s.calls /\ s.tries \in Nat
  /\ \A c, d \in {"stop", "discover", "claim"} : c \in s.calls /\ d \in s.calls => c = d
  /\ "discover" \in s.calls \/ "claim" \in s.calls => s.pending
  /\ s.pending => ~s.timer /\ ~s.exhausted /\ "prepare" \notin s.calls
  /\ s.exhausted => s.tries >= MaxReconnects

\* startNativeStreamer is refused.
Covered(s) ==
  \/ s.streamer = "streaming" \/ s.pending \/ s.timer \/ s.exhausted
  \/ "start" \in s.calls \/ "stop" \in s.calls

\* A claimed session is waited for.
Waiting(s) == s.session = "resuming" /\ (s.polling \/ "poll" \in s.calls)

\* The shell and the streamer: "idle" says that no session runs there nor will,
\* "rest" that it owes no answer either.
Tied(s, idle, rest) ==
  /\ s.streamer \in {"null", "stopped"} \/ "discover" \in s.calls \/ "claim" \in s.calls => idle
  /\ "prepare" \in s.calls => rest /\ s.own /\ s.streamer \notin {"null", "stopped"}
  /\ ~idle => s.own /\ Covered(s)
  /\ Waiting(s) =>
       rest /\ ~s.pending /\ ~s.timer /\ s.stream # "error" /\ "prepare" \notin s.calls

Good(s, idle, rest) == Formed(s) /\ Sane(s) /\ Tied(s, idle, rest)

\* A step that asks for no claim.
Unclaimed(s, t) == "claim" \in t.calls => "claim" \in s.calls

\* A step that forgets no end of the streamer while a start is out.
Steady(s, t) == "start" \in s.calls /\ s.streamer \in Terminals => t.streamer \in Terminals

LEMMA Relaxed ==
  ASSUME NEW s, NEW idle \in BOOLEAN, NEW later \in BOOLEAN, NEW rest \in BOOLEAN,
         idle => later, Good(s, idle, FALSE)
  PROVE  Good(s, later, rest)
BY DEF Good, Tied

\* What a handler may change when it schedules a recovery.
Rescheduled(s, t) ==
  /\ Formed(t)
  /\ t.session = s.session /\ t.streamer = s.streamer /\ t.own = s.own
  /\ t.calls = s.calls /\ t.polling = s.polling /\ t.tries = s.tries /\ t.sent = s.sent
  /\ ~t.pending
  /\ \/ t.timer /\ t.exhausted = s.exhausted
     \/ ~t.timer /\ t.exhausted /\ t.tries >= MaxReconnects

LEMMA ScheduleRecoveryDoes ==
  ASSUME NEW s, Formed(s), Open(s), "end" \notin s.calls
  PROVE  Rescheduled(s, ScheduleRecovery(s))
<1> DEFINE p == [s EXCEPT !.pending = FALSE]
<1>1. /\ Formed(p) /\ p.session = s.session /\ p.streamer = s.streamer /\ p.own = s.own
      /\ p.calls = s.calls /\ p.polling = s.polling /\ p.tries = s.tries /\ p.sent = s.sent
      /\ ~p.pending /\ p.exhausted = s.exhausted
  OBVIOUS
<1>2. ScheduleRecovery(s) = IF p.tries >= MaxReconnects THEN Exhaust(p)
                            ELSE [p EXCEPT !.stream = "reconnecting", !.timer = TRUE]
  BY <1>1 DEF ScheduleRecovery, Open
<1> HIDE DEF p
<1> QED BY <1>1, <1>2 DEF Rescheduled, Exhaust

LEMMA RescheduledGood ==
  ASSUME NEW s, NEW t, NEW idle \in BOOLEAN, NEW rest \in BOOLEAN,
         Good(s, idle, rest), Rescheduled(s, t),
         "discover" \notin s.calls, "claim" \notin s.calls, ~Waiting(s)
  PROVE  Good(t, idle, rest) /\ Unclaimed(s, t)
BY DEF Good, Sane, Tied, Covered, Waiting, Rescheduled, Unclaimed, Open

LEMMA SnapshotDoes ==
  ASSUME NEW s, Formed(s), Open(s), "end" \notin s.calls, NEW status
  PROVE  LET t == Snapshot(s, status) IN
         /\ Formed(t)
         /\ t.session = s.session /\ t.own = s.own /\ t.calls = s.calls
         /\ t.polling = s.polling /\ t.tries = s.tries /\ t.sent = s.sent
         /\ \/ /\ t.pending = s.pending /\ t.timer = s.timer /\ t.exhausted = s.exhausted
               /\ \/ t = s /\ s.streamer \in Terminals /\ status \in Terminals
                  \/ t.streamer = status /\ (status = "error" => s.pending \/ s.timer)
            \/ /\ t.streamer = status /\ ~s.pending /\ ~t.pending
               /\ \/ t.timer /\ t.exhausted = s.exhausted
                  \/ ~t.timer /\ t.exhausted /\ t.tries >= MaxReconnects
<1> DEFINE told == IF Open(s) /\ ~s.pending /\ status \notin Terminals
                   THEN status ELSE s.stream
           p == [s EXCEPT !.streamer = status, !.stream = told]
           t == Snapshot(s, status)
           again == s.streamer \in Terminals /\ status \in Terminals
           plain == \/ status \notin Terminals \/ ~Open(p)
                    \/ status = "stopped" /\ p.expected
                    \/ p.pending \/ p.timer
<1>1. /\ Formed(p) /\ p.session = s.session /\ p.own = s.own /\ p.calls = s.calls
      /\ p.polling = s.polling /\ p.tries = s.tries /\ p.sent = s.sent
      /\ p.pending = s.pending /\ p.timer = s.timer /\ p.exhausted = s.exhausted
      /\ p.streamer = status /\ p.expected = s.expected
  <2> HIDE DEF told
  <2> QED OBVIOUS
<1>2. t = IF again THEN s ELSE IF plain THEN p ELSE ScheduleRecovery(p)
  BY DEF Snapshot
<1> HIDE DEF p
<1>3. Open(p) /\ "end" \notin p.calls
  BY <1>1 DEF Open
<1>4. Rescheduled(p, ScheduleRecovery(p))
  BY <1>1, <1>3, ScheduleRecoveryDoes
<1> HIDE DEF t
<1>5. CASE again
  <2>1. t = s
    BY <1>2, <1>5
  <2> QED BY <1>5, <2>1 DEF t
<1>6. CASE ~again /\ plain
  <2>1. t = p
    BY <1>2, <1>6
  <2>2. status = "error" => s.pending \/ s.timer
    BY <1>1, <1>3, <1>6 DEF Terminals
  <2> QED BY <1>1, <2>1, <2>2 DEF t
<1>7. CASE ~again /\ ~plain
  <2>1. t = ScheduleRecovery(p) /\ ~p.pending
    BY <1>2, <1>7
  <2> QED BY <1>1, <1>4, <2>1 DEF t, Rescheduled
<1> QED BY <1>5, <1>6, <1>7

\* A snapshot of a busy streamer.
LEMMA SnapshotGood ==
  ASSUME NEW s, NEW idle \in BOOLEAN, Good(s, idle, FALSE),
         NEW status, idle \/ status \in {"streaming", "error"}
  PROVE  /\ Good(Snapshot(s, status), idle, FALSE)
         /\ Unclaimed(s, Snapshot(s, status))
<1> DEFINE t == Snapshot(s, status)
<1>1. /\ Formed(t)
      /\ t.session = s.session /\ t.own = s.own /\ t.calls = s.calls
      /\ t.polling = s.polling /\ t.tries = s.tries /\ t.sent = s.sent
      /\ \/ /\ t.pending = s.pending /\ t.timer = s.timer /\ t.exhausted = s.exhausted
            /\ \/ t = s /\ s.streamer \in Terminals /\ status \in Terminals
               \/ t.streamer = status /\ (status = "error" => s.pending \/ s.timer)
         \/ /\ t.streamer = status /\ ~s.pending /\ ~t.pending
            /\ \/ t.timer /\ t.exhausted = s.exhausted
               \/ ~t.timer /\ t.exhausted /\ t.tries >= MaxReconnects
  BY SnapshotDoes DEF Good, Sane
<1> HIDE DEF t
<1>2. Sane(t)
  BY <1>1 DEF Good, Sane, Open
<1>3. Covered(s) => Covered(t) \/ idle
  BY <1>1 DEF Covered, Terminals
<1>4. Tied(t, idle, FALSE)
  BY <1>1, <1>3 DEF Good, Tied, Waiting
<1> QED BY <1>1, <1>2, <1>4 DEF Good, Unclaimed, t

\* Streaming again covers the session, whatever was cleared before.
LEMMA StreamingGood ==
  ASSUME NEW s, NEW idle \in BOOLEAN, Formed(s), Sane(s), "prepare" \notin s.calls, ~Waiting(s),
         "discover" \in s.calls \/ "claim" \in s.calls => idle,
         ~idle => s.own
  PROVE  /\ Good(Snapshot(s, "streaming"), idle, FALSE)
         /\ Unclaimed(s, Snapshot(s, "streaming"))
<1> DEFINE t == Snapshot(s, "streaming")
<1>1. /\ Formed(t)
      /\ t.session = s.session /\ t.own = s.own /\ t.calls = s.calls
      /\ t.polling = s.polling /\ t.tries = s.tries /\ t.streamer = "streaming"
      /\ \/ t.pending = s.pending /\ t.timer = s.timer /\ t.exhausted = s.exhausted
         \/ /\ ~s.pending /\ ~t.pending
            /\ \/ t.timer /\ t.exhausted = s.exhausted
               \/ ~t.timer /\ t.exhausted /\ t.tries >= MaxReconnects
  BY SnapshotDoes DEF Sane, Terminals
<1> HIDE DEF t
<1>2. Sane(t)
  BY <1>1 DEF Sane, Open
<1>3. Tied(t, idle, FALSE)
  BY <1>1 DEF Tied, Covered, Waiting
<1> QED BY <1>1, <1>2, <1>3 DEF Good, Unclaimed, t

LEMMA EventGood ==
  ASSUME NEW s, NEW idle \in BOOLEAN, Good(s, idle, FALSE),
         NEW event \in Events, event = "stopped" => idle \/ s.streamer \in Terminals
  PROVE  Good(NativeEvent(s, event), idle, FALSE) /\ Unclaimed(s, NativeEvent(s, event))
<1> DEFINE u == [s EXCEPT !.tries = 0, !.exhausted = FALSE, !.timer = FALSE]
<1>1. CASE event = "first-frame"
  <2>1. /\ Formed(u) /\ u.calls = s.calls /\ u.own = s.own /\ u.session = s.session
        /\ u.polling = s.polling /\ u.pending = s.pending /\ u.tries = 0
        /\ ~u.exhausted /\ ~u.timer
    BY DEF Good
  <2>2. FirstFrame(s) = s \/ FirstFrame(s) = Snapshot(u, "streaming")
    BY DEF FirstFrame
  <2> HIDE DEF u
  <2>3. Sane(u)
    BY <2>1 DEF Good, Sane, Open
  <2>4. Good(Snapshot(u, "streaming"), idle, FALSE) /\ Unclaimed(u, Snapshot(u, "streaming"))
    BY <2>1, <2>3, StreamingGood DEF Good, Tied, Waiting
  <2> QED BY <1>1, <2>1, <2>2, <2>4 DEF NativeEvent, Unclaimed
<1>2. CASE event # "first-frame" /\ (event = "stopped" => idle)
  <2>1. PICK status \in {"streaming", "error", "stopped"} :
          NativeEvent(s, event) = Snapshot(s, status) /\ (status = "stopped" => idle)
    BY <1>2 DEF NativeEvent, Events
  <2> QED BY <2>1, SnapshotGood
<1>3. CASE event = "stopped" /\ s.streamer \in Terminals
  <2>1. NativeEvent(s, event) = s
    BY <1>3 DEF NativeEvent, Snapshot, Terminals
  <2> QED BY <2>1 DEF Unclaimed
<1> QED BY <1>1, <1>2, <1>3

LEMMA StartedGood ==
  ASSUME NEW s, NEW idle \in BOOLEAN, Good(s, idle, FALSE), NEW ok \in BOOLEAN, ~ok => idle
  PROVE  Good(Started(s, ok), idle, FALSE) /\ Unclaimed(s, Started(s, ok))
<1> DEFINE p == Answered(s, "start")
<1>1. /\ Formed(p) /\ p.calls = s.calls \ {"start"} /\ p.own = s.own /\ p.session = s.session
      /\ p.polling = s.polling /\ p.pending = s.pending /\ p.tries = s.tries
      /\ p.exhausted = s.exhausted /\ p.timer = s.timer /\ p.streamer = s.streamer
      /\ p.stream = s.stream
  BY DEF Good, Answered
<1>2. Started(s, ok) = IF ~ok THEN Snapshot(p, "error")
                       ELSE IF p.pending THEN p ELSE Snapshot(p, "streaming")
  BY DEF Started
<1> HIDE DEF p
<1>3. Sane(p)
  BY <1>1 DEF Good, Sane, Open
<1>4. idle \/ p.pending => Good(p, idle, FALSE)
  BY <1>1, <1>3 DEF Good, Tied, Covered, Waiting
<1>5. CASE ~ok
  <2>1. Good(p, idle, FALSE)
    BY <1>4, <1>5
  <2>2. Good(Snapshot(p, "error"), idle, FALSE) /\ Unclaimed(p, Snapshot(p, "error"))
    BY <2>1, SnapshotGood
  <2> QED BY <1>1, <1>2, <1>5, <2>2 DEF Unclaimed
<1>6. CASE ok /\ p.pending
  BY <1>1, <1>2, <1>4, <1>6 DEF Unclaimed
<1>7. CASE ok /\ ~p.pending
  <2>1. Good(Snapshot(p, "streaming"), idle, FALSE) /\ Unclaimed(p, Snapshot(p, "streaming"))
    BY <1>1, <1>3, StreamingGood DEF Good, Tied, Waiting
  <2> QED BY <1>1, <1>2, <1>7, <2>1 DEF Unclaimed
<1> QED BY <1>5, <1>6, <1>7

\* An idle streamer asks the shell for nothing but its calls.
LEMMA IdleGood ==
  ASSUME NEW s, Formed(s), Sane(s), "prepare" \notin s.calls, ~Waiting(s),
         NEW idle \in BOOLEAN, idle, NEW rest \in BOOLEAN
  PROVE  Good(s, idle, rest)
BY DEF Good, Tied

LEMMA ReplacedGood ==
  ASSUME NEW s, Good(s, TRUE, FALSE), NEW status \in {"error", "stopped"}
  PROVE  LET t == Replaced(s, status) IN
         /\ Good(t, TRUE, FALSE)
         /\ t.calls = s.calls /\ (s.pending => t.pending) /\ t.sent = s.sent
<1> DEFINE p == Snapshot(s, status)
           t == Replaced(s, status)
<1>1. Good(p, TRUE, FALSE) /\ p.calls = s.calls /\ (s.pending => p.pending) /\ p.sent = s.sent
  <2>1. Formed(s) /\ Open(s) /\ "end" \notin s.calls
    BY DEF Good, Sane
  <2>2. p.calls = s.calls /\ p.sent = s.sent /\ (s.pending => p.pending)
    BY <2>1, SnapshotDoes
  <2>3. Good(p, TRUE, FALSE)
    BY SnapshotGood
  <2> QED BY <2>2, <2>3
<1>2. t = s \/ t = [p EXCEPT !.own = FALSE]
  BY DEF Replaced
<1> HIDE DEF p, t
<1>3. CASE t = s
  BY <1>3 DEF t
<1>4. CASE t = [p EXCEPT !.own = FALSE]
  <2>1. /\ Formed(t) /\ t.calls = p.calls /\ t.session = p.session /\ t.polling = p.polling
        /\ t.pending = p.pending /\ t.timer = p.timer /\ t.exhausted = p.exhausted
        /\ t.tries = p.tries /\ t.sent = p.sent
    BY <1>1, <1>4 DEF Good
  <2>2. Sane(t) /\ "prepare" \notin t.calls /\ ~Waiting(t)
    BY <1>1, <2>1 DEF Good, Sane, Tied, Open, Waiting
  <2>3. Good(t, TRUE, FALSE)
    BY <2>1, <2>2, IdleGood
  <2> QED BY <1>1, <2>1, <2>3 DEF t
<1> QED BY <1>2, <1>3, <1>4

LEMMA StoppedGood ==
  ASSUME NEW s, Good(s, TRUE, FALSE), "stop" \in s.calls
  PROVE  Good(Stopped(s), TRUE, FALSE) /\ Unclaimed(s, Stopped(s))
<1> DEFINE a == Answered(s, "stop")
           p == Replaced(a, "stopped")
           t == Called(Answered(p, "start"), "discover")
<1>1. /\ Formed(a) /\ a.calls = s.calls \ {"stop"} /\ a.session = s.session
      /\ a.polling = s.polling /\ a.pending = s.pending /\ a.timer = s.timer
      /\ a.exhausted = s.exhausted /\ a.tries = s.tries
  BY DEF Good, Answered
<1> HIDE DEF a
<1>2. Sane(a) /\ "prepare" \notin a.calls /\ ~Waiting(a)
      /\ "discover" \notin a.calls /\ "claim" \notin a.calls /\ "stop" \notin a.calls
  BY <1>1 DEF Good, Sane, Tied, Open, Waiting
<1>3. Good(p, TRUE, FALSE) /\ p.calls = a.calls
  BY <1>1, <1>2, IdleGood, ReplacedGood
<1> HIDE DEF p
<1>4. /\ Formed(t) /\ t.calls = (p.calls \ {"start"}) \cup {"discover"} /\ t.session = p.session
      /\ t.polling = p.polling /\ t.pending = p.pending /\ t.timer = p.timer
      /\ t.exhausted = p.exhausted /\ t.tries = p.tries
  BY <1>3 DEF Good, Answered, Called
<1> HIDE DEF t
<1>5. p.pending => Sane(t) /\ "prepare" \notin t.calls /\ ~Waiting(t)
  BY <1>2, <1>3, <1>4 DEF Good, Sane, Tied, Open, Waiting
<1>6. p.pending => Good(t, TRUE, FALSE)
  BY <1>4, <1>5, IdleGood
<1>7. Stopped(s) = IF p.pending THEN t ELSE p
  BY DEF Stopped, p, t, a
<1> QED BY <1>1, <1>3, <1>4, <1>6, <1>7 DEF Unclaimed

-----------------------------------------------------------------------------
(* The handlers that may find the streamer at rest.                         *)

LEMMA PrepareAnswered ==
  ASSUME NEW s, NEW idle \in BOOLEAN, NEW rest \in BOOLEAN,
         Good(s, idle, rest), rest => idle, "prepare" \in s.calls
  PROVE  LET p == Answered(s, "prepare")
         IN Good(p, TRUE, FALSE) /\ Unclaimed(s, p) /\ p.sent = s.sent
<1> DEFINE p == Answered(s, "prepare")
<1>1. /\ Formed(p) /\ p.calls = s.calls \ {"prepare"} /\ p.session = s.session
      /\ p.polling = s.polling /\ p.pending = s.pending /\ p.timer = s.timer
      /\ p.exhausted = s.exhausted /\ p.tries = s.tries /\ p.sent = s.sent
  BY DEF Good, Answered
<1> HIDE DEF p
<1>2. Sane(p) /\ "prepare" \notin p.calls /\ ~Waiting(p)
  BY <1>1 DEF Good, Sane, Tied, Open, Waiting
<1>3. Good(p, TRUE, FALSE)
  BY <1>1, <1>2, IdleGood
<1> QED BY <1>1, <1>3 DEF Unclaimed, p

LEMMA PrepareFailedGood ==
  ASSUME NEW s, NEW idle \in BOOLEAN, NEW rest \in BOOLEAN,
         Good(s, idle, rest), rest => idle, "prepare" \in s.calls
  PROVE  LET t == PrepareFailed(s)
         IN Good(t, TRUE, FALSE) /\ Unclaimed(s, t) /\ t.sent = s.sent
<1> DEFINE p == Answered(s, "prepare")
           t == Replaced(p, "error")
<1>1. Good(p, TRUE, FALSE) /\ Unclaimed(s, p) /\ p.sent = s.sent
  BY PrepareAnswered
<1> HIDE DEF p
<1>2. Good(t, TRUE, FALSE) /\ t.calls = p.calls /\ t.sent = p.sent
  BY <1>1, ReplacedGood
<1>3. PrepareFailed(s) = t
  BY DEF PrepareFailed, p
<1> HIDE DEF t
<1> QED BY <1>1, <1>2, <1>3 DEF Unclaimed

\* A start is sent for a session that the shell calls its own.
LEMMA PreparedGood ==
  ASSUME NEW s, NEW idle \in BOOLEAN, NEW rest \in BOOLEAN,
         Good(s, idle, rest), rest => idle, "prepare" \in s.calls,
         s.sent = <<>>
  PROVE  /\ Good(Prepared(s, TRUE), FALSE, FALSE) /\ Unclaimed(s, Prepared(s, TRUE))
         /\ Prepared(s, TRUE).sent = <<"start">>
         /\ Good(Prepared(s, FALSE), TRUE, FALSE) /\ Unclaimed(s, Prepared(s, FALSE))
         /\ Prepared(s, FALSE).sent = <<>>
<1> DEFINE p == Answered(s, "prepare")
           q == Snapshot(p, p.streamer)
           t == Prepared(s, TRUE)
           u == Prepared(s, FALSE)
<1> SUFFICES /\ Good(t, FALSE, FALSE) /\ Unclaimed(s, t) /\ t.sent = <<"start">>
             /\ Good(u, TRUE, FALSE) /\ Unclaimed(s, u) /\ u.sent = <<>>
  OBVIOUS
<1>1. /\ Formed(p) /\ p.calls = s.calls \ {"prepare"} /\ p.session = s.session
      /\ p.own = s.own /\ p.streamer = s.streamer /\ p.sent = <<>>
  BY DEF Good, Answered
<1>2. /\ rest /\ s.own /\ s.streamer \notin {"null", "stopped"}
      /\ "discover" \notin s.calls /\ "claim" \notin s.calls
  BY DEF Good, Sane, Tied
<1>3. Good(p, TRUE, FALSE)
  BY PrepareAnswered
<1> HIDE DEF p
<1>4. Good(q, TRUE, FALSE) /\ Unclaimed(p, q)
  BY <1>3, SnapshotGood
<1>5. /\ Formed(q) /\ q.calls = p.calls /\ q.own = p.own /\ q.streamer = p.streamer
      /\ q.sent = p.sent
  BY <1>3, SnapshotDoes DEF Good, Sane
<1>6. Open(p)
  BY <1>3 DEF Good, Sane
<1>7. t = [Called(q, "start") EXCEPT !.sent = Append(@, "start")]
  BY <1>6 DEF Prepared, Send, p, q
<1>8. u = Snapshot(q, "error")
  BY <1>6 DEF Prepared, Send, p, q
<1>9. Append(q.sent, "start") = <<"start">>
  BY <1>1, <1>5, FirstSent DEF Commands
<1> HIDE DEF q, t, u
<1>10. /\ Formed(t) /\ t.calls = q.calls \cup {"start"} /\ t.sent = <<"start">>
       /\ t.own = q.own /\ t.streamer = q.streamer /\ t.session = q.session
       /\ t.polling = q.polling /\ t.pending = q.pending /\ t.timer = q.timer
       /\ t.exhausted = q.exhausted /\ t.tries = q.tries
  BY <1>5, <1>7, <1>9 DEF Called
<1>11. Sane(t)
  BY <1>4, <1>10 DEF Good, Sane, Open
<1>12. Tied(t, FALSE, FALSE)
  BY <1>1, <1>2, <1>4, <1>5, <1>10 DEF Good, Tied, Covered, Waiting
<1>13. Good(u, TRUE, FALSE) /\ Unclaimed(q, u)
  BY <1>4, <1>8, SnapshotGood
<1>14. u.sent = q.sent
  BY <1>4, <1>8, SnapshotDoes DEF Good, Sane
<1> QED BY <1>1, <1>2, <1>5, <1>10, <1>11, <1>12, <1>13, <1>14 DEF Good, Unclaimed

LEMMA PollFailedDoes ==
  ASSUME NEW s, Formed(s), s.tries \in Nat
  PROVE  LET t == PollFailed(s) IN
         /\ Formed(t) /\ t.calls = s.calls \ {"poll"}
         /\ t.session = s.session /\ t.streamer = s.streamer /\ t.own = s.own
         /\ t.pending = s.pending /\ t.timer = s.timer /\ t.exhausted = s.exhausted
         /\ t.sent = s.sent /\ t.tries \in Nat /\ t.tries >= s.tries
         /\ s.session = "resuming" => t.stream = s.stream
<1> DEFINE p == Answered(s, "poll")
           tries == OneMore(p.tries)
           t == PollFailed(s)
<1>1. /\ Formed(p) /\ p.calls = s.calls \ {"poll"} /\ p.session = s.session
      /\ p.streamer = s.streamer /\ p.own = s.own /\ p.pending = s.pending
      /\ p.timer = s.timer /\ p.exhausted = s.exhausted /\ p.sent = s.sent
      /\ p.tries = s.tries /\ p.stream = s.stream
  BY DEF Answered
<1>2. tries \in Nat /\ tries >= s.tries
  BY <1>1 DEF OneMore
<1>3. t = IF p.session = "resuming" THEN [p EXCEPT !.polling = TRUE]
          ELSE IF Open(p) /\ tries <= MaxReconnects
               THEN [p EXCEPT !.tries = tries, !.stream = "reconnecting", !.polling = TRUE]
          ELSE [p EXCEPT !.tries = tries, !.stream = "error"]
  BY DEF PollFailed
<1> HIDE DEF p, tries, t
<1> QED BY <1>1, <1>2, <1>3 DEF t

LEMMA CancelPrepareDoes ==
  ASSUME NEW s, Formed(s), Open(s), "end" \notin s.calls, s.pending
  PROVE  LET t == CancelPrepare(s) IN
         /\ Formed(t) /\ t.calls = s.calls \ {"prepare"}
         /\ t.session = s.session /\ t.polling = s.polling /\ t.pending /\ t.timer = s.timer
         /\ t.exhausted = s.exhausted /\ t.tries = s.tries /\ t.sent = s.sent
         /\ t.streamer \in {s.streamer, "error"}
         /\ "prepare" \notin s.calls => t = s
<1> DEFINE a == Answered(s, "prepare")
           p == Snapshot(a, "error")
           t == CancelPrepare(s)
<1>1. /\ Formed(a) /\ a.calls = s.calls \ {"prepare"} /\ a.session = s.session
      /\ a.polling = s.polling /\ a.pending /\ a.timer = s.timer
      /\ a.exhausted = s.exhausted /\ a.tries = s.tries /\ a.sent = s.sent
      /\ a.streamer = s.streamer
  BY DEF Answered
<1>2. t = IF "prepare" \in s.calls
          THEN IF a.streamer \in Terminals THEN a ELSE [p EXCEPT !.own = FALSE]
          ELSE s
  BY DEF CancelPrepare, PrepareFailed, Replaced
<1>3. Open(a) /\ "end" \notin a.calls
  BY <1>1 DEF Open
<1> HIDE DEF a
<1>4. /\ Formed(p) /\ p.calls = a.calls /\ p.session = a.session
      /\ p.polling = a.polling /\ p.pending /\ p.timer = a.timer
      /\ p.exhausted = a.exhausted /\ p.tries = a.tries /\ p.sent = a.sent
      /\ p.streamer \in {a.streamer, "error"}
  BY <1>1, <1>3, SnapshotDoes
<1> HIDE DEF p, t
<1>5. CASE "prepare" \notin s.calls
  <2>1. t = s /\ s.calls = s.calls \ {"prepare"}
    BY <1>2, <1>5
  <2> QED BY <2>1 DEF t
<1>6. CASE "prepare" \in s.calls
  <2>1. t = a \/ t = [p EXCEPT !.own = FALSE]
    BY <1>2, <1>6
  <2> QED BY <1>1, <1>4, <1>6, <2>1 DEF t
<1> QED BY <1>5, <1>6

LEMMA StopStreamerDoes ==
  ASSUME NEW s, Formed(s), s.sent = <<>>, NEW accepted \in BOOLEAN
  PROVE  LET t == StopStreamer(s, accepted) IN
         /\ Formed(t) /\ ~t.timer
         /\ t.session = s.session /\ t.streamer = s.streamer /\ t.own = s.own
         /\ t.pending = s.pending /\ t.polling = s.polling /\ t.tries = s.tries
         /\ t.exhausted = s.exhausted
         /\ \/ t.calls = s.calls /\ t.sent = <<>>
            \/ t.calls = s.calls \cup {"stop"} /\ t.sent = <<"stop">>
<1> DEFINE p == [s EXCEPT !.timer = FALSE]
           c == Called(p, "stop")
           t == StopStreamer(s, accepted)
<1>1. /\ Formed(p) /\ ~p.timer /\ p.sent = <<>> /\ p.calls = s.calls
      /\ p.session = s.session /\ p.streamer = s.streamer /\ p.own = s.own
      /\ p.pending = s.pending /\ p.polling = s.polling /\ p.tries = s.tries
      /\ p.exhausted = s.exhausted
  OBVIOUS
<1>2. \/ t = p
      \/ t = [p EXCEPT !.expected = FALSE]
      \/ t = [[c EXCEPT !.sent = Append(@, "stop")] EXCEPT !.expected = TRUE]
  <2> HIDE DEF p
  <2> QED BY DEF StopStreamer, Send, p
<1> HIDE DEF p
<1>3. Append(p.sent, "stop") = <<"stop">>
  BY <1>1, FirstSent DEF Commands
<1> HIDE DEF t
<1>4. CASE t = p \/ t = [p EXCEPT !.expected = FALSE]
  BY <1>1, <1>4 DEF t
<1>5. CASE t = [[c EXCEPT !.sent = Append(@, "stop")] EXCEPT !.expected = TRUE]
  <2>1. /\ Formed(c) /\ c.calls = p.calls \cup {"stop"} /\ ~c.timer /\ c.sent = p.sent
        /\ c.session = p.session /\ c.streamer = p.streamer /\ c.own = p.own
        /\ c.pending = p.pending /\ c.polling = p.polling /\ c.tries = p.tries
        /\ c.exhausted = p.exhausted
    BY <1>1 DEF Called
  <2> HIDE DEF c
  <2> QED BY <1>1, <1>3, <1>5, <2>1 DEF t
<1> QED BY <1>2, <1>4, <1>5

\* What a recovery may be begun on: a session that is not waited for, whether
\* or not anything keeps another start away from it.
Ready(s, idle, rest) ==
  /\ Formed(s) /\ Sane(s) /\ ~Waiting(s) /\ s.sent = <<>>
  /\ s.streamer \in {"null", "stopped"} \/ "discover" \in s.calls \/ "claim" \in s.calls => idle
  /\ "prepare" \in s.calls => rest /\ s.own /\ s.streamer \notin {"null", "stopped"}
  /\ ~idle => s.own
  /\ s.tries >= MaxReconnects => ~s.pending

\* A recovery that is begun has cancelled what it replaces.
Begun(s) ==
  CancelPoll(CancelPrepare([s EXCEPT !.tries = OneMore(@), !.timer = FALSE, !.pending = TRUE,
                                     !.stream = "reconnecting", !.polling = FALSE]))

LEMMA BegunClears ==
  ASSUME NEW s, NEW idle \in BOOLEAN, NEW rest \in BOOLEAN, Ready(s, idle, rest), rest => idle,
         ~(s.tries >= MaxReconnects), s.calls \cap {"claim", "discover", "stop"} = {}
  PROVE  LET q == Begun(s)
         IN /\ Formed(q) /\ Sane(q) /\ ~Waiting(q) /\ q.sent = <<>>
            /\ q.pending /\ "prepare" \notin q.calls
            /\ q.calls \subseteq s.calls /\ q.streamer \in {s.streamer, "error"}
            /\ q.streamer \in {"null", "stopped"} => idle
            /\ ~idle => q.own
<1> DEFINE p == [s EXCEPT !.tries = OneMore(@), !.timer = FALSE, !.pending = TRUE,
                          !.stream = "reconnecting", !.polling = FALSE]
           c == CancelPrepare(p)
           q == Begun(s)
<1> SUFFICES /\ Formed(q) /\ Sane(q) /\ ~Waiting(q) /\ q.sent = <<>>
             /\ q.pending /\ "prepare" \notin q.calls
             /\ q.calls \subseteq s.calls /\ q.streamer \in {s.streamer, "error"}
             /\ q.streamer \in {"null", "stopped"} => idle
             /\ ~idle => q.own
  OBVIOUS
<1>1. /\ Formed(p) /\ p.calls = s.calls /\ p.session = s.session /\ p.sent = <<>>
      /\ p.pending /\ ~p.timer /\ ~p.polling /\ p.exhausted = s.exhausted
      /\ p.tries = OneMore(s.tries) /\ p.streamer = s.streamer /\ p.own = s.own
  BY DEF Ready
<1>2. Open(p) /\ "end" \notin p.calls /\ s.tries \in Nat /\ ~s.exhausted
  BY <1>1 DEF Ready, Sane, Open
<1>3. p.tries \in Nat
  BY <1>1, <1>2 DEF OneMore
<1>4. IF "poll" \in c.calls THEN q = PollFailed(c) ELSE q = c
  BY DEF Begun, CancelPoll
<1> HIDE DEF p, q
<1>5. /\ Formed(c) /\ c.calls = p.calls \ {"prepare"}
      /\ c.session = p.session /\ c.polling = p.polling /\ c.pending /\ c.timer = p.timer
      /\ c.exhausted = p.exhausted /\ c.tries = p.tries /\ c.sent = p.sent
      /\ c.streamer \in {p.streamer, "error"}
      /\ "prepare" \notin p.calls => c = p
  BY <1>1, <1>2, CancelPrepareDoes
<1> HIDE DEF c
<1>6. /\ Formed(q) /\ q.calls = c.calls \ {"poll"}
      /\ q.session = c.session /\ q.streamer = c.streamer /\ q.own = c.own
      /\ q.pending = c.pending /\ q.timer = c.timer /\ q.exhausted = c.exhausted
      /\ q.sent = c.sent /\ q.tries \in Nat
      /\ "poll" \notin c.calls => q = c
  <2>1. CASE "poll" \in c.calls
    <3>1. q = PollFailed(c) /\ c.tries \in Nat
      BY <1>3, <1>4, <1>5, <2>1
    <3> QED BY <1>5, <2>1, <3>1, PollFailedDoes
  <2>2. CASE "poll" \notin c.calls
    <3>1. q = c /\ c.calls = c.calls \ {"poll"}
      BY <1>4, <2>2
    <3> QED BY <1>3, <1>5, <3>1
  <2> QED BY <2>1, <2>2
<1>7. Sane(q)
  <2>1. \A x \in {"stop", "discover", "claim"} : x \notin q.calls
    BY <1>1, <1>5, <1>6
  <2>2. Open(q) /\ "end" \notin q.calls /\ ~q.timer /\ ~q.exhausted /\ "prepare" \notin q.calls
    BY <1>1, <1>2, <1>5, <1>6 DEF Open
  <2> QED BY <1>5, <1>6, <2>1, <2>2 DEF Sane
<1>8. ~Waiting(q)
  BY <1>1, <1>5, <1>6 DEF Ready, Waiting
<1>9. ~idle => q.own
  BY <1>1, <1>5, <1>6 DEF Ready
<1>10. q.streamer \in {"null", "stopped"} => idle
  BY <1>1, <1>5, <1>6 DEF Ready
<1> QED BY <1>1, <1>5, <1>6, <1>7, <1>8, <1>9, <1>10

LEMMA RecoverGood ==
  ASSUME NEW s, NEW idle \in BOOLEAN, NEW rest \in BOOLEAN, Ready(s, idle, rest), rest => idle,
         NEW accepted \in BOOLEAN
  PROVE  LET t == Recover(s, accepted) IN
         /\ Good(t, idle, rest) /\ Unclaimed(s, t) /\ t.streamer \in {s.streamer, "error"}
         /\ t.sent = <<>> \/ (t.sent = <<"stop">> /\ Good(t, idle, FALSE))
<1> DEFINE t == Recover(s, accepted)
           q == Begun(s)
           r == StopStreamer(q, accepted)
           busy == s.calls \cap {"claim", "discover", "stop"} # {}
           spent == s.tries >= MaxReconnects
<1> SUFFICES /\ Good(t, idle, rest) /\ Unclaimed(s, t) /\ t.streamer \in {s.streamer, "error"}
             /\ t.sent = <<>> \/ (t.sent = <<"stop">> /\ Good(t, idle, FALSE))
  OBVIOUS
<1>1. Open(s) /\ s.tries \in Nat /\ Formed(s)
  BY DEF Ready, Sane
<1>2. t = IF ~Open(s) \/ busy THEN s
          ELSE IF spent THEN Exhaust(s)
          ELSE IF q.streamer \in {"null", "stopped"} THEN Called(q, "discover")
          ELSE IF "stop" \in r.calls THEN r ELSE ScheduleRecovery(r)
  BY DEF Recover, Begun
<1>3. ~busy /\ ~spent =>
            /\ Formed(q) /\ Sane(q) /\ ~Waiting(q) /\ q.sent = <<>>
            /\ q.pending /\ "prepare" \notin q.calls
            /\ q.calls \subseteq s.calls /\ q.streamer \in {s.streamer, "error"}
            /\ q.streamer \in {"null", "stopped"} => idle
            /\ ~idle => q.own
  BY BegunClears
<1> HIDE DEF t, q
<1>4. CASE busy
  <2>1. t = s
    BY <1>2, <1>4
  <2>2. Tied(s, idle, rest)
    <3>1. ~idle => Covered(s)
      BY <1>4 DEF Ready, Sane, Covered
    <3> QED BY <3>1 DEF Ready, Tied
  <2> QED BY <2>1, <2>2 DEF Ready, Good, Unclaimed
<1>5. CASE ~busy /\ spent
  <2>1. t = Exhaust(s)
    BY <1>1, <1>2, <1>5
  <2>2. /\ Formed(t) /\ t.exhausted /\ ~t.timer /\ t.calls = s.calls /\ t.session = s.session
        /\ t.streamer = s.streamer /\ t.own = s.own /\ t.pending = s.pending
        /\ t.polling = s.polling /\ t.tries = s.tries /\ t.sent = s.sent
    BY <1>1, <2>1 DEF Exhaust
  <2>3. ~s.pending
    BY <1>5 DEF Ready
  <2>4. Sane(t)
    BY <1>5, <2>2, <2>3 DEF Ready, Sane, Open
  <2> QED BY <1>5, <2>2, <2>3, <2>4 DEF Ready, Good, Tied, Covered, Waiting, Unclaimed
<1>6. CASE ~busy /\ ~spent /\ q.streamer \in {"null", "stopped"}
  <2>1. t = Called(q, "discover")
    BY <1>1, <1>2, <1>6
  <2>2. /\ Formed(t) /\ t.calls = q.calls \cup {"discover"} /\ t.session = q.session
        /\ t.polling = q.polling /\ t.pending = q.pending /\ t.timer = q.timer
        /\ t.exhausted = q.exhausted /\ t.tries = q.tries /\ t.sent = q.sent
        /\ t.streamer = q.streamer
    BY <1>3, <1>6, <2>1 DEF Called
  <2>3. Sane(t) /\ "prepare" \notin t.calls /\ ~Waiting(t)
    BY <1>3, <1>6, <2>2 DEF Sane, Open, Waiting
  <2>4. Good(t, idle, rest)
    BY <1>3, <1>6, <2>2, <2>3, IdleGood
  <2> QED BY <1>3, <1>6, <2>2, <2>4 DEF Unclaimed
<1>7. CASE ~busy /\ ~spent /\ q.streamer \notin {"null", "stopped"}
  <2>1. t = IF "stop" \in r.calls THEN r ELSE ScheduleRecovery(r)
    BY <1>1, <1>2, <1>7
  <2>2. /\ Formed(r) /\ ~r.timer
        /\ r.session = q.session /\ r.streamer = q.streamer /\ r.own = q.own
        /\ r.pending = q.pending /\ r.polling = q.polling /\ r.tries = q.tries
        /\ r.exhausted = q.exhausted
        /\ \/ r.calls = q.calls /\ r.sent = <<>>
           \/ r.calls = q.calls \cup {"stop"} /\ r.sent = <<"stop">>
    BY <1>3, <1>7, StopStreamerDoes
  <2> HIDE DEF r
  <2>3. Sane(r) /\ ~Waiting(r) /\ "prepare" \notin r.calls
    BY <1>3, <1>7, <2>2 DEF Sane, Waiting, Open
  <2>4. /\ Good(r, idle, rest) /\ Good(r, idle, FALSE)
        /\ "discover" \notin r.calls /\ "claim" \notin r.calls
    BY <1>3, <1>7, <2>2, <2>3 DEF Good, Tied, Covered
  <2>5. CASE "stop" \in r.calls
    BY <1>3, <1>7, <2>1, <2>2, <2>4, <2>5 DEF Unclaimed
  <2>6. CASE "stop" \notin r.calls
    <3>1. Rescheduled(r, t)
      BY <2>1, <2>2, <2>3, <2>6, ScheduleRecoveryDoes DEF Sane
    <3>2. Good(t, idle, rest) /\ Unclaimed(r, t)
      BY <2>3, <2>4, <3>1, RescheduledGood
    <3>3. t.sent = <<>> /\ t.streamer = q.streamer
      BY <2>2, <2>6, <3>1 DEF Rescheduled
    <3> QED BY <1>3, <1>7, <2>4, <3>2, <3>3 DEF Unclaimed
  <2> QED BY <2>5, <2>6
<1> QED BY <1>4, <1>5, <1>6, <1>7

LEMMA RestartGood ==
  ASSUME NEW s, NEW idle \in BOOLEAN, NEW rest \in BOOLEAN,
         Good(s, idle, rest), rest => idle, s.timer, s.sent = <<>>, NEW accepted \in BOOLEAN
  PROVE  LET t == Recover([s EXCEPT !.timer = FALSE], accepted) IN
         /\ Good(t, idle, rest) /\ Unclaimed(s, t) /\ Steady(s, t)
         /\ t.sent = <<>> \/ (t.sent = <<"stop">> /\ Good(t, idle, FALSE))
<1> DEFINE p == [s EXCEPT !.timer = FALSE]
           t == Recover(p, accepted)
<1> SUFFICES /\ Good(t, idle, rest) /\ Unclaimed(s, t) /\ Steady(s, t)
             /\ t.sent = <<>> \/ (t.sent = <<"stop">> /\ Good(t, idle, FALSE))
  OBVIOUS
<1>1. /\ Formed(p) /\ ~p.timer /\ p.calls = s.calls /\ p.session = s.session
      /\ p.streamer = s.streamer /\ p.own = s.own /\ p.pending = s.pending
      /\ p.polling = s.polling /\ p.tries = s.tries /\ p.exhausted = s.exhausted
      /\ p.sent = s.sent
  BY DEF Good
<1> HIDE DEF p
<1>2. Sane(p) /\ ~Waiting(p)
  BY <1>1 DEF Good, Sane, Tied, Open, Waiting
<1>3. Ready(p, idle, rest)
  BY <1>1, <1>2 DEF Good, Sane, Tied, Ready
<1>4. /\ Good(t, idle, rest) /\ Unclaimed(p, t) /\ t.streamer \in {p.streamer, "error"}
      /\ t.sent = <<>> \/ (t.sent = <<"stop">> /\ Good(t, idle, FALSE))
  BY <1>3, RecoverGood
<1> QED BY <1>1, <1>4 DEF Unclaimed, Steady, Terminals

LEMMA RetryGood ==
  ASSUME NEW s, NEW idle \in BOOLEAN, NEW rest \in BOOLEAN,
         Good(s, idle, rest), rest => idle, s.stream = "error", s.sent = <<>>,
         NEW accepted \in BOOLEAN
  PROVE  LET t == Retry(s, accepted) IN
         /\ Good(t, idle, rest) /\ Unclaimed(s, t) /\ Steady(s, t)
         /\ t.sent = <<>> \/ (t.sent = <<"stop">> /\ Good(t, idle, FALSE))
<1> DEFINE p == [s EXCEPT !.timer = FALSE, !.tries = 0, !.exhausted = FALSE]
           t == Retry(s, accepted)
<1> SUFFICES /\ Good(t, idle, rest) /\ Unclaimed(s, t) /\ Steady(s, t)
             /\ t.sent = <<>> \/ (t.sent = <<"stop">> /\ Good(t, idle, FALSE))
  OBVIOUS
<1>1. /\ Formed(p) /\ ~p.timer /\ p.calls = s.calls /\ p.session = s.session
      /\ p.streamer = s.streamer /\ p.own = s.own /\ p.pending = s.pending
      /\ p.polling = s.polling /\ p.tries = 0 /\ ~p.exhausted /\ p.sent = s.sent
  BY DEF Good
<1>2. t = Recover(p, accepted)
  BY DEF Retry
<1> HIDE DEF p, t
<1>3. Sane(p) /\ ~Waiting(p)
  BY <1>1 DEF Good, Sane, Tied, Open, Waiting
<1>4. ~(p.tries >= MaxReconnects)
  BY <1>1, ReconnectAssumption
<1>5. Ready(p, idle, rest)
  BY <1>1, <1>3, <1>4 DEF Good, Tied, Ready
<1>6. /\ Good(t, idle, rest) /\ Unclaimed(p, t) /\ t.streamer \in {p.streamer, "error"}
      /\ t.sent = <<>> \/ (t.sent = <<"stop">> /\ Good(t, idle, FALSE))
  BY <1>2, <1>5, RecoverGood
<1> QED BY <1>1, <1>6 DEF Unclaimed, Steady, Terminals

LEMMA StopOverdueGood ==
  ASSUME NEW s, NEW idle \in BOOLEAN, NEW rest \in BOOLEAN,
         Good(s, idle, rest), s.pending, "stop" \in s.calls
  PROVE  Good(StopOverdue(s), idle, rest) /\ Unclaimed(s, StopOverdue(s))
<1> DEFINE t == StopOverdue(s)
<1>1. /\ Formed(t) /\ t.calls = s.calls /\ t.session = s.session /\ t.streamer = s.streamer
      /\ t.own = s.own /\ ~t.pending /\ t.timer = s.timer /\ t.polling = s.polling
      /\ t.tries = s.tries /\ t.exhausted = s.exhausted
  BY DEF Good, StopOverdue
<1> HIDE DEF t
<1>2. Sane(t) /\ ~Waiting(t) /\ Covered(t)
  BY <1>1 DEF Good, Sane, Tied, Open, Waiting, Covered
<1> QED BY <1>1, <1>2 DEF Good, Tied, Unclaimed, t

LEMMA PollsGood ==
  ASSUME NEW s, NEW idle \in BOOLEAN, NEW rest \in BOOLEAN, Good(s, idle, rest), s.polling
  PROVE  LET t == Called(s, "poll") IN
         Good(t, idle, rest) /\ Unclaimed(s, t) /\ Steady(s, t) /\ t.sent = s.sent
<1> DEFINE t == Called(s, "poll")
<1>1. /\ Formed(t) /\ t.calls = s.calls \cup {"poll"} /\ t.session = s.session
      /\ t.streamer = s.streamer /\ t.stream = s.stream
      /\ t.own = s.own /\ t.pending = s.pending /\ t.timer = s.timer /\ t.polling = s.polling
      /\ t.tries = s.tries /\ t.exhausted = s.exhausted /\ t.sent = s.sent
  BY DEF Good, Called
<1> HIDE DEF t
<1>2. Sane(t) /\ (Waiting(t) => Waiting(s)) /\ (Covered(s) => Covered(t))
  BY <1>1 DEF Good, Sane, Open, Waiting, Covered
<1> QED BY <1>1, <1>2 DEF Good, Tied, Unclaimed, Steady, t

\* A recovery that is scheduled once a call is answered, or a deadline is over.
LEMMA AnsweredGood ==
  ASSUME NEW s, NEW idle \in BOOLEAN, NEW rest \in BOOLEAN, Good(s, idle, rest),
         NEW call \in {"discover", "claim"}, call \in s.calls
  PROVE  LET p == Answered(s, call)
             t == ScheduleRecovery(p)
         IN /\ Good(p, idle, rest) /\ p.pending /\ p.sent = s.sent /\ p.calls = s.calls \ {call}
            /\ Good(t, idle, rest) /\ Unclaimed(s, t) /\ t.sent = s.sent
<1> DEFINE p == Answered(s, call)
           t == ScheduleRecovery(p)
<1> SUFFICES /\ Good(p, idle, rest) /\ p.pending /\ p.sent = s.sent /\ p.calls = s.calls \ {call}
             /\ Good(t, idle, rest) /\ Unclaimed(s, t) /\ t.sent = s.sent
  OBVIOUS
<1>1. /\ Formed(p) /\ p.calls = s.calls \ {call} /\ p.session = s.session
      /\ p.streamer = s.streamer /\ p.stream = s.stream
      /\ p.own = s.own /\ p.pending = s.pending /\ p.timer = s.timer /\ p.polling = s.polling
      /\ p.tries = s.tries /\ p.exhausted = s.exhausted /\ p.sent = s.sent
  BY DEF Good, Answered
<1> HIDE DEF p
<1>2. s.pending /\ "discover" \notin p.calls /\ "claim" \notin p.calls
  BY <1>1 DEF Good, Sane
<1>3. Sane(p) /\ ~Waiting(p)
  BY <1>1, <1>2 DEF Good, Sane, Tied, Open, Waiting
<1>4. Good(p, idle, rest)
  BY <1>1, <1>2, <1>3 DEF Good, Tied, Covered
<1>5. Rescheduled(p, t)
  BY <1>1, <1>3, ScheduleRecoveryDoes DEF Sane
<1>6. Good(t, idle, rest) /\ Unclaimed(p, t)
  BY <1>2, <1>3, <1>4, <1>5, RescheduledGood
<1> QED BY <1>1, <1>2, <1>4, <1>5, <1>6 DEF Rescheduled, Unclaimed

LEMMA DeadlineGood ==
  ASSUME NEW s, NEW idle \in BOOLEAN, NEW rest \in BOOLEAN, Good(s, idle, rest),
         s.session = "resuming", s.polling, "poll" \notin s.calls
  PROVE  LET t == ScheduleRecovery([s EXCEPT !.polling = FALSE])
         IN Good(t, idle, rest) /\ Unclaimed(s, t) /\ Steady(s, t) /\ t.sent = s.sent
<1> DEFINE p == [s EXCEPT !.polling = FALSE]
           t == ScheduleRecovery(p)
<1> SUFFICES Good(t, idle, rest) /\ Unclaimed(s, t) /\ Steady(s, t) /\ t.sent = s.sent
  OBVIOUS
<1>1. /\ Formed(p) /\ p.calls = s.calls /\ p.session = s.session
      /\ p.streamer = s.streamer /\ p.stream = s.stream
      /\ p.own = s.own /\ p.pending = s.pending /\ p.timer = s.timer /\ ~p.polling
      /\ p.tries = s.tries /\ p.exhausted = s.exhausted /\ p.sent = s.sent
  BY DEF Good
<1> HIDE DEF p
<1>2. ~s.pending /\ "discover" \notin p.calls /\ "claim" \notin p.calls
  BY <1>1 DEF Good, Sane, Tied, Waiting
<1>3. Sane(p) /\ ~Waiting(p) /\ (Covered(s) => Covered(p))
  BY <1>1 DEF Good, Sane, Open, Waiting, Covered
<1>4. Good(p, idle, rest)
  BY <1>1, <1>3 DEF Good, Tied
<1>5. Rescheduled(p, t)
  BY <1>1, <1>3, ScheduleRecoveryDoes DEF Sane
<1>6. Good(t, idle, rest) /\ Unclaimed(p, t)
  BY <1>2, <1>3, <1>4, <1>5, RescheduledGood
<1> QED BY <1>1, <1>5, <1>6 DEF Rescheduled, Unclaimed, Steady

\* The discovery asks for a claim, and nothing else does.
LEMMA DiscoveredGood ==
  ASSUME NEW s, NEW idle \in BOOLEAN, NEW rest \in BOOLEAN, Good(s, idle, rest),
         "discover" \in s.calls, NEW found \in BOOLEAN
  PROVE  Good(Discovered(s, found), idle, rest) /\ Discovered(s, found).sent = s.sent
<1> DEFINE p == Answered(s, "discover")
           c == Called(p, "claim")
           r == ScheduleRecovery(p)
           t == Discovered(s, found)
<1>1. /\ Good(p, idle, rest) /\ p.pending /\ p.sent = s.sent /\ p.calls = s.calls \ {"discover"}
      /\ Good(r, idle, rest) /\ r.sent = s.sent
  BY AnsweredGood
<1>2. t = IF ~p.pending \/ ~Open(p) THEN p ELSE IF found THEN c ELSE r
  BY DEF Discovered
<1> HIDE DEF p, r, t
<1>3. /\ Formed(c) /\ c.calls = p.calls \cup {"claim"} /\ c.session = p.session
      /\ c.streamer = p.streamer /\ c.stream = p.stream
      /\ c.own = p.own /\ c.pending = p.pending /\ c.timer = p.timer /\ c.polling = p.polling
      /\ c.tries = p.tries /\ c.exhausted = p.exhausted /\ c.sent = p.sent
  BY <1>1 DEF Good, Called
<1> HIDE DEF c
<1>4. idle /\ "stop" \notin p.calls /\ "discover" \notin p.calls
  BY <1>1 DEF Good, Sane, Tied
<1>5. Sane(c) /\ ~Waiting(c)
  BY <1>1, <1>3, <1>4 DEF Good, Sane, Tied, Open, Waiting
<1>6. Good(c, idle, rest)
  BY <1>1, <1>3, <1>4, <1>5 DEF Good, Tied
<1> QED BY <1>1, <1>2, <1>3, <1>6 DEF t

LEMMA PollFailedGood ==
  ASSUME NEW s, NEW idle \in BOOLEAN, NEW rest \in BOOLEAN, Good(s, idle, rest),
         "poll" \in s.calls
  PROVE  LET t == PollFailed(s)
         IN Good(t, idle, rest) /\ Unclaimed(s, t) /\ Steady(s, t) /\ t.sent = s.sent
<1> DEFINE t == PollFailed(s)
<1>1. /\ Formed(t) /\ t.calls = s.calls \ {"poll"}
      /\ t.session = s.session /\ t.streamer = s.streamer /\ t.own = s.own
      /\ t.pending = s.pending /\ t.timer = s.timer /\ t.exhausted = s.exhausted
      /\ t.sent = s.sent /\ t.tries \in Nat /\ t.tries >= s.tries
      /\ s.session = "resuming" => t.stream = s.stream
  BY PollFailedDoes DEF Good, Sane
<1> HIDE DEF t
<1>2. t.exhausted => t.tries >= MaxReconnects
  BY <1>1, ReconnectAssumption DEF Good, Sane
<1>3. Sane(t) /\ (Waiting(t) => Waiting(s)) /\ (Covered(s) => Covered(t))
  BY <1>1, <1>2 DEF Good, Sane, Open, Waiting, Covered
<1> QED BY <1>1, <1>3 DEF Good, Tied, Unclaimed, Steady, Waiting, t

\* startNativeStreamer is refused, or finds the streamer at rest.
LEMMA StartGood ==
  ASSUME NEW s, NEW idle \in BOOLEAN, NEW rest \in BOOLEAN, Good(s, idle, rest),
         idle /\ "stop" \notin s.calls => rest
  PROVE  LET t == StartStreamer(s)
         IN Good(t, idle, rest) /\ Unclaimed(s, t) /\ Steady(s, t) /\ t.sent = s.sent
<1> DEFINE c == [Called(s, "prepare") EXCEPT !.streamer = "starting", !.own = TRUE,
                                             !.expected = FALSE]
           t == StartStreamer(s)
<1> SUFFICES Good(t, idle, rest) /\ Unclaimed(s, t) /\ Steady(s, t) /\ t.sent = s.sent
  OBVIOUS
<1>1. /\ Formed(c) /\ c.calls = s.calls \cup {"prepare"} /\ c.session = s.session
      /\ c.streamer = "starting" /\ c.own = TRUE /\ c.pending = s.pending
      /\ c.timer = s.timer /\ c.polling = s.polling
      /\ c.tries = s.tries /\ c.exhausted = s.exhausted /\ c.sent = s.sent
  BY DEF Good, Called
<1>2. \/ t = s
      \/ /\ t = c
         /\ ~s.pending /\ s.session # "resuming" /\ ~s.timer /\ ~s.exhausted
         /\ s.calls \cap {"stop", "start", "prepare", "claim"} = {}
         /\ ~(s.own /\ s.streamer = "streaming")
  <2> HIDE DEF c
  <2> QED BY DEF StartStreamer, c
<1> HIDE DEF c, t
<1>3. CASE t = s
  BY <1>3 DEF Good, Unclaimed, Steady
<1>4. CASE /\ t = c
           /\ ~s.pending /\ s.session # "resuming" /\ ~s.timer /\ ~s.exhausted
           /\ s.calls \cap {"stop", "start", "prepare", "claim"} = {}
           /\ ~(s.own /\ s.streamer = "streaming")
  <2>1. idle /\ rest
    BY <1>4 DEF Good, Tied, Covered
  <2>2. Sane(c) /\ ~Waiting(c)
    BY <1>1, <1>4 DEF Good, Sane, Open, Waiting
  <2>3. Tied(c, idle, rest)
    BY <1>1, <2>1, <2>2 DEF Tied
  <2> QED BY <1>1, <1>4, <2>2, <2>3 DEF Good, Unclaimed, Steady
<1> QED BY <1>2, <1>3, <1>4

\* What an answer of the core that names the session is accepted on: a session
\* waited for is named again only to a streamer at rest.
Accepting(s, answer, idle, rest) ==
  /\ Formed(s) /\ Sane(s)
  /\ s.streamer \in {"null", "stopped"} \/ "discover" \in s.calls \/ "claim" \in s.calls => idle
  /\ "prepare" \in s.calls => rest /\ s.own /\ s.streamer \notin {"null", "stopped"}
  /\ ~idle => s.own /\ Covered(s)
  /\ answer = "resuming" =>
       /\ rest /\ ~s.pending /\ ~s.timer /\ "prepare" \notin s.calls
       /\ s.exhausted => s.stream # "error"

LEMMA AcceptGood ==
  ASSUME NEW s, NEW idle \in BOOLEAN, NEW rest \in BOOLEAN,
         NEW answer \in Phases, Accepting(s, answer, idle, rest),
         idle /\ "stop" \notin s.calls => rest
  PROVE  LET t == AcceptSession(s, answer)
         IN Good(t, idle, rest) /\ Unclaimed(s, t) /\ Steady(s, t) /\ t.sent = s.sent
<1> DEFINE p == [s EXCEPT !.session = answer]
           q == [p EXCEPT !.stream = "ready", !.polling = FALSE]
           r == [p EXCEPT !.stream = answer, !.polling = (answer # "failed")]
           t == AcceptSession(s, answer)
<1> SUFFICES Good(t, idle, rest) /\ Unclaimed(s, t) /\ Steady(s, t) /\ t.sent = s.sent
  OBVIOUS
<1>1. /\ Formed(p) /\ p.calls = s.calls /\ p.session = answer
      /\ p.streamer = s.streamer /\ p.stream = s.stream
      /\ p.own = s.own /\ p.pending = s.pending /\ p.timer = s.timer /\ p.polling = s.polling
      /\ p.tries = s.tries /\ p.exhausted = s.exhausted /\ p.sent = s.sent
  BY DEF Accepting
<1>2. t = IF p.exhausted THEN p ELSE IF answer = "ready" THEN StartStreamer(q) ELSE r
  BY DEF AcceptSession, Accepting, Sane
<1> HIDE DEF p, t
<1>3. /\ Formed(q) /\ q.calls = p.calls /\ q.session = p.session
      /\ q.streamer = p.streamer /\ q.own = p.own /\ q.pending = p.pending
      /\ q.timer = p.timer /\ ~q.polling
      /\ q.tries = p.tries /\ q.exhausted = p.exhausted /\ q.sent = p.sent
  BY <1>1
<1>4. /\ Formed(r) /\ r.calls = p.calls /\ r.session = p.session /\ r.stream = answer
      /\ r.streamer = p.streamer /\ r.own = p.own /\ r.pending = p.pending
      /\ r.timer = p.timer
      /\ r.tries = p.tries /\ r.exhausted = p.exhausted /\ r.sent = p.sent
  BY <1>1
<1> HIDE DEF q, r
<1>5. Sane(p) /\ Sane(q) /\ Sane(r)
  BY <1>1, <1>3, <1>4 DEF Accepting, Sane, Open, Phases
<1>6. CASE p.exhausted
  <2>1. Tied(p, idle, rest)
    BY <1>1, <1>6 DEF Accepting, Tied, Covered, Waiting
  <2> QED BY <1>1, <1>2, <1>5, <1>6, <2>1 DEF Good, Unclaimed, Steady
<1>7. CASE ~p.exhausted /\ answer = "ready"
  <2>1. ~Waiting(q)
    BY <1>1, <1>3, <1>7 DEF Waiting
  <2>2. Tied(q, idle, rest)
    BY <1>1, <1>3, <2>1 DEF Accepting, Tied, Covered
  <2>3. Good(q, idle, rest)
    BY <1>3, <1>5, <2>2 DEF Good
  <2>4. t = StartStreamer(q)
    BY <1>2, <1>7
  <2>5. Good(t, idle, rest) /\ Unclaimed(q, t) /\ Steady(q, t) /\ t.sent = q.sent
    BY <1>1, <1>3, <2>1, <2>3, <2>4, StartGood
  <2> QED BY <1>1, <1>3, <2>5 DEF Unclaimed, Steady
<1>8. CASE ~p.exhausted /\ answer # "ready"
  <2>1. Tied(r, idle, rest)
    BY <1>1, <1>4 DEF Accepting, Tied, Covered, Waiting
  <2> QED BY <1>1, <1>2, <1>4, <1>5, <1>8, <2>1 DEF Good, Unclaimed, Steady
<1> QED BY <1>6, <1>7, <1>8

LEMMA PolledGood ==
  ASSUME NEW s, NEW idle \in BOOLEAN, NEW rest \in BOOLEAN,
         Good(s, idle, rest), "poll" \in s.calls, NEW answer \in Later(s.session),
         idle /\ "stop" \notin s.calls => rest
  PROVE  LET t == AcceptSession(Answered(s, "poll"), answer)
         IN Good(t, idle, rest) /\ Unclaimed(s, t) /\ Steady(s, t) /\ t.sent = s.sent
<1> DEFINE p == Answered(s, "poll")
           t == AcceptSession(p, answer)
<1> SUFFICES Good(t, idle, rest) /\ Unclaimed(s, t) /\ Steady(s, t) /\ t.sent = s.sent
  OBVIOUS
<1>1. /\ Formed(p) /\ p.calls = s.calls \ {"poll"} /\ p.session = s.session
      /\ p.streamer = s.streamer /\ p.stream = s.stream
      /\ p.own = s.own /\ p.pending = s.pending /\ p.timer = s.timer
      /\ p.tries = s.tries /\ p.exhausted = s.exhausted /\ p.sent = s.sent
  BY DEF Good, Answered
<1> HIDE DEF p
<1>2. answer \in Phases /\ (answer = "resuming" => s.session = "resuming")
  BY DEF Later, Phases
<1>3. answer = "resuming" => Waiting(s)
  BY <1>2 DEF Waiting
<1>4. Sane(p) /\ (Covered(s) => Covered(p))
  BY <1>1 DEF Good, Sane, Open, Covered
<1>5. Accepting(p, answer, idle, rest)
  BY <1>1, <1>3, <1>4 DEF Good, Tied, Accepting
<1>6. Good(t, idle, rest) /\ Unclaimed(p, t) /\ Steady(p, t) /\ t.sent = p.sent
  BY <1>1, <1>2, <1>5, AcceptGood
<1> QED BY <1>1, <1>6 DEF Unclaimed, Steady

LEMMA ClaimedGood ==
  ASSUME NEW s, NEW idle \in BOOLEAN, NEW rest \in BOOLEAN, idle => rest,
         Good(s, idle, rest), "claim" \in s.calls, NEW answer \in {"ready", "resuming"}
  PROVE  LET t == Claimed(s, answer)
         IN Good(t, idle, rest) /\ Unclaimed(s, t) /\ t.sent = s.sent
<1> DEFINE a == Answered(s, "claim")
           p == [a EXCEPT !.pending = FALSE, !.streamer = "null", !.own = FALSE]
           t == Claimed(s, answer)
<1> SUFFICES Good(t, idle, rest) /\ Unclaimed(s, t) /\ t.sent = s.sent
  OBVIOUS
<1>1. /\ Formed(a) /\ a.calls = s.calls \ {"claim"} /\ a.session = s.session
      /\ a.timer = s.timer /\ a.tries = s.tries /\ a.exhausted = s.exhausted /\ a.sent = s.sent
  BY DEF Good, Answered
<1> HIDE DEF a
<1>2. /\ Formed(p) /\ p.calls = a.calls /\ p.session = a.session /\ ~p.pending
      /\ p.timer = a.timer /\ p.tries = a.tries /\ p.exhausted = a.exhausted /\ p.sent = a.sent
  BY <1>1
<1>3. t = AcceptSession(p, answer)
  BY DEF Claimed, a
<1> HIDE DEF p, t
<1>4. /\ idle /\ rest /\ s.pending /\ ~s.timer /\ ~s.exhausted
      /\ "prepare" \notin s.calls /\ "discover" \notin s.calls
  BY DEF Good, Sane, Tied
<1>5. Sane(p) /\ "prepare" \notin p.calls
  BY <1>1, <1>2, <1>4 DEF Good, Sane, Open
<1>6. Accepting(p, answer, idle, rest)
  BY <1>1, <1>2, <1>4, <1>5 DEF Accepting
<1>7. Good(t, idle, rest) /\ Unclaimed(p, t) /\ t.sent = p.sent
  BY <1>3, <1>6, AcceptGood DEF Phases
<1> QED BY <1>1, <1>2, <1>7 DEF Unclaimed

\* The end of a session withdraws a claim.
LEMMA StopSessionUnclaimed ==
  ASSUME NEW s, Formed(s), s.sent = <<>>, s.tries \in Nat, NEW accepted \in BOOLEAN
  PROVE  "claim" \notin StopSession(s, accepted).calls
<1> DEFINE c == [CancelRecovery(s) EXCEPT !.polling = FALSE]
           q == StopStreamer(c, accepted)
           p == CancelPoll(q)
           t == StopSession(s, accepted)
<1>1. Formed(c) /\ c.sent = <<>> /\ c.calls = s.calls \ {"discover", "claim"} /\ c.tries \in Nat
  BY DEF CancelRecovery
<1>2. t = IF ~Open(p) THEN [p EXCEPT !.stream = "idle"]
          ELSE IF "end" \in p.calls THEN p
          ELSE [Called(p, "end") EXCEPT !.stream = "stopping"]
  BY DEF StopSession
<1> HIDE DEF c, t
<1>3. Formed(q) /\ q.tries \in Nat /\ q.calls \in {c.calls, c.calls \cup {"stop"}}
  BY <1>1, StopStreamerDoes
<1> HIDE DEF q
<1>4. Formed(p) /\ p.calls \in {q.calls, q.calls \ {"poll"}}
  BY <1>3, PollFailedDoes DEF CancelPoll
<1> HIDE DEF p
<1>5. t.calls \in {p.calls, p.calls \cup {"end"}}
  BY <1>2, <1>4 DEF Called
<1> QED BY <1>1, <1>3, <1>4, <1>5 DEF t

LEMMA AcceptedFresh ==
  ASSUME NEW answer \in {"preparing", "ready"}
  PROVE  LET t == AcceptSession(Fresh, answer)
         IN Good(t, TRUE, TRUE) /\ t.sent = <<>>
<1> DEFINE p == [Fresh EXCEPT !.session = answer, !.timer = FALSE, !.tries = 0,
                              !.exhausted = FALSE]
           q == [p EXCEPT !.stream = "ready", !.polling = FALSE]
           r == [p EXCEPT !.stream = answer, !.polling = (answer # "failed")]
           t == AcceptSession(Fresh, answer)
<1> SUFFICES Good(t, TRUE, TRUE) /\ t.sent = <<>>
  OBVIOUS
<1>1. /\ Formed(p) /\ p.calls = {} /\ p.session = answer /\ ~p.own /\ ~p.pending
      /\ ~p.timer /\ p.tries = 0 /\ ~p.exhausted /\ p.sent = <<>>
  BY DEF Fresh
<1>2. t = IF p.exhausted THEN p ELSE IF answer = "ready" THEN StartStreamer(q) ELSE r
  BY DEF AcceptSession, Open, Fresh
<1> HIDE DEF p, t
<1>3. /\ Formed(q) /\ q.calls = p.calls /\ q.session = p.session /\ ~q.pending
      /\ ~q.timer /\ ~q.polling /\ q.tries = 0 /\ ~q.exhausted /\ q.sent = <<>>
  BY <1>1
<1>4. /\ Formed(r) /\ r.calls = p.calls /\ r.session = p.session /\ ~r.pending
      /\ ~r.timer /\ r.tries = 0 /\ ~r.exhausted /\ r.sent = <<>>
  BY <1>1
<1> HIDE DEF q, r
<1>5. Sane(q) /\ Sane(r) /\ ~Waiting(q) /\ ~Waiting(r)
  BY <1>1, <1>3, <1>4 DEF Sane, Open, Waiting
<1>6. Good(q, TRUE, TRUE) /\ Good(r, TRUE, TRUE)
  BY <1>1, <1>3, <1>4, <1>5, IdleGood
<1>7. Good(StartStreamer(q), TRUE, TRUE) /\ StartStreamer(q).sent = q.sent
  BY <1>3, <1>5, <1>6, StartGood
<1> QED BY <1>1, <1>2, <1>3, <1>4, <1>6, <1>7

-----------------------------------------------------------------------------
(* The engine, as a recovery relies on it.                                  *)

Active == {"stops active", "fails active"}
Reporting == worker \in {"reports error", "reports stopped"}

\* A session is about to be built, or the start of one is next.
Coming ==
  \/ phase \in {"clears", "builds"}
  \/ phase = "waits" /\ commands # <<>> /\ Head(commands) = "start"

\* Nothing is left of the last session, and no start is served or next.
Gone == WorkerGone /\ receiver = "none"
StartDue == commands # <<>> /\ Head(commands) = "start"
NoMore == Gone /\ ~StartDue
Rest == Reaped /\ responses = <<>> /\ events = <<>>

\* A worker outlives its session only while the engine waits for it, the
\* receiver does not outlive its worker, and an engine that ends a session has
\* no worker that reports its end.
Bounded ==
  /\ Reporting => state = "Idle"
  /\ worker \in {"runs", "resumes"} /\ ~current => phase \in Active
  /\ WorkerGone \/ worker = "reports stopped" => receiver = "none" \/ phase \in Active
  /\ phase \in Active => ~Reporting /\ ~current

\* What is told of an end is told of a session of which nothing is left.
Ended ==
  /\ Queued("stopped") => Gone
  /\ (\E k \in DOMAIN responses : responses[k].to = "stop" \/ responses[k].type = "error")
       => NoMore

\* A session is begun with nothing left to tell of the one before.
Cleared == Coming => WorkerGone /\ events = <<>> /\ responses = <<>>

\* A start is sent to an engine that has nothing else to serve.
StartsFirst == \A k \in DOMAIN commands : commands[k] = "start" => k = 1

\* A session that ends while its start is still served is told as an error
\* before it is told as stopped.
Foretold(k) == IF k = 1 THEN shell.streamer \in Terminals ELSE events[k - 1] = "error"
Announced ==
  StartDue => /\ worker = "reports stopped" => Foretold(Len(events) + 1)
              /\ \A k \in DOMAIN events : events[k] = "stopped" => Foretold(k)

Told == Ended /\ Cleared /\ StartsFirst /\ Announced

LEMMA ParametersBoolean == NoMore \in BOOLEAN /\ Rest \in BOOLEAN /\ (Rest => NoMore)
BY DEF NoMore, Gone, StartDue, Rest, Reaped, WorkerGone

\* An answer or a stop leaves no start behind.
LEMMA TailStartsNot ==
  ASSUME Inv, StartsFirst, commands # <<>>
  PROVE  /\ \A k \in DOMAIN Tail(commands) : Tail(commands)[k] # "start"
         /\ ~(Tail(commands) # <<>> /\ Head(Tail(commands)) = "start")
<1> DEFINE c == Tail(commands)
<1>1. /\ DOMAIN commands = 1 .. Len(commands) /\ DOMAIN c = 1 .. Len(commands) - 1
      /\ Len(commands) \in Nat \ {0} /\ Len(c) = Len(commands) - 1 /\ c \in Seq(Commands)
      /\ \A k \in 1 .. Len(commands) - 1 : c[k] = commands[k + 1]
  BY TailFacts DEF Inv, Typed
<1> HIDE DEF c
<1>2. \A k \in DOMAIN c : c[k] # "start"
  <2>1. ASSUME NEW k \in DOMAIN c PROVE c[k] # "start"
    <3>1. k + 1 \in DOMAIN commands /\ k + 1 # 1 /\ c[k] = commands[k + 1]
      BY <1>1
    <3> QED BY <3>1 DEF StartsFirst
  <2> QED BY <2>1
<1>3. c # <<>> => 1 \in DOMAIN c /\ Head(c) = c[1]
  BY <1>1
<1> QED BY <1>2, <1>3 DEF c

LEMMA EmitFacts ==
  ASSUME NEW f \in Seq(Events), NEW event \in Events
  PROVE  LET g == Append(f, event)
         IN /\ DOMAIN f = 1 .. Len(f) /\ DOMAIN g = 1 .. Len(f) + 1
            /\ Len(f) \in Nat /\ Len(g) = Len(f) + 1
            /\ g[Len(f) + 1] = event
            /\ \A k \in 1 .. Len(f) : g[k] = f[k]
OBVIOUS

\* Only a stop, or a worker at its end, tells that a session has stopped.
LEMMA StoppedKept ==
  ASSUME Inv,
         \/ UNCHANGED events
         \/ \E event \in Events : event # "stopped" /\ Emit(event)
         \/ events # <<>> /\ events' = Tail(events)
  PROVE  Queued("stopped")' => Queued("stopped")
<1>1. events \in Seq(Events)
  BY DEF Inv, Typed
<1>2. Queued("stopped")' => Queued("stopped")
  <2>1. SUFFICES ASSUME NEW k \in DOMAIN events', events'[k] = "stopped"
                 PROVE  Queued("stopped")
    BY DEF Queued
  <2>2. CASE UNCHANGED events
    BY <2>1, <2>2 DEF Queued
  <2>3. CASE \E event \in Events : event # "stopped" /\ Emit(event)
    <3>1. PICK event \in Events : event # "stopped" /\ events' = Append(events, event)
      BY <2>3 DEF Emit
    <3>2. k \in DOMAIN events /\ events[k] = events'[k]
      BY <1>1, <2>1, <3>1
    <3> QED BY <2>1, <3>2 DEF Queued
  <2>4. CASE events # <<>> /\ events' = Tail(events)
    <3>1. k + 1 \in DOMAIN events /\ events[k + 1] = events'[k]
      BY <1>1, <2>1, <2>4
    <3> QED BY <2>1, <3>1 DEF Queued
  <2> QED BY <2>2, <2>3, <2>4
<1> QED BY <1>2

\* Nothing that counts as an end is told anew.
LEMMA EndedKept ==
  ASSUME Inv, Ended, Gone => Gone', NoMore => NoMore',
         \/ UNCHANGED events
         \/ \E event \in Events : event # "stopped" /\ Emit(event)
         \/ events # <<>> /\ events' = Tail(events),
         \/ UNCHANGED responses
         \/ responses' = Append(responses, [to |-> "start", type |-> "ok"])
         \/ responses # <<>> /\ responses' = Tail(responses)
  PROVE  Ended'
<1>1. responses \in Seq(Responses)
  BY DEF Inv, Typed
<1>2. Queued("stopped")' => Queued("stopped")
  BY StoppedKept
<1>3. ASSUME NEW k \in DOMAIN responses', responses'[k].to = "stop" \/ responses'[k].type = "error"
      PROVE  \E j \in DOMAIN responses : responses[j].to = "stop" \/ responses[j].type = "error"
  <2>1. CASE UNCHANGED responses
    BY <1>3, <2>1
  <2>2. CASE responses' = Append(responses, [to |-> "start", type |-> "ok"])
    <3> DEFINE response == [to |-> "start", type |-> "ok"]
    <3>1. response.to = "start" /\ response.type = "ok" /\ responses' = Append(responses, response)
      BY <2>2
    <3> HIDE DEF response
    <3>2. k \in DOMAIN responses /\ responses[k] = responses'[k]
      BY <1>1, <1>3, <3>1
    <3> QED BY <1>3, <3>2
  <2>3. CASE responses # <<>> /\ responses' = Tail(responses)
    <3>1. k + 1 \in DOMAIN responses /\ responses[k + 1] = responses'[k]
      BY <1>1, <1>3, <2>3
    <3> QED BY <1>3, <3>1
  <2> QED BY <2>1, <2>2, <2>3
<1> QED BY <1>2, <1>3 DEF Ended

LEMMA EngineTells ==
  ASSUME Inv, Bounded, Told, EngineStep \/ EngineFails, UNCHANGED shell
  PROVE  Told' /\ (NoMore => NoMore') /\ ~Rest
<1> USE DEF queueVars, threadVars, mediaVars
<1>1. Serving /\ Typed
  BY DEF Inv
<1>2. ASSUME commands # <<>>, commands' = Tail(commands), phase' = "waits"
      PROVE  ~StartDue' /\ Cleared' /\ StartsFirst' /\ Announced'
  <2>1. ~Coming' /\ ~StartDue'
    BY <1>2, TailStartsNot DEF Coming, StartDue, Told
  <2> QED BY <1>2, <2>1, TailStartsNot DEF Cleared, StartsFirst, Announced, Told
<1>3. ASSUME StartDue, UNCHANGED <<commands, events, shell>>,
             worker' = "reports stopped" => worker = "reports stopped"
      PROVE  StartDue' /\ ~NoMore /\ StartsFirst' /\ Announced'
  BY <1>3 DEF StartDue, NoMore, StartsFirst, Announced, Foretold, Told
<1>4. ASSUME Coming PROVE StartDue /\ Gone
  BY <1>1, <1>4 DEF Coming, StartDue, Gone, Serving, Told, Cleared, Bounded, WorkerGone, Active
<1>5. CASE StartRefused \/ NegotiationFails \/ BuildFails
  <2>1. Coming /\ commands # <<>> /\ commands' = Tail(commands) /\ phase' = "waits"
        /\ UNCHANGED <<worker, receiver>>
    BY <1>1, <1>5 DEF StartRefused, NegotiationFails, BuildFails, Serves, Respond, Coming, Serving
  <2>2. Gone' /\ NoMore'
    BY <1>2, <1>4, <2>1 DEF NoMore, Gone, WorkerGone
  <2> QED BY <1>2, <2>1, <2>2 DEF Told, Ended, Rest, Reaped
<1>6. CASE StopEnds
  <2>1. /\ commands # <<>> /\ commands' = Tail(commands) /\ phase' = "waits"
        /\ worker' = "none" /\ receiver' = "none"
    BY <1>1, <1>6 DEF StopEnds, Respond, Serving
  <2>2. Gone' /\ NoMore'
    BY <1>2, <2>1 DEF NoMore, Gone, WorkerGone
  <2> QED BY <1>2, <2>1, <2>2 DEF Told, Ended, Rest, Reaped
<1>7. CASE Finish
  <2>1. /\ commands # <<>> /\ commands' = Tail(commands) /\ phase' = "waits"
        /\ responses' = Append(responses, [to |-> "start", type |-> "ok"])
        /\ Emit("ready")
        /\ UNCHANGED <<worker, receiver>>
    BY <1>1, <1>7 DEF Finish, Respond, Serving
  <2>2. (Gone => Gone') /\ (NoMore => NoMore')
    BY <1>2, <2>1 DEF NoMore, Gone, WorkerGone
  <2>3. Ended'
    BY <2>1, <2>2, EndedKept DEF Told, Events
  <2> QED BY <1>2, <2>1, <2>2, <2>3 DEF Told, Rest, Reaped
<1>8. CASE Negotiate \/ ClearOld
  <2>1. /\ Coming /\ Coming' /\ commands # <<>> /\ UNCHANGED <<commands, responses, events>>
        /\ worker' \in {worker, "none"}
        /\ UNCHANGED receiver \/ receiver' = "none"
    BY <1>1, <1>8 DEF Negotiate, ClearOld, Serves, Coming, Serving
  <2>2. StartDue /\ ~NoMore /\ StartsFirst' /\ Announced'
    BY <1>3, <1>4, <2>1
  <2>3. Gone => Gone'
    BY <2>1 DEF Gone, WorkerGone
  <2>4. Ended'
    BY <2>1, <2>2, <2>3, EndedKept DEF Told
  <2> QED BY <2>1, <2>2, <2>4 DEF Told, Cleared, WorkerGone, Rest, Reaped
<1>9. CASE Connect
  <2>1. /\ Coming /\ ~Coming' /\ phase # "waits" /\ worker' = "runs"
        /\ UNCHANGED <<commands, responses, events>>
    BY <1>9 DEF Connect, Coming
  <2>2. StartDue /\ ~NoMore /\ StartsFirst' /\ Announced'
    BY <1>3, <1>4, <2>1
  <2>3. ~Queued("stopped") /\ DOMAIN responses = {}
    BY <2>1 DEF Told, Cleared, Queued
  <2>4. Ended'
    BY <2>1, <2>3 DEF Ended, Queued
  <2> QED BY <2>1, <2>2, <2>4 DEF Told, Cleared, Rest, Reaped
<1>10. CASE Stop \/ FinishFails
  <2>1. /\ commands # <<>> /\ phase' # "waits" /\ ~Coming'
        /\ UNCHANGED <<commands, responses, events, worker, receiver>>
    BY <1>1, <1>10 DEF Stop, FinishFails, BeginStop, Serves, Serving, Coming
  <2>2. Gone' = Gone /\ NoMore' = NoMore
    BY <2>1 DEF NoMore, Gone, StartDue, WorkerGone
  <2>3. Announced'
    BY <2>1 DEF Announced, Foretold, StartDue, Told
  <2> QED BY <2>1, <2>2, <2>3 DEF Told, Ended, Cleared, Queued, StartsFirst, Rest, Reaped
<1> QED BY <1>5, <1>6, <1>7, <1>8, <1>9, <1>10 DEF EngineStep, EngineFails

LEMMA EngineBounded ==
  ASSUME Inv, Bounded, EngineStep \/ EngineFails
  PROVE  Bounded'
<1> USE DEF queueVars, threadVars, mediaVars, Bounded, WorkerGone, Active, Reporting
<1>1. CASE StartRefused \/ NegotiationFails \/ Negotiate
  BY <1>1 DEF StartRefused, NegotiationFails, Negotiate, Serves, Respond
<1>2. CASE ClearOld \/ Connect
  BY <1>2 DEF ClearOld, Connect
<1>3. CASE BuildFails \/ Finish
  BY <1>3 DEF BuildFails, Finish, Respond
<1>4. CASE Stop \/ FinishFails
  <2>1. /\ phase \notin Active /\ current' = FALSE /\ state' = "Idle"
        /\ state # "Idle" => phase' \in Active
        /\ phase' \in Active => state # "Idle"
        /\ UNCHANGED <<worker, receiver>>
    BY <1>4 DEF Stop, FinishFails, BeginStop, Serves
  <2>2. worker \in {"runs", "resumes"} => state # "Idle"
    BY <2>1 DEF Inv, Connected, Runs
  <2> QED BY <2>1, <2>2
<1>5. CASE StopEnds
  BY <1>5 DEF StopEnds, Respond
<1> QED BY <1>1, <1>2, <1>3, <1>4, <1>5 DEF EngineStep, EngineFails

\* A worker that still tells something belongs to a session not yet gone.
LEMMA WorkerTells ==
  ASSUME Inv, Bounded, WorkerStep \/ WorkerFails \/ KeyframeAccepted, UNCHANGED shell
  PROVE  /\ Told => Told' /\ (NoMore => NoMore')
         /\ Bounded' /\ ~Rest
<1> USE DEF queueVars, threadVars, mediaVars
<1>1. /\ UNCHANGED <<commands, responses, phase, current>>
      /\ WorkerGone => receiver # "none"
  BY DEF WorkerStep, WorkerFails, Superseded, Resumes, SetsConnected, AttemptRecovery,
         ReceiverStopped, ReportsError, ReportsStopped, Presents, Recovered, TimesOut, WorkerGone,
         ReceiverEnds, RecoveryFails, CaptureFails, MediaError, KeyframeAccepted, Terminal, Receives
<1>2. /\ ~Gone /\ ~NoMore /\ ~Rest
      /\ Coming' = Coming /\ StartDue' = StartDue /\ (StartsFirst => StartsFirst')
  BY <1>1 DEF Gone, NoMore, Rest, Reaped, Coming, StartDue, StartsFirst
<1>3. Told => /\ ~Queued("stopped")
              /\ ~\E k \in DOMAIN responses' : responses'[k].to = "stop" \/ responses'[k].type = "error"
  BY <1>1, <1>2 DEF Told, Ended
<1>4. ASSUME ~Coming \/ (UNCHANGED events /\ (WorkerGone => WorkerGone')), Told,
             Queued("stopped")' => Gone', Announced'
      PROVE  Told'
  BY <1>1, <1>2, <1>3, <1>4 DEF Told, Ended, Cleared
<1>5. Told /\ Coming => WorkerGone
  BY DEF Told, Cleared
<1>6. CASE TimesOut \/ ReceiverEnds \/ Recovered
  <2>1. receiver # "none" /\ UNCHANGED <<events, worker, state>>
    BY <1>6 DEF TimesOut, ReceiverEnds, Recovered
  <2>2. Bounded'
    BY <1>1, <2>1 DEF Bounded, WorkerGone, Reporting
  <2>3. Told => ~Queued("stopped")' /\ Announced'
    BY <1>1, <1>2, <1>3, <2>1 DEF Told, Queued, Announced, Foretold
  <2> QED BY <1>2, <1>4, <2>1, <2>2, <2>3 DEF WorkerGone
<1>7. CASE ReportsStopped
  <2>1. worker = "reports stopped" /\ worker' = "ended" /\ UNCHANGED <<receiver, state>>
        /\ events' = Append(events, "stopped") /\ events \in Seq(Events)
    BY <1>7 DEF ReportsStopped, Emit, Inv, Typed
  <2>2. Bounded' /\ Gone'
    BY <1>1, <2>1 DEF Bounded, WorkerGone, Reporting, Gone
  <2>3. /\ Len(events) \in Nat /\ DOMAIN events = 1 .. Len(events)
        /\ DOMAIN events' = 1 .. Len(events) + 1
        /\ \A k \in 1 .. Len(events) : events'[k] = events[k]
    BY <2>1, EmitFacts DEF Events
  <2>4. Told => Announced'
    <3>1. SUFFICES ASSUME Told, StartDue, NEW k \in DOMAIN events', events'[k] = "stopped"
                   PROVE  Foretold(k)'
      BY <1>2, <2>1 DEF Announced
    <3>2. k = Len(events) + 1 /\ Len(events) \in Nat
      <4>1. k \in DOMAIN events => events[k] = events'[k]
        BY <2>3
      <4>2. k \notin DOMAIN events
        BY <1>3, <3>1, <4>1 DEF Queued
      <4> QED BY <2>3, <3>1, <4>2
    <3>3. Foretold(k)
      BY <2>1, <3>1, <3>2 DEF Told, Announced
    <3>4. k # 1 => events'[k - 1] = events[k - 1]
      <4>1. k # 1 => k - 1 \in 1 .. Len(events)
        BY <3>2
      <4> QED BY <2>3, <4>1
    <3> QED BY <3>3, <3>4 DEF Foretold
  <2> QED BY <1>2, <1>4, <1>5, <2>1, <2>2, <2>4 DEF WorkerGone
<1>8. CASE ReportsError
  <2>1. worker = "reports error" /\ worker' = "reports stopped" /\ receiver' = "none"
        /\ events' = Append(events, "error") /\ events \in Seq(Events) /\ UNCHANGED state
    BY <1>8 DEF ReportsError, Emit, Inv, Typed
  <2>2. Bounded'
    BY <1>1, <2>1 DEF Bounded, WorkerGone, Reporting
  <2>3. Told => ~Queued("stopped")'
    BY <1>3, <2>1, StoppedKept DEF Emit, Events
  <2>4. Told => Announced'
    <3>1. /\ Len(events) \in Nat /\ Len(events') = Len(events) + 1
          /\ events'[Len(events) + 1] = "error"
      BY <2>1, EmitFacts DEF Events
    <3>2. Len(events') + 1 # 1 /\ (Len(events') + 1) - 1 = Len(events) + 1
      BY <3>1
    <3>3. Foretold(Len(events) + 1)'
      BY <3>1, <3>2 DEF Foretold
    <3> QED BY <2>3, <3>3 DEF Announced, Queued
  <2> QED BY <1>2, <1>4, <1>5, <2>1, <2>2, <2>3, <2>4 DEF WorkerGone
<1>9. CASE ~(TimesOut \/ ReceiverEnds \/ Recovered) /\ ~ReportsStopped /\ ~ReportsError
  <2>1. /\ worker \in {"runs", "resumes"} /\ worker' # "reports stopped"
        /\ UNCHANGED events \/ \E event \in Events : event # "stopped" /\ Emit(event)
    BY <1>9 DEF WorkerStep, WorkerFails, Superseded, Resumes, SetsConnected, AttemptRecovery,
         ReceiverStopped, Presents, RecoveryFails, CaptureFails, MediaError,
         KeyframeAccepted, Terminal, Receives, Events
  <2>2. Bounded'
    <3>1. \/ worker' \in {"runs", "resumes"}
          \/ worker' = "reports error" /\ state' = "Idle" /\ current
          \/ worker = "runs" /\ ~current /\ worker' = "ended" /\ UNCHANGED state
      BY <1>9 DEF WorkerStep, WorkerFails, Superseded, Resumes, SetsConnected, AttemptRecovery,
         ReceiverStopped, Presents, RecoveryFails, CaptureFails, MediaError,
         KeyframeAccepted, Terminal, Receives
    <3> QED BY <1>1, <2>1, <3>1 DEF Bounded, WorkerGone, Reporting
  <2>3. Told => ~Queued("stopped")'
    BY <1>3, <2>1, StoppedKept
  <2>4. Told => Announced'
    BY <2>1, <2>3 DEF Announced, Queued
  <2>5. Told => ~Coming
    BY <1>5, <2>1 DEF WorkerGone
  <2> QED BY <1>2, <1>4, <2>2, <2>3, <2>4, <2>5
<1> QED BY <1>6, <1>7, <1>8, <1>9

-----------------------------------------------------------------------------
(* The steps of the shell.                                                  *)

\* What has been sent is not part of what a recovery relies on.
LEMMA GoodUnsent ==
  ASSUME NEW s, NEW idle \in BOOLEAN, NEW rest \in BOOLEAN, Good(s, idle, rest)
  PROVE  Good([s EXCEPT !.sent = <<>>], idle, rest)
<1> DEFINE t == [s EXCEPT !.sent = <<>>]
<1>1. /\ Formed(t) /\ t.calls = s.calls /\ t.session = s.session
      /\ t.streamer = s.streamer /\ t.stream = s.stream
      /\ t.own = s.own /\ t.pending = s.pending /\ t.timer = s.timer /\ t.polling = s.polling
      /\ t.tries = s.tries /\ t.exhausted = s.exhausted
  BY DEF Good
<1> HIDE DEF t
<1>2. Sane(t) /\ (Waiting(t) <=> Waiting(s)) /\ (Covered(s) <=> Covered(t))
  BY <1>1 DEF Good, Sane, Open, Waiting, Covered
<1> QED BY <1>1, <1>2 DEF Good, Tied, t

\* What the shell may come to by a handler, and what it has sent by then.
Led(s) ==
  \/ s.sent = <<>> /\ Good(s, NoMore, Rest)
  \/ s.sent = <<"stop">> /\ Good(s, NoMore, FALSE)
  \/ s.sent = <<"start">> /\ Rest /\ Good(s, FALSE, FALSE)

\* A start that is due is a call of the shell.
LEMMA DueIsCalled ==
  ASSUME Inv, StartDue
  PROVE  "start" \in shell.calls
<1>1. Carries(InFlight, responses, commands)
  BY TravelsCarries DEF InFlight, Inv, Typed
<1>2. 1 \in 1 .. Len(commands) /\ commands[1] = "start"
  BY DEF StartDue, Inv, Typed
<1>3. Len(responses) + 1 \in DOMAIN InFlight /\ InFlight[Len(responses) + 1] = "start"
  BY <1>1, <1>2 DEF Carries
<1> QED BY <1>3 DEF Inv, Orderly

LEMMA BecomesRecovers ==
  ASSUME Inv, Told, NEW s, Becomes(s), Led(s), StartDue => Steady(shell, s)
  PROVE  Told' /\ Good(shell, NoMore, Rest)'
<1> USE DEF queueVars, threadVars, mediaVars
<1>1. /\ shell' = [s EXCEPT !.sent = <<>>] /\ commands' = commands \o s.sent
      /\ UNCHANGED <<responses, events, phase, current, worker, receiver>>
      /\ commands \in Seq(Commands) /\ Formed(s)
  BY DEF Becomes, Inv, Typed, Led, Good
<1>2. /\ NoMore \in BOOLEAN /\ Rest \in BOOLEAN /\ NoMore' \in BOOLEAN /\ Rest' \in BOOLEAN
  BY DEF NoMore, Gone, StartDue, Rest, Reaped, WorkerGone
<1>3. ASSUME Good(shell', NoMore', Rest') PROVE Good(shell, NoMore, Rest)'
  BY <1>3
<1>4. ASSUME StartDue' = StartDue PROVE Announced'
  <2>1. shell'.streamer = s.streamer
    BY <1>1
  <2>2. StartDue /\ shell.streamer \in Terminals => shell'.streamer \in Terminals
    BY <2>1, DueIsCalled DEF Steady
  <2> QED BY <1>1, <1>4, <2>2 DEF Told, Announced, Foretold
<1>5. CASE s.sent = <<>> /\ Good(s, NoMore, Rest)
  <2>1. commands' = commands
    BY <1>1, <1>5
  <2>2. NoMore' = NoMore /\ Rest' = Rest /\ Gone' = Gone /\ StartDue' = StartDue
    BY <1>1, <2>1 DEF NoMore, Gone, StartDue, Rest, Reaped, WorkerGone
  <2>3. Told'
    BY <1>1, <1>4, <2>1, <2>2 DEF Told, Ended, Cleared, StartsFirst, Queued, Coming, WorkerGone
  <2>4. Good(shell', NoMore, Rest)
    BY <1>1, <1>2, <1>5, GoodUnsent
  <2> QED BY <1>3, <2>2, <2>3, <2>4
<1>6. CASE s.sent = <<"stop">> /\ Good(s, NoMore, FALSE)
  <2>1. /\ commands' = Append(commands, "stop") /\ commands' # <<>>
        /\ commands # <<>> => Head(commands') = Head(commands)
        /\ commands = <<>> => Head(commands') = "stop"
        /\ \A k \in DOMAIN commands' :
             commands'[k] = "start" => k \in DOMAIN commands /\ commands[k] = "start"
    <3>1. commands' = Append(commands, "stop")
      BY <1>1, <1>6
    <3> QED BY <1>1, <3>1
  <2>2. /\ NoMore' = NoMore /\ Gone' = Gone /\ StartDue' = StartDue /\ Coming' = Coming /\ ~Rest'
    BY <1>1, <2>1 DEF NoMore, Gone, StartDue, Rest, Reaped, Coming, WorkerGone
  <2>3. Told'
    BY <1>1, <1>4, <2>1, <2>2 DEF Told, Ended, Cleared, StartsFirst, Queued, WorkerGone
  <2>4. Good(shell', NoMore, FALSE)
    BY <1>1, <1>2, <1>6, GoodUnsent
  <2>5. Good(shell', NoMore', Rest')
    BY <1>2, <2>2, <2>4, Relaxed
  <2> QED BY <1>3, <2>3, <2>5
<1>7. CASE s.sent = <<"start">> /\ Rest /\ Good(s, FALSE, FALSE)
  <2>1. /\ commands' = <<"start">> /\ WorkerGone /\ responses = <<>> /\ events = <<>>
    BY <1>1, <1>7 DEF Rest, Reaped
  <2>2. Told'
    <3>1. DOMAIN responses' = {} /\ DOMAIN events' = {} /\ DOMAIN commands' = {1}
      BY <1>1, <2>1
    <3> QED BY <1>1, <2>1, <3>1
            DEF Told, Ended, Cleared, StartsFirst, Announced, Queued, WorkerGone
  <2>3. Good(shell', FALSE, FALSE)
    BY <1>1, <1>7, GoodUnsent
  <2>4. Good(shell', NoMore', Rest')
    BY <1>2, <2>3, Relaxed
  <2> QED BY <1>3, <2>2, <2>4
<1> QED BY <1>5, <1>6, <1>7 DEF Led

LEMMA EventRecovers ==
  ASSUME Inv, Told, Good(shell, NoMore, Rest), DeliverEvent
  PROVE  Told' /\ Good(shell, NoMore, Rest)' /\ Unclaimed(shell, shell')
<1> USE DEF threadVars, mediaVars
<1>1. /\ events # <<>> /\ events' = Tail(events)
      /\ shell' = NativeEvent(shell, Head(events))
      /\ UNCHANGED <<commands, responses, phase, current, worker, receiver>>
      /\ events \in Seq(Events)
  BY DEF DeliverEvent, Inv, Typed
<1>2. /\ NoMore \in BOOLEAN /\ NoMore' \in BOOLEAN /\ Rest' \in BOOLEAN
      /\ NoMore' = NoMore /\ Gone' = Gone /\ StartDue' = StartDue /\ Coming' = Coming /\ ~Rest
  BY <1>1 DEF NoMore, Gone, StartDue, Rest, Reaped, Coming, WorkerGone
<1>3. /\ 1 \in DOMAIN events /\ Head(events) = events[1] /\ Head(events) \in Events
      /\ Len(events) \in Nat \ {0} /\ Len(events') = Len(events) - 1
      /\ DOMAIN events = 1 .. Len(events) /\ DOMAIN events' = 1 .. Len(events) - 1
      /\ \A k \in 1 .. Len(events) - 1 : events'[k] = events[k + 1]
  BY <1>1
<1>4. Head(events) = "stopped" => NoMore \/ shell.streamer \in Terminals
  <2>1. SUFFICES ASSUME Head(events) = "stopped", StartDue PROVE shell.streamer \in Terminals
    BY <1>3 DEF Told, Ended, Queued, NoMore
  <2>2. \A k \in DOMAIN events : events[k] = "stopped" => Foretold(k)
    BY <2>1 DEF Told, Announced
  <2>3. Foretold(1)
    BY <1>3, <2>1, <2>2
  <2> QED BY <2>3 DEF Foretold
<1>5. Good(shell, NoMore, FALSE)
  BY <1>2 DEF Good, Tied
<1>6. Good(shell', NoMore, FALSE) /\ Unclaimed(shell, shell')
  BY <1>1, <1>2, <1>3, <1>4, <1>5, EventGood
<1>7. Good(shell', NoMore', Rest')
  BY <1>2, <1>6, Relaxed
<1>8. Ended'
  BY <1>1, <1>2, EndedKept DEF Told
<1>9. Announced'
  <2>1. Head(events) = "error" => shell'.streamer \in Terminals
    BY <1>1, SnapshotDoes DEF NativeEvent, Good, Sane, Terminals
  <2>2. ASSUME NEW k \in 1 .. Len(events), Foretold(k + 1) PROVE Foretold(k)'
    <3>1. events[k] = "error"
      BY <2>2 DEF Foretold
    <3>2. k # 1 => (k - 1) \in 1 .. Len(events) - 1 /\ events'[k - 1] = events[k]
      BY <1>3
    <3> QED BY <1>3, <2>1, <3>1, <3>2 DEF Foretold
  <2>3. StartDue /\ worker = "reports stopped" => Foretold(Len(events) + 1)
    BY DEF Told, Announced
  <2>4. \A k \in 1 .. Len(events) - 1 :
          StartDue /\ events'[k] = "stopped" => Foretold(k + 1)
    <3>1. \A k \in 1 .. Len(events) - 1 : k + 1 \in DOMAIN events
      BY <1>3
    <3>2. StartDue => \A k \in DOMAIN events : events[k] = "stopped" => Foretold(k)
      BY DEF Told, Announced
    <3> QED BY <1>3, <3>1, <3>2
  <2>5. Len(events) \in 1 .. Len(events) /\ Len(events') + 1 = Len(events)
    BY <1>3
  <2>6. \A k \in 1 .. Len(events) - 1 : k \in 1 .. Len(events)
    BY <1>3
  <2>7. StartDue /\ worker = "reports stopped" => Foretold(Len(events) + 1)'
    <3>1. StartDue /\ worker = "reports stopped" =>
            (IF Len(events) = 1 THEN shell'.streamer \in Terminals
             ELSE events'[Len(events) - 1] = "error")
      BY <2>2, <2>3, <2>5 DEF Foretold
    <3> QED BY <2>5, <3>1 DEF Foretold
  <2>8. \A k \in 1 .. Len(events) - 1 : StartDue /\ events'[k] = "stopped" => Foretold(k)'
    BY <2>2, <2>4, <2>6
  <2>9. /\ worker' = worker /\ StartDue' = StartDue
        /\ DOMAIN events' = 1 .. Len(events) - 1
    BY <1>1, <1>2, <1>3
  <2> QED BY <2>7, <2>8, <2>9 DEF Announced
<1>10. Cleared' /\ StartsFirst'
  BY <1>1, <1>2 DEF Told, Cleared, StartsFirst
<1> QED BY <1>6, <1>7, <1>8, <1>9, <1>10 DEF Told

LEMMA ResponseRecovers ==
  ASSUME Inv, Told, Good(shell, NoMore, Rest), DeliverResponse
  PROVE  Told' /\ Good(shell, NoMore, Rest)' /\ Unclaimed(shell, shell')
<1> USE DEF threadVars, mediaVars
<1> DEFINE response == Head(responses)
<1>1. /\ responses # <<>> /\ responses' = Tail(responses)
      /\ shell' = IF response.to = "start" THEN Started(shell, response.type = "ok")
                  ELSE Stopped(shell)
      /\ UNCHANGED <<commands, events, phase, current, worker, receiver>>
      /\ responses \in Seq(Responses) /\ commands \in Seq(Commands)
  BY DEF DeliverResponse, Inv, Typed
<1>2. /\ NoMore \in BOOLEAN /\ NoMore' \in BOOLEAN /\ Rest' \in BOOLEAN
      /\ NoMore' = NoMore /\ Gone' = Gone /\ StartDue' = StartDue /\ Coming' = Coming /\ ~Rest
  BY <1>1 DEF NoMore, Gone, StartDue, Rest, Reaped, Coming, WorkerGone
<1>3. /\ response.to \in Commands /\ response.type \in {"ok", "error"}
      /\ response.to = "stop" \/ response.type = "error" => NoMore
      /\ response.to = responses[1].to
  <2>1. 1 \in DOMAIN responses /\ response = responses[1] /\ response \in Responses
    BY <1>1
  <2> HIDE DEF response
  <2> QED BY <2>1 DEF Told, Ended, Responses
<1>4. response.to \in shell.calls
  <2>1. InFlight # <<>> /\ response.to = InFlight[1] /\ InFlight \in Seq(Commands)
    BY <1>1, TravelsDeliver, FlightTyped DEF InFlight, Inv
  <2>2. 1 \in DOMAIN InFlight
    BY <2>1
  <2> QED BY <2>1, <2>2 DEF Inv, Orderly
<1> HIDE DEF response
<1>5. ~StartDue
  <2>1. SUFFICES ASSUME StartDue PROVE FALSE
    OBVIOUS
  <2>2. response.to = "start"
    BY <1>3, <2>1 DEF NoMore, Commands
  <2>3. Carries(InFlight, responses, commands)
    BY <1>1, TravelsCarries DEF InFlight
  <2>4. Len(responses) \in Nat \ {0} /\ 1 \in 1 .. Len(commands) /\ commands[1] = "start"
    BY <1>1, <2>1 DEF StartDue
  <2>5. /\ 1 \in DOMAIN InFlight /\ InFlight[1] = "start"
        /\ Len(responses) + 1 \in DOMAIN InFlight /\ InFlight[Len(responses) + 1] = "start"
    <3>1. /\ InFlight \in Seq(Commands) /\ Len(InFlight) = Len(responses) + Len(commands)
          /\ Len(commands) \in Nat /\ 1 \in 1 .. Len(responses)
          /\ InFlight[1] = responses[1].to /\ InFlight[Len(responses) + 1] = commands[1]
      BY <2>3, <2>4 DEF Carries
    <3>2. DOMAIN InFlight = 1 .. Len(responses) + Len(commands)
      BY <3>1
    <3>3. 1 \in DOMAIN InFlight /\ Len(responses) + 1 \in DOMAIN InFlight
      BY <2>4, <3>1, <3>2
    <3> QED BY <1>3, <2>2, <2>4, <3>1, <3>3
  <2>6. 1 = Len(responses) + 1
    BY <2>5 DEF Inv, Orderly
  <2> QED BY <2>4, <2>6
<1>6. Good(shell, NoMore, FALSE)
  BY <1>2 DEF Good, Tied
<1>7. Good(shell', NoMore, FALSE) /\ Unclaimed(shell, shell')
  <2>1. CASE response.to = "start"
    <3>1. shell' = Started(shell, response.type = "ok")
      BY <1>1, <2>1
    <3>2. (response.type = "ok") \in BOOLEAN /\ (~(response.type = "ok") => NoMore)
      BY <1>3
    <3> QED BY <1>2, <1>6, <3>1, <3>2, StartedGood
  <2>2. CASE response.to = "stop"
    <3>1. shell' = Stopped(shell) /\ NoMore
      BY <1>1, <1>3, <2>2
    <3>2. Good(shell, TRUE, FALSE)
      BY <1>2, <1>6, <3>1, Relaxed
    <3>3. Good(shell', TRUE, FALSE) /\ Unclaimed(shell, shell')
      BY <1>4, <2>2, <3>1, <3>2, StoppedGood
    <3> QED BY <1>2, <3>1, <3>3
  <2> QED BY <1>3, <2>1, <2>2 DEF Commands
<1>8. Good(shell', NoMore', Rest')
  BY <1>2, <1>7, Relaxed
<1>9. Ended'
  BY <1>1, <1>2, EndedKept DEF Told
<1>10. Cleared' /\ StartsFirst' /\ Announced'
  BY <1>1, <1>2, <1>5 DEF Told, Cleared, StartsFirst, Announced
<1> QED BY <1>7, <1>8, <1>9, <1>10 DEF Told

LEMMA PresentationRecovers ==
  ASSUME Inv, Told, Good(shell, NoMore, Rest), PresentationFails
  PROVE  Told' /\ Good(shell, NoMore, Rest)' /\ Unclaimed(shell, shell')
<1> USE DEF engineVars, queueVars, threadVars, mediaVars
<1>1. /\ shown /\ shell' = Snapshot(shell, "error")
      /\ UNCHANGED <<commands, responses, events, phase, current, worker, receiver>>
  BY DEF PresentationFails, Good, Sane
<1>2. ~Rest
  <2>1. Alive
    BY <1>1 DEF Inv
  <2>2. Rest => ~Alive
    <3>1. events = <<>> => ~Queued("error") /\ ~Queued("stopped")
      BY DEF Queued
    <3> QED BY <3>1 DEF Rest, Reaped, Alive, Runs, WorkerGone
  <2> QED BY <2>1, <2>2
<1>3. /\ NoMore \in BOOLEAN /\ NoMore' = NoMore /\ Gone' = Gone /\ StartDue' = StartDue
      /\ Coming' = Coming /\ ~Rest'
  BY <1>1, <1>2 DEF NoMore, Gone, StartDue, Rest, Reaped, Coming, WorkerGone
<1>4. Good(shell, NoMore, FALSE)
  BY <1>2 DEF Good, Tied
<1>5. Good(shell', NoMore, FALSE) /\ Unclaimed(shell, shell')
  BY <1>1, <1>3, <1>4, SnapshotGood
<1>6. Good(shell', NoMore', Rest')
  BY <1>2, <1>3, <1>5 DEF Good, Tied
<1>7. shell'.streamer \in Terminals
  BY <1>1, SnapshotDoes DEF Good, Sane, Terminals
<1>8. Told'
  BY <1>1, <1>3, <1>7
     DEF Told, Ended, Cleared, StartsFirst, Announced, Foretold, Queued, WorkerGone
<1> QED BY <1>5, <1>6, <1>8

Recoverable ==
  /\ Bounded /\ stops \in Nat
  /\ stops = 0 => Told /\ Good(shell, NoMore, Rest)

\* Nothing is left of the old session once it is gone, nothing has been sent
\* since, and what the streamer has said has been heard.
LEMMA QuietRests ==
  ASSUME Inv, Told, Quiet, NoMore, "stop" \notin shell.calls
  PROVE  Rest
<1>1. commands = <<>>
  <2>1. SUFFICES ASSUME commands # <<>> PROVE FALSE
    OBVIOUS
  <2>2. Carries(InFlight, responses, commands)
    BY TravelsCarries DEF InFlight, Inv, Typed
  <2>3. 1 \in 1 .. Len(commands) /\ commands[1] = Head(commands) /\ Head(commands) \in Commands
    BY <2>1 DEF Inv, Typed
  <2>4. Len(responses) + 1 \in DOMAIN InFlight /\ InFlight[Len(responses) + 1] = "stop"
    BY <2>1, <2>2, <2>3 DEF Carries, NoMore, StartDue, Commands
  <2> QED BY <2>4 DEF Inv, Orderly
<1>2. phase = "waits"
  BY <1>1 DEF Inv, Serving
<1> QED BY <1>1, <1>2 DEF Quiet, NoMore, Gone, Rest, Reaped

LEMMA RecoverableAtFirst == Init => Recoverable
<1> SUFFICES ASSUME Init PROVE Recoverable
  OBVIOUS
<1>1. /\ commands = <<>> /\ responses = <<>> /\ events = <<>> /\ phase = "waits"
      /\ worker = "none" /\ receiver = "none" /\ stops = 0
  BY DEF Init, EngineInit
<1>2. NoMore /\ Rest /\ Bounded
  BY <1>1 DEF NoMore, Gone, StartDue, Rest, Reaped, WorkerGone, Bounded, Active, Reporting
<1>3. Told
  <2>1. DOMAIN commands = {} /\ DOMAIN responses = {} /\ DOMAIN events = {}
    BY <1>1
  <2> QED BY <1>1, <1>2, <2>1
          DEF Told, Ended, Cleared, StartsFirst, Announced, Queued, Coming, StartDue
<1>4. PICK answer \in {"preparing", "ready"} : shell = AcceptSession(Fresh, answer)
  BY DEF Init
<1>5. Good(shell, TRUE, TRUE)
  BY <1>4, AcceptedFresh
<1>6. NoMore = TRUE /\ Rest = TRUE
  BY <1>2, ParametersBoolean
<1> QED BY <1>1, <1>2, <1>3, <1>5, <1>6 DEF Recoverable

LEMMA NextRecovers ==
  ASSUME Prompt, Inv, Recoverable, [Next]_vars
  PROVE  Recoverable' /\ (ClaimMade /\ stops = 0 => Reaped)
<1>1. /\ Formed(shell) /\ shell.sent = <<>> /\ Bounded /\ stops \in Nat
      /\ NoMore \in BOOLEAN /\ Rest \in BOOLEAN /\ (Rest => NoMore)
  BY ParametersBoolean DEF Inv, Typed, Recoverable
<1>2. ASSUME Bounded', stops' = stops,
             stops = 0 => /\ Told' /\ Good(shell, NoMore, Rest)'
                          /\ Unclaimed(shell, shell')
      PROVE  Recoverable' /\ (ClaimMade /\ stops = 0 => Reaped)
  BY <1>1, <1>2 DEF Recoverable, ClaimMade, Unclaimed
<1>3. ASSUME NEW s, Becomes(s) PROVE Bounded'
  BY <1>1, <1>3 DEF Becomes, Bounded, Active, Reporting, WorkerGone, threadVars, mediaVars
<1>4. ASSUME NEW s, Becomes(s), stops' = stops,
             stops = 0 => Led(s) /\ Unclaimed(shell, s) /\ (StartDue => Steady(shell, s))
      PROVE  Recoverable' /\ (ClaimMade /\ stops = 0 => Reaped)
  <2>1. ASSUME stops = 0
        PROVE  Told' /\ Good(shell, NoMore, Rest)' /\ Unclaimed(shell, shell')
    <3>1. Told' /\ Good(shell, NoMore, Rest)'
      BY <1>4, <2>1, BecomesRecovers DEF Recoverable
    <3>2. shell' = [s EXCEPT !.sent = <<>>] /\ Formed(s)
      BY <1>4, <2>1 DEF Becomes, Led, Good
    <3>3. shell'.calls = s.calls
      BY <3>2
    <3> QED BY <1>4, <2>1, <3>1, <3>3 DEF Unclaimed
  <2> QED BY <1>2, <1>3, <1>4, <2>1
<1>5. ASSUME UNCHANGED <<shell, stops>>, Bounded', Told => Told' /\ (NoMore => NoMore'), ~Rest
      PROVE  Recoverable' /\ (ClaimMade /\ stops = 0 => Reaped)
  <2>1. ASSUME stops = 0
        PROVE  Told' /\ Good(shell, NoMore, Rest)' /\ Unclaimed(shell, shell')
    <3>1. Told' /\ (NoMore => NoMore') /\ Good(shell, NoMore, FALSE)
      BY <1>5, <2>1 DEF Recoverable, Good, Tied
    <3>2. NoMore' \in BOOLEAN /\ Rest' \in BOOLEAN
      BY DEF NoMore, Gone, StartDue, Rest, Reaped, WorkerGone
    <3>3. Good(shell, NoMore', Rest')
      BY <1>1, <3>1, <3>2, Relaxed
    <3> QED BY <1>5, <3>1, <3>3 DEF Unclaimed
  <2> QED BY <1>2, <1>5, <2>1
<1>6. Quiet /\ "stop" \notin shell.calls /\ stops = 0 => (NoMore => Rest)
  BY QuietRests DEF Recoverable
<1>7. CASE Streams \/ Shows \/ StreamerFails
  <2>1. UNCHANGED <<shell, stops>>
    BY <1>7 DEF Streams, Shows, StreamerFails, Trouble, boundVars
  <2>2. CASE EngineStep \/ EngineFails
    <3>1. Bounded' /\ (Told => Told' /\ (NoMore => NoMore') /\ ~Rest)
      BY <1>1, <2>1, <2>2, EngineTells, EngineBounded
    <3>2. CASE Told
      BY <1>5, <2>1, <3>1, <3>2
    <3>3. CASE ~Told
      <4>1. stops # 0
        BY <3>3 DEF Recoverable
      <4> QED BY <1>2, <2>1, <3>1, <4>1
    <3> QED BY <3>2, <3>3
  <2>3. CASE WorkerStep \/ WorkerFails \/ KeyframeAccepted
    BY <1>1, <1>5, <2>1, <2>3, WorkerTells
  <2> QED BY <1>7, <2>2, <2>3 DEF Streams, Shows, StreamerFails, WorkerStep
<1>8. CASE DeliverEvent \/ DeliverResponse \/ PresentationFails
  <2>1. Bounded' /\ stops' = stops
    <3>1. UNCHANGED <<phase, state, current, worker, receiver, stops>>
      BY <1>8 DEF DeliverEvent, DeliverResponse, PresentationFails, Trouble, boundVars,
         engineVars, queueVars, threadVars, mediaVars
    <3> QED BY <1>1, <3>1 DEF Bounded, Active, Reporting, WorkerGone
  <2> QED BY <1>2, <1>8, <2>1, EventRecovers, ResponseRecovers, PresentationRecovers
          DEF Recoverable
<1>9. CASE RestartTimer
  <2> DEFINE t(accepted) == Recover([shell EXCEPT !.timer = FALSE], accepted)
  <2>1. PICK accepted \in BOOLEAN : Becomes(t(accepted)) /\ shell.timer /\ stops' = stops
    BY <1>9 DEF RestartTimer, Handles, Either
  <2>2. ASSUME stops = 0
        PROVE  Led(t(accepted)) /\ Unclaimed(shell, t(accepted)) /\ Steady(shell, t(accepted))
    BY <1>1, <2>1, <2>2, RestartGood DEF Recoverable, Led
  <2> HIDE DEF t
  <2> QED BY <1>4, <2>1, <2>2
<1>10. CASE StopTimer
  <2>1. /\ shell' = StopOverdue(shell) /\ shell.pending /\ "stop" \in shell.calls
        /\ UNCHANGED engineVars /\ stops' = stops
    BY <1>10 DEF StopTimer
  <2> USE DEF engineVars, queueVars, threadVars, mediaVars
  <2>2. /\ NoMore' = NoMore /\ Rest' = Rest /\ Bounded' /\ Gone' = Gone
        /\ StartDue' = StartDue /\ Coming' = Coming /\ WorkerGone' = WorkerGone
    BY <1>1, <2>1 DEF Bounded, Active, Reporting, Gone, StartDue, NoMore, Rest, Reaped, Coming,
       WorkerGone
  <2>4. shell'.streamer = shell.streamer
    BY <1>1, <2>1 DEF StopOverdue
  <2>5. Told => Told'
    BY <2>1, <2>2, <2>4 DEF Told, Ended, Cleared, StartsFirst, Announced, Foretold, Queued
  <2>3. ASSUME stops = 0
        PROVE  Good(shell', NoMore, Rest) /\ Unclaimed(shell, shell')
    BY <1>1, <2>1, <2>3, StopOverdueGood DEF Recoverable
  <2> QED BY <1>2, <2>1, <2>2, <2>3, <2>5 DEF Recoverable
<1>11. CASE Polls
  <2> DEFINE t == Called(shell, "poll")
  <2>1. shell.polling /\ Becomes(t) /\ stops' = stops
    BY <1>11 DEF Polls, boundVars
  <2>2. ASSUME stops = 0 PROVE Led(t) /\ Unclaimed(shell, t) /\ Steady(shell, t)
    BY <1>1, <2>1, <2>2, PollsGood DEF Recoverable, Led
  <2> HIDE DEF t
  <2> QED BY <1>4, <2>1, <2>2
<1>12. CASE ResumeDeadline
  <2> DEFINE t == ScheduleRecovery([shell EXCEPT !.polling = FALSE])
  <2>1. /\ shell.polling /\ shell.session = "resuming" /\ "poll" \notin shell.calls
        /\ Becomes(t) /\ stops' = stops
    BY <1>12 DEF ResumeDeadline, boundVars
  <2>2. ASSUME stops = 0 PROVE Led(t) /\ Unclaimed(shell, t) /\ Steady(shell, t)
    BY <1>1, <2>1, <2>2, DeadlineGood DEF Recoverable, Led
  <2> HIDE DEF t
  <2> QED BY <1>4, <2>1, <2>2
<1>13. CASE UserStops
  <2> DEFINE t(accepted) == StopSession(shell, accepted)
  <2>1. PICK accepted \in BOOLEAN : Becomes(t(accepted)) /\ stops' = stops + 1
    BY <1>13 DEF UserStops, Either
  <2>2. Recoverable'
    BY <1>1, <1>3, <2>1 DEF Recoverable
  <2>3. ASSUME stops = 0 PROVE ~ClaimMade
    <3>1. shell.tries \in Nat
      BY <2>3 DEF Recoverable, Good, Sane
    <3>2. "claim" \notin t(accepted).calls
      BY <1>1, <3>1, StopSessionUnclaimed
    <3>3. shell' = [t(accepted) EXCEPT !.sent = <<>>]
      BY <2>1 DEF Becomes
    <3> HIDE DEF t
    <3>4. shell'.calls = t(accepted).calls
      BY <3>3
    <3> QED BY <3>2, <3>4 DEF ClaimMade
  <2> QED BY <2>2, <2>3
<1>14. CASE UserRetries
  <2> DEFINE t(accepted) == Retry(shell, accepted)
  <2>1. PICK accepted \in BOOLEAN :
          Becomes(t(accepted)) /\ shell.stream = "error" /\ stops' = stops
    BY <1>14 DEF UserRetries, Either
  <2>2. ASSUME stops = 0
        PROVE  Led(t(accepted)) /\ Unclaimed(shell, t(accepted)) /\ Steady(shell, t(accepted))
    BY <1>1, <2>1, <2>2, RetryGood DEF Recoverable, Led
  <2> HIDE DEF t
  <2> QED BY <1>4, <2>1, <2>2
<1>15. CASE AnswerPrepare
  <2>1. "prepare" \in shell.calls /\ stops' = stops
    BY <1>15 DEF AnswerPrepare, Asked, Handles, boundVars
  <2>2. CASE Handles(Prepared(shell, TRUE), Prepared(shell, FALSE))
    <3>1. PICK accepted \in BOOLEAN : Becomes(Prepared(shell, accepted))
      BY <2>2 DEF Handles, Either
    <3>2. ASSUME stops = 0
          PROVE  /\ Led(Prepared(shell, accepted)) /\ Unclaimed(shell, Prepared(shell, accepted))
                 /\ ~StartDue
      <4> DEFINE t == Prepared(shell, TRUE)
                 u == Prepared(shell, FALSE)
      <4>1. Good(shell, NoMore, Rest)
        BY <3>2 DEF Recoverable
      <4>2. Rest
        BY <2>1, <4>1 DEF Good, Tied
      <4>3. /\ Good(t, FALSE, FALSE) /\ Unclaimed(shell, t) /\ t.sent = <<"start">>
            /\ Good(u, TRUE, FALSE) /\ Unclaimed(shell, u) /\ u.sent = <<>>
        BY <1>1, <2>1, <4>1, PreparedGood
      <4> HIDE DEF t, u
      <4>4. NoMore = TRUE /\ Good(u, NoMore, Rest)
        BY <1>1, <4>2, <4>3, Relaxed
      <4>5. Prepared(shell, accepted) = t \/ Prepared(shell, accepted) = u
        BY DEF t, u
      <4>6. ~StartDue
        BY <4>4 DEF NoMore
      <4> QED BY <4>2, <4>3, <4>4, <4>5, <4>6 DEF Led
    <3> QED BY <1>4, <2>1, <3>1, <3>2
  <2>3. CASE Becomes(PrepareFailed(shell))
    <3> DEFINE t == PrepareFailed(shell)
    <3>1. ASSUME stops = 0 PROVE Led(t) /\ Unclaimed(shell, t) /\ ~StartDue
      <4>1. Good(shell, NoMore, Rest)
        BY <3>1 DEF Recoverable
      <4>2. Good(t, TRUE, FALSE) /\ Unclaimed(shell, t) /\ t.sent = <<>>
        BY <1>1, <2>1, <4>1, PrepareFailedGood
      <4>3. NoMore = TRUE
        BY <1>1, <2>1, <4>1 DEF Good, Tied
      <4> HIDE DEF t
      <4>4. Good(t, NoMore, Rest)
        BY <1>1, <4>2, <4>3, Relaxed
      <4>5. ~StartDue
        BY <4>3 DEF NoMore
      <4> QED BY <4>2, <4>4, <4>5 DEF Led
    <3> HIDE DEF t
    <3> QED BY <1>4, <2>1, <2>3, <3>1 DEF t
  <2> QED BY <1>15, <2>2, <2>3 DEF AnswerPrepare
<1>16. CASE AnswerPoll
  <2>1. /\ "poll" \in shell.calls /\ stops' = stops
        /\ stops = 0 => (NoMore /\ "stop" \notin shell.calls => Rest)
    BY <1>6, <1>16 DEF AnswerPoll, Asked, Slow, boundVars
  <2>2. CASE Becomes(PollFailed(shell))
    <3> DEFINE t == PollFailed(shell)
    <3>1. ASSUME stops = 0 PROVE Led(t) /\ Unclaimed(shell, t) /\ Steady(shell, t)
      BY <1>1, <2>1, <3>1, PollFailedGood DEF Recoverable, Led
    <3> HIDE DEF t
    <3> QED BY <1>4, <2>1, <2>2, <3>1 DEF t
  <2>3. ASSUME NEW answer \in Later(shell.session),
               Becomes(AcceptSession(Answered(shell, "poll"), answer))
        PROVE  Recoverable' /\ (ClaimMade /\ stops = 0 => Reaped)
    <3> DEFINE t == AcceptSession(Answered(shell, "poll"), answer)
    <3>1. ASSUME stops = 0 PROVE Led(t) /\ Unclaimed(shell, t) /\ Steady(shell, t)
      BY <1>1, <2>1, <3>1, PolledGood DEF Recoverable, Led
    <3> HIDE DEF t
    <3> QED BY <1>4, <2>1, <2>3, <3>1 DEF t
  <2> QED BY <1>16, <2>2, <2>3 DEF AnswerPoll
<1>17. CASE AnswerDiscover
  <2>1. /\ "discover" \in shell.calls /\ stops' = stops
        /\ stops = 0 => Rest /\ NoMore /\ ~StartDue
    <3>1. "discover" \in shell.calls /\ Quiet /\ stops' = stops
      BY <1>17 DEF AnswerDiscover, Asked, Slow, boundVars
    <3>2. stops = 0 => NoMore /\ "stop" \notin shell.calls
      BY <3>1 DEF Recoverable, Good, Sane, Tied
    <3> QED BY <1>6, <3>1, <3>2 DEF NoMore
  <2>2. CASE Becomes(ScheduleRecovery(Answered(shell, "discover")))
    <3> DEFINE t == ScheduleRecovery(Answered(shell, "discover"))
    <3>1. ASSUME stops = 0 PROVE Led(t) /\ Unclaimed(shell, t)
      BY <1>1, <2>1, <3>1, AnsweredGood DEF Recoverable, Led
    <3> HIDE DEF t
    <3> QED BY <1>4, <2>1, <2>2, <3>1 DEF t
  <2>3. ASSUME NEW found \in BOOLEAN, Becomes(Discovered(shell, found))
        PROVE  Recoverable' /\ (ClaimMade /\ stops = 0 => Reaped)
    <3>1. ASSUME stops = 0 PROVE Led(Discovered(shell, found)) /\ Rest
      BY <1>1, <2>1, <3>1, DiscoveredGood DEF Recoverable, Led, Good, Tied
    <3>2. Recoverable'
      BY <1>3, <1>1, <2>1, <2>3, <3>1, BecomesRecovers DEF Recoverable
    <3> QED BY <3>1, <3>2 DEF Rest
  <2> QED BY <1>17, <2>2, <2>3 DEF AnswerDiscover
<1>18. CASE AnswerClaim
  <2>1. /\ "claim" \in shell.calls /\ stops' = stops
        /\ stops = 0 => Rest /\ NoMore /\ ~StartDue
    <3>1. "claim" \in shell.calls /\ Quiet /\ stops' = stops
      BY <1>18 DEF AnswerClaim, Asked, Slow, boundVars
    <3>2. stops = 0 => NoMore /\ "stop" \notin shell.calls
      BY <3>1 DEF Recoverable, Good, Sane, Tied
    <3> QED BY <1>6, <3>1, <3>2 DEF NoMore
  <2>2. CASE Becomes(ScheduleRecovery(Answered(shell, "claim")))
    <3> DEFINE t == ScheduleRecovery(Answered(shell, "claim"))
    <3>1. ASSUME stops = 0 PROVE Led(t) /\ Unclaimed(shell, t)
      BY <1>1, <2>1, <3>1, AnsweredGood DEF Recoverable, Led
    <3> HIDE DEF t
    <3> QED BY <1>4, <2>1, <2>2, <3>1 DEF t
  <2>3. ASSUME NEW answer \in {"ready", "resuming"}, Becomes(Claimed(shell, answer))
        PROVE  Recoverable' /\ (ClaimMade /\ stops = 0 => Reaped)
    <3> DEFINE t == Claimed(shell, answer)
    <3>1. ASSUME stops = 0 PROVE Led(t) /\ Unclaimed(shell, t)
      BY <1>1, <2>1, <3>1, ClaimedGood DEF Recoverable, Led
    <3> HIDE DEF t
    <3> QED BY <1>4, <2>1, <2>3, <3>1 DEF t
  <2> QED BY <1>18, <2>2, <2>3 DEF AnswerClaim
<1>19. CASE AnswerEnd
  <2>1. "end" \in shell.calls /\ stops' = stops
    BY <1>19 DEF AnswerEnd, Asked, Handles, boundVars
  <2>2. stops # 0
    BY <2>1 DEF Recoverable, Good, Sane
  <2>3. PICK s : Becomes(s)
    BY <1>19 DEF AnswerEnd, Handles, Either
  <2> QED BY <1>1, <1>3, <2>1, <2>2, <2>3 DEF Recoverable
<1>20. CASE UNCHANGED vars
  <2>1. UNCHANGED <<shell, stops>> /\ UNCHANGED engineVars
    BY <1>20 DEF vars, boundVars
  <2> USE DEF engineVars, queueVars, threadVars, mediaVars
  <2>2. /\ NoMore' = NoMore /\ Rest' = Rest /\ Bounded' /\ Gone' = Gone
        /\ StartDue' = StartDue /\ Coming' = Coming /\ WorkerGone' = WorkerGone
    BY <1>1, <2>1 DEF Bounded, Active, Reporting, Gone, StartDue, NoMore, Rest, Reaped, Coming,
       WorkerGone
  <2>3. Told => Told'
    BY <2>1, <2>2 DEF Told, Ended, Cleared, StartsFirst, Announced, Foretold, Queued
  <2> QED BY <1>2, <2>1, <2>2, <2>3 DEF Recoverable, Unclaimed
<1> QED BY <1>7, <1>8, <1>9, <1>10, <1>11, <1>12, <1>13, <1>14, <1>15,
           <1>16, <1>17, <1>18, <1>19, <1>20 DEF Next

\* A recovery claims the session again only after the old transport has been
\* stopped, however long a start or a stop takes, whatever fails and however
\* often the user retries, until the user ends the session
\* (recoverStreamingSession), when what the streamer has said is heard before
\* an answer of the core.
THEOREM RecoveryStopsFirst == ASSUME Prompt PROVE Spec => RecoversAfterStop
<1>1. Init => Recoverable
  BY RecoverableAtFirst
<1>2. Inv /\ Recoverable /\ [Next]_vars => Recoverable'
  BY NextRecovers
<1>3. Inv /\ Recoverable /\ [Next]_vars => [ClaimMade /\ stops = 0 => Reaped]_vars
  BY NextRecovers
<1> QED BY <1>1, <1>2, <1>3, SessionIsOrderly, PTL DEF Spec, RecoversAfterStop
=============================================================================
