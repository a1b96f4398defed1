---------------------------- MODULE NvstReceiver ----------------------------
\* NvstVideoReceiver between a server, a network that loses and reorders
\* packets, and the frames it hands over. The server numbers the packets of a
\* stream of Frames frames from 0; each frame has FrameSize packets.
EXTENDS RtpReorder, NvstFeedback

CONSTANTS Frames, FrameSize, MaxTrouble
ASSUME StreamAssumption ==
  Frames \in Nat \ {0} /\ FrameSize \in Nat \ {0} /\ MaxTrouble \in Nat

VARIABLES
  sent,        \* how many packets of the stream the server has sent
  keys,        \* the frames it has sent as keyframes
  net,         \* the packets on their way
  state,       \* NvstReceiverState
  seen,        \* the packets the replay window has accepted
  ready,       \* what process_datagram has still to assemble
  open,        \* current_frame of the assembler
  bytes,       \* the packets of it
  last, contiguous, needed,  \* as in FrameSource
  trouble      \* bounds pauses, timeouts and unusable packets

serverVars == <<sent, keys, net>>
assemblerVars == <<ready, open, bytes>>
handedVars == <<last, contiguous, needed>>
vars == <<reorderVars, feedbackVars, serverVars, state, seen, assemblerVars,
          handedVars, trouble>>

Total == Frames * FrameSize
FrameOf(p) == p \div FrameSize
First(f) == f * FrameSize
StartOfFrame(p) == p % FrameSize = 0
EndOfFrame(p) == p % FrameSize = FrameSize - 1

NoFrame == Frames + 1

Source == INSTANCE FrameSource WITH Cycle <- Frames + 1

Init ==
  /\ ReorderInit /\ FeedbackInit
  /\ sent = 0 /\ keys = {} /\ net = {}
  /\ state = "Running" /\ seen = {}
  /\ ready = <<>> /\ open = None /\ bytes = <<>>
  /\ last = NoFrame /\ contiguous = TRUE /\ needed = TRUE
  /\ trouble = 0

-----------------------------------------------------------------------------
\* The server and the network.

\* The first frame is a keyframe, and so is one that was asked for.
Serve ==
  /\ sent < Total
  /\ sent' = sent + 1
  /\ net' = net \cup {sent}
  /\ IF StartOfFrame(sent)
     THEN /\ \E key \in BOOLEAN :
               /\ asked \/ sent = 0 => key
               /\ keys' = IF key THEN keys \cup {FrameOf(sent)} ELSE keys
          /\ asked' = FALSE
     ELSE UNCHANGED <<keys, asked>>
  /\ UNCHANGED <<reorderVars, nacks, cooled, state, seen, assemblerVars,
                 handedVars, trouble>>

Lose(p) ==
  /\ p \in net
  /\ net' = net \ {p}
  /\ UNCHANGED <<reorderVars, feedbackVars, sent, keys, state, seen,
                 assemblerVars, handedVars, trouble>>

-----------------------------------------------------------------------------
\* The receive thread.

\* invalidate_picture
Invalidate == open' = None /\ bytes' = <<>> /\ contiguous' = FALSE /\ needed' = TRUE

\* process_datagram up to its loop over the ready packets.
Receive(p) ==
  /\ ready = <<>>
  /\ p \in net
  /\ net' = net \ {p}
  /\ IF state # "Running" \/ p \in seen
     THEN UNCHANGED <<reorderVars, nacks, seen, assemblerVars, contiguous, needed>>
     ELSE /\ seen' = seen \cup {p}
          /\ LET left == Resolved(nacks, p)
                 result == Pushed(p)
             IN IF Stale(p)
                THEN /\ nacks' = left
                     /\ UNCHANGED <<reorderVars, assemblerVars, contiguous, needed>>
                ELSE /\ Push(result)
                     /\ ready' = result.ready
                     /\ IF result.gap
                        THEN nacks' = <<>> /\ Invalidate
                        ELSE UNCHANGED <<open, bytes, contiguous, needed>>
                     /\ ~result.gap =>
                          nacks' = IF result.nack = <<>> THEN left
                                   ELSE Requested(left, result.nack[1], result.nack[2])
  /\ UNCHANGED <<cooled, asked, sent, keys, state, last, trouble>>

\* The start of a frame cuts off the one that is open.
Cut(p) == StartOfFrame(p) /\ open # None /\ open # FrameOf(p)

\* A packet that is no start belongs right behind the last one of its frame.
Joins(p) == StartOfFrame(p) \/ (open = FrameOf(p) /\ bytes[Len(bytes)] + 1 = p)

\* publish_completed_frame: a keyframe ends a request for one.
StillNeeded_Rearms(asks, f) == f \notin keys
StillNeeded(asks, f) == asks /\ f \notin keys

\* One turn of that loop.
Assemble ==
  /\ ready # <<>>
  /\ ready' = Tail(ready)
  /\ LET p == Head(ready)
         f == FrameOf(p)
         asks == needed \/ Cut(p)
     IN /\ nacks' = IF Cut(p) THEN <<>> ELSE nacks
        /\ IF ~Joins(p)
           THEN Invalidate /\ UNCHANGED last
           ELSE IF EndOfFrame(p)
           THEN /\ last' = f
                /\ contiguous' = TRUE
                /\ needed' = StillNeeded(asks, f)
                /\ open' = None
                /\ bytes' = <<>>
           ELSE /\ open' = f
                /\ bytes' = IF StartOfFrame(p) THEN <<p>> ELSE Append(bytes, p)
                /\ contiguous' = (contiguous /\ ~Cut(p))
                /\ needed' = asks
                /\ UNCHANGED last
  /\ UNCHANGED <<reorderVars, cooled, asked, serverVars, state, seen, trouble>>

\* The same with a packet that does not parse, or does not fit.
Unusable ==
  /\ ready # <<>>
  /\ trouble < MaxTrouble
  /\ trouble' = trouble + 1
  /\ ready' = Tail(ready)
  /\ Invalidate
  /\ UNCHANGED <<reorderVars, feedbackVars, serverVars, state, seen, last>>

\* reset_media_state, under pause, resume, recover, stop and poll_timeout.
ResetTo(s) ==
  /\ ready = <<>>
  /\ state' = s
  /\ ReorderReset
  /\ open' = None /\ bytes' = <<>> /\ contiguous' = FALSE
  /\ UNCHANGED <<feedbackVars, serverVars, seen, ready, last, needed>>

Pause == /\ state = "Running" /\ trouble < MaxTrouble /\ trouble' = trouble + 1
         /\ ResetTo("Paused")
Resume == state = "Paused" /\ ResetTo("Running") /\ UNCHANGED trouble
PollTimeout == /\ state = "Running" /\ trouble < MaxTrouble /\ trouble' = trouble + 1
               /\ ResetTo("RecoveryRequired")
Recover == state = "RecoveryRequired" /\ ResetTo("Running") /\ UNCHANGED trouble
Stop == /\ state # "Stopped" /\ trouble < MaxTrouble /\ trouble' = trouble + 1
        /\ ResetTo("Stopped")

\* The reorder buffer's clock.
GapWaitPasses ==
  /\ GapGetsLate
  /\ UNCHANGED <<feedbackVars, serverVars, state, seen, assemblerVars, handedVars, trouble>>

-----------------------------------------------------------------------------
\* The bundle thread.

\* A NACK is sent, and the server sends the packets again.
SendNack(k, old) ==
  LET ns == Kept(old)
      part == Part(ns[k])
  IN /\ old \subseteq Range(nacks)
     /\ k \in DOMAIN ns
     /\ Due(ns, k)
     /\ \E written \in BOOLEAN :
          /\ nacks' = Taken(ns, k, written)
          /\ net' = IF written THEN net \cup {p \in part.first .. part.last : p < sent}
                    ELSE net
     /\ UNCHANGED <<reorderVars, cooled, asked, sent, keys, state, seen,
                    assemblerVars, handedVars, trouble>>

Ask ==
  /\ AskForKeyframe(needed)
  /\ UNCHANGED <<reorderVars, serverVars, state, seen, assemblerVars, handedVars, trouble>>

Cooled ==
  /\ CooldownPasses
  /\ UNCHANGED <<reorderVars, serverVars, state, seen, assemblerVars, handedVars, trouble>>

\* Other threads ask for a keyframe too (FrameSource's RequestKeyframe).
RequestKeyframe ==
  /\ ~needed /\ needed' = TRUE
  /\ UNCHANGED <<reorderVars, feedbackVars, serverVars, state, seen, assemblerVars,
                 last, contiguous, trouble>>

Next ==
  \/ Serve
  \/ \E p \in net : Lose(p) \/ Receive(p)
  \/ Assemble \/ Unusable
  \/ Pause \/ Resume \/ PollTimeout \/ Recover \/ Stop
  \/ GapWaitPasses
  \/ \E k \in DOMAIN nacks, old \in SUBSET Range(nacks) : SendNack(k, old)
  \/ Ask \/ Cooled \/ RequestKeyframe

Spec == Init /\ [][Next]_vars

-----------------------------------------------------------------------------
TypeOK ==
  /\ nextIndex \in -1 .. Total /\ packets \subseteq 0 .. Total - 1
  /\ state \in {"Running", "Paused", "RecoveryRequired", "Stopped"}
  /\ net \subseteq 0 .. sent - 1 /\ seen \subseteq 0 .. sent - 1
  /\ open \in -1 .. Frames - 1 /\ last \in 0 .. NoFrame
  /\ {contiguous, needed, cooled, asked} \subseteq BOOLEAN

\* What is buffered waits behind a gap whose clock runs, and neither the
\* packets nor the gap fill the window: nothing stays in the buffer that the
\* next packet or the end of the wait would not release ("first_available >
\* expected").
GapIsWaitedFor ==
  packets # {} => /\ gapWait.for = nextIndex
                  /\ \A p \in packets : p > nextIndex
                  /\ \E p \in packets : p - nextIndex < MaxPackets
                  /\ Cardinality(packets) < MaxPackets

\* No retransmission is asked for of a packet that is buffered or that waits
\* to be assembled ("Only NACK sequence numbers that are genuinely absent").
NacksAreAbsent ==
  \A k \in DOMAIN nacks :
    (nacks[k].first .. nacks[k].last) \cap (packets \cup Range(ready)) = {}

\* While the next frame would be called contiguous, nothing between it and
\* the frame before has been passed over ("Never let the following P-frame
\* look contiguous to the decoder").
NoSilentLoss ==
  LET upcoming == IF ready = <<>> THEN nextIndex ELSE Head(ready)
  IN contiguous /\ last # NoFrame => upcoming <= First(last + 1) \/ open = last + 1

\* Frames are handed over in order, and one that is called contiguous
\* follows the frame before it; only a keyframe ends a request for one.
HandsOver == Source!SourceSpec
=============================================================================
