---------------------------- MODULE VideoDelivery ----------------------------
\* Frames from the receiver to the decoder, and the requests for a keyframe
\* that go back: the receive thread, the pump, the submit worker, the decoder
\* worker, the render thread, the session thread and the bundle thread.
EXTENDS FrameSource, VideoQueue, D3d11Decoder

CONSTANTS IngressCap,  \* ENCODED_MEDIA_QUEUE_CAPACITY
          MaxTrouble,  \* losses of any kind, and failures of the decoder
          MaxScenes    \* graphics contexts
ASSUME DeliveryAssumption ==
  IngressCap \in Nat \ {0} /\ MaxTrouble \in Nat /\ MaxScenes \in Nat \ {0}

VARIABLES
  asked,     \* the server has a request it has not answered
  gap,       \* delivery_gap
  ingress,   \* the bounded channel to the pump
  requests,  \* a request for a keyframe is on its way to the session thread
  alarms,    \* the threads that are about to call invalidate_embedded_video
  trouble, scenes

linkVars == <<asked, gap, ingress, requests>>
boundVars == <<trouble, scenes>>
vars == <<sourceVars, queueVars, decoderVars, linkVars, alarms, boundVars>>

Init ==
  /\ SourceInit /\ QueueInit /\ DecoderInit
  /\ asked = FALSE /\ gap = FALSE /\ ingress = <<>> /\ requests = FALSE
  /\ alarms = {} /\ trouble = 0 /\ scenes = 0

Trouble == trouble < MaxTrouble /\ trouble' = trouble + 1 /\ UNCHANGED scenes

-----------------------------------------------------------------------------
\* The receive thread: a frame is complete, and goes into the channel or is
\* dropped (forward_receive_event). A requested keyframe comes next.
Deliver_Untold(n, key) ==
  LET full == Len(ingress) = IngressCap
  IN /\ gap' = full
     /\ ingress' = IF full THEN ingress
                   ELSE Append(ingress, [n |-> n, key |-> key,
                                         contiguous |-> contiguous /\ ~gap])
     /\ requests' = requests
     /\ IF full THEN Trouble ELSE UNCHANGED boundVars

Deliver(n, key) ==
  LET full == Len(ingress) = IngressCap
  IN /\ gap' = full
     /\ ingress' = IF full THEN ingress
                   ELSE Append(ingress, [n |-> n, key |-> key,
                                         contiguous |-> contiguous /\ ~gap])
     /\ requests' = (requests \/ full)
     /\ IF full THEN Trouble ELSE UNCHANGED boundVars

Frame(n, key) ==
  /\ Hand(n, key)
  /\ asked => key
  /\ asked' = (asked /\ ~key)
  /\ Deliver(n, key)
  /\ UNCHANGED <<queueVars, decoderVars, alarms>>

\* Packets are lost, those of a requested keyframe among them.
Loss ==
  /\ Invalidate
  /\ asked' \in {asked, FALSE}
  /\ Trouble
  /\ UNCHANGED <<queueVars, decoderVars, gap, ingress, requests, alarms>>

\* The bundle thread.
Ask ==
  /\ needed /\ ~asked
  /\ asked' = TRUE
  /\ UNCHANGED <<sourceVars, queueVars, decoderVars, gap, ingress, requests, alarms, boundVars>>

\* The session thread.
Forward ==
  /\ requests
  /\ requests' = FALSE
  /\ RequestKeyframe
  /\ UNCHANGED <<queueVars, decoderVars, asked, gap, ingress, alarms, boundVars>>

-----------------------------------------------------------------------------
\* The pump (consume_encoded_media, MediaSink::push_video).
Pump ==
  /\ ingress # <<>>
  /\ ingress' = Tail(ingress)
  /\ LET frame == Head(ingress)
     IN /\ QueuePush(frame)
        /\ requests' = (requests \/ AsksForKey(frame))
        /\ IF Invalidates(frame) /\ frame.contiguous THEN Trouble
           ELSE UNCHANGED boundVars
  /\ UNCHANGED <<sourceVars, decoderVars, asked, gap, alarms>>

\* The submit worker.
Pop ==
  /\ "worker" \notin alarms
  /\ QueuePop
  /\ UNCHANGED <<sourceVars, decoderVars, linkVars, alarms, boundVars>>

Submit ==
  /\ hand # <<>>
  /\ hand' = <<>>
  /\ LET packet == hand[1].packet
     IN IF ~hand[1].current THEN UNCHANGED <<decoderVars, alarms, boundVars>>
        ELSE /\ Stage(packet)
             /\ alarms' = IF Taken(packet) THEN alarms ELSE alarms \cup {"worker"}
             /\ IF adopted /\ Overflows THEN Trouble ELSE UNCHANGED boundVars
  /\ UNCHANGED <<sourceVars, queued, waiting, pending, linkVars>>

\* invalidate_embedded_video
InvalidateVideo(thread) ==
  /\ thread \in alarms
  /\ alarms' = alarms \ {thread}
  /\ QueueClear
  /\ requests' = TRUE
  /\ UNCHANGED <<sourceVars, decoderVars, asked, gap, ingress, boundVars>>

\* The decoder worker.
DecoderStep ==
  /\ Feed \/ ResetDecoder \/ Skip \/ RecoverDecoder
  /\ UNCHANGED <<sourceVars, queueVars, linkVars, alarms, boundVars>>

DecoderFails ==
  /\ PollFails \/ FeedFails \/ ResetFails \/ RecoverFails
  /\ Trouble
  /\ UNCHANGED <<sourceVars, queueVars, linkVars, alarms>>

\* The render thread.
Alarm == alarms' = IF Alarmed THEN alarms \cup {"render"} ELSE alarms

Render ==
  /\ "render" \notin alarms
  /\ Record
  /\ Alarm
  /\ UNCHANGED <<sourceVars, queueVars, linkVars, boundVars>>

RenderFails ==
  /\ "render" \notin alarms
  /\ RecordFails
  /\ Alarm
  /\ Trouble
  /\ UNCHANGED <<sourceVars, queueVars, linkVars>>

StartScene ==
  /\ scenes < MaxScenes
  /\ scenes' = scenes + 1
  /\ SceneStart
  /\ UNCHANGED <<sourceVars, queueVars, linkVars, alarms, trouble>>

ShutdownScene ==
  /\ "render" \notin alarms
  /\ scenes < MaxScenes
  /\ SceneShutdown
  /\ UNCHANGED <<sourceVars, queueVars, linkVars, alarms, boundVars>>

Next ==
  \/ \E n \in 0 .. Cycle - 1, key \in BOOLEAN : Frame(n, key)
  \/ Loss \/ Ask \/ Forward \/ Pump \/ Pop \/ Submit
  \/ \E thread \in {"worker", "render"} : InvalidateVideo(thread)
  \/ DecoderStep \/ DecoderFails \/ Render \/ RenderFails
  \/ StartScene \/ ShutdownScene

Spec == Init /\ [][Next]_vars

\* Every thread goes on, and the server goes on sending.
Fairness ==
  /\ WF_vars(\E n \in 0 .. Cycle - 1, key \in BOOLEAN : Frame(n, key))
  /\ WF_vars(Ask) /\ WF_vars(Forward) /\ WF_vars(Pump) /\ WF_vars(Pop)
  /\ WF_vars(Submit) /\ WF_vars(DecoderStep) /\ WF_vars(Render)
  /\ WF_vars(StartScene)
  /\ \A thread \in {"worker", "render"} : WF_vars(InvalidateVideo(thread))

FairSpec == Spec /\ Fairness

-----------------------------------------------------------------------------
Packets == [n : 0 .. Cycle - 1, key : BOOLEAN, reset : BOOLEAN]

TypeOK ==
  /\ last \in 0 .. Cycle
  /\ Len(ingress) <= IngressCap
  /\ queued \in UNION {[1 .. k -> Packets] : k \in 0 .. QueueCap}
  /\ \A queue \in {staged, encoded} : queue \in UNION {[1 .. k -> Packets] : k \in 0 .. DecoderCap}
  /\ \A one \in {next, fed} : one = <<>> \/ one[1] \in Packets
  /\ alarms \subseteq {"worker", "render"}
  /\ {contiguous, needed, asked, gap, requests, waiting, pending, adopted, recovers,
      lost, required, context, bound, token} \subseteq BOOLEAN

Follows(packet, before) == packet.key \/ packet.n = After(before.n)

\* What waits for the worker is one chain that a keyframe began: no overflow,
\* gap or invalidation leaves a packet behind whose reference is gone.
QueueIsOneChain ==
  \A k \in 2 .. Len(queued) : Follows(queued[k], queued[k - 1])

\* The decoder is given a delta frame without the frame it refers to.
Breaks == /\ fed' # fed /\ fed' # <<>>
          /\ fed = <<>> \/ ~Follows(fed'[1], fed[1])
          /\ ~fed'[1].key

\* When the chain breaks because the graphics device went, a keyframe is on
\* its way to the decoder or will be asked for.
Mending ==
  \/ required \/ alarms # {} \/ waiting
  \/ \E k \in DOMAIN encoded : encoded[k].reset
  \/ \E k \in DOMAIN queued : queued[k].reset
  \/ \E k \in DOMAIN hand : hand[k].packet.reset
BreakIsMended == [][Breaks => Mending]_vars

\* Whatever was lost, the picture comes back.
PictureReturns == (waiting \/ recovers) ~> (~waiting /\ ~recovers /\ fed # <<>>)
=============================================================================
