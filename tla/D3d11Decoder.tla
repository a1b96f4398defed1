---------------------------- MODULE D3d11Decoder ----------------------------
\* The embedded Direct3D 11 path behind the video queue: the staging queue of
\* EmbeddedD3d11Submission, the queue and the worker of the decoder of one
\* graphics device, and the render thread that adopts the device.
EXTENDS Naturals, Sequences

CONSTANT DecoderCap   \* ADAPTIVE_VIDEO_QUEUE_CAPACITY
ASSUME DecoderCapAssumption == DecoderCap \in Nat \ {0}

VARIABLES
  staged,    \* EmbeddedD3d11Submission.pending
  adopted,   \* a producer and its submitter are installed
  encoded,   \* compressed queue of the decoder
  recovers,  \* the decoder worker is in wait_for_recovery_keyframe
  next,      \* pending_frame of the decoder worker, or <<>>
  fed,       \* what the decoder took last, or <<>>; submitted_any
  lost,      \* a KeyFrameRequired is among the events of the decoder
  required,  \* EmbeddedD3d11State.keyframe_required
  context,   \* the scene graph has a graphics context
  bound,     \* SceneGraphState.resources is this session's
  token      \* SceneGraphState.latest: a frame for the render thread

stagingVars == <<staged, adopted>>
workerVars == <<encoded, recovers, next, fed, lost>>
sceneVars == <<required, context, bound, token>>
decoderVars == <<stagingVars, workerVars, sceneVars>>

DecoderInit ==
  /\ staged = <<>> /\ adopted = FALSE
  /\ encoded = <<>> /\ recovers = FALSE /\ next = <<>> /\ fed = <<>> /\ lost = FALSE
  /\ required = FALSE /\ context = FALSE /\ bound = FALSE /\ token = FALSE

\* EmbeddedD3d11FrameNotifier::publish; without a context nothing is told.
Publish == token' = (token \/ context)

-----------------------------------------------------------------------------
\* The submit worker.

\* push_or_clear_on_overflow, and the same rule of the staging queue.
Full(queue) == Len(queue) = DecoderCap
Pushed(queue, packet) ==
  IF ~Full(queue) THEN Append(queue, packet)
  ELSE IF packet.key THEN <<packet>> ELSE <<>>

Overflows == Full(IF adopted THEN encoded ELSE staged)
Taken(packet) == ~Overflows \/ packet.key

\* EmbeddedD3d11Submission::push, then publish_initial.
Stage(packet) ==
  /\ IF adopted
     THEN encoded' = Pushed(encoded, packet) /\ UNCHANGED <<staged, token>>
     ELSE /\ staged' = Pushed(staged, packet)
          /\ IF Taken(packet) THEN Publish ELSE UNCHANGED token
          /\ UNCHANGED encoded
  /\ UNCHANGED <<adopted, recovers, next, fed, lost, required, context, bound>>

-----------------------------------------------------------------------------
\* The decoder worker.

\* The decoder is lost: a keyframe is asked for and waited for.
LoseDecoder ==
  /\ recovers' = TRUE /\ next' = <<>> /\ fed' = <<>> /\ lost' = TRUE
  /\ Publish
  /\ UNCHANGED <<stagingVars, required, context, bound>>

PollFails == adopted /\ ~recovers /\ encoded' = <<>> /\ LoseDecoder

Input == IF next # <<>> THEN next ELSE encoded
Behind == IF next # <<>> THEN encoded ELSE Tail(encoded)
HasInput == adopted /\ ~recovers /\ Input # <<>>
Resets == Head(Input).reset /\ fed # <<>>

Feed ==
  /\ HasInput /\ ~Resets
  /\ fed' = <<Head(Input)>>
  /\ next' = <<>> /\ encoded' = Behind
  /\ UNCHANGED <<stagingVars, recovers, lost, sceneVars>>

FeedFails == HasInput /\ ~Resets /\ encoded' = <<>> /\ LoseDecoder

\* A new decoder for a packet that begins a new chain.
ResetDecoder ==
  /\ HasInput /\ Resets
  /\ next' = <<Head(Input)>> /\ encoded' = Behind /\ fed' = <<>>
  /\ UNCHANGED <<stagingVars, recovers, lost, sceneVars>>

ResetFails == HasInput /\ Resets /\ encoded' = Behind /\ LoseDecoder

\* wait_for_recovery_keyframe
Skip ==
  /\ adopted /\ recovers /\ encoded # <<>> /\ ~Head(encoded).key
  /\ encoded' = Tail(encoded)
  /\ UNCHANGED <<stagingVars, recovers, next, fed, lost, sceneVars>>

RecoverDecoder ==
  /\ adopted /\ recovers /\ encoded # <<>> /\ Head(encoded).key
  /\ recovers' = FALSE
  /\ next' = <<Head(encoded)>> /\ encoded' = Tail(encoded)
  /\ Publish
  /\ UNCHANGED <<stagingVars, fed, lost, required, context, bound>>

RecoverFails ==
  /\ adopted /\ recovers /\ encoded # <<>> /\ Head(encoded).key
  /\ encoded' = Tail(encoded)
  /\ LoseDecoder

-----------------------------------------------------------------------------
\* The render thread. Whether Record raises the alarm is told by Alarmed.

\* PendingD3d11Frame::record and EmbeddedD3d11State::record: the first one
\* adopts the device and installs the staged packets; each drains the events.
Alarmed_EventsOnly == adopted /\ lost
Alarmed == required \/ (adopted /\ lost)

Record ==
  /\ context /\ token
  /\ token' = FALSE /\ bound' = TRUE /\ required' = FALSE
  /\ lost' = FALSE
  /\ adopted' = TRUE
  /\ IF adopted THEN UNCHANGED <<staged, encoded>>
     ELSE staged' = <<>> /\ encoded' = staged
  /\ UNCHANGED <<recovers, next, fed, context>>

\* The device cannot be adopted.
RecordFails ==
  /\ context /\ token /\ ~adopted
  /\ token' = FALSE /\ bound' = TRUE /\ required' = FALSE
  /\ UNCHANGED <<stagingVars, workerVars, context>>

\* RenderThreadGraphics::initialize
SceneStart ==
  /\ ~context /\ context' = TRUE
  /\ UNCHANGED <<stagingVars, workerVars, required, bound, token>>

\* RenderThreadGraphics::shutdown; retire lets go of the decoder.
SceneShutdown ==
  /\ context
  /\ context' = FALSE /\ token' = FALSE /\ bound' = FALSE
  /\ IF bound
     THEN /\ staged' = <<>> /\ adopted' = FALSE
          /\ encoded' = <<>> /\ recovers' = FALSE /\ next' = <<>>
          /\ fed' = <<>> /\ lost' = FALSE
          /\ required' = TRUE
     ELSE UNCHANGED <<stagingVars, workerVars, required>>
=============================================================================
