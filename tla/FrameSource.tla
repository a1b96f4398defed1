---------------------------- MODULE FrameSource ----------------------------
\* What the video receiver promises to those behind it: it hands over frames
\* in the order of the stream, and calls one contiguous only when it has
\* handed over the frame right before it. Frames are numbered modulo Cycle;
\* a delta frame refers to the frame before it, a keyframe to none.
EXTENDS Naturals

CONSTANT Cycle
ASSUME CycleAssumption == Cycle \in Nat \ {0}

VARIABLES
  last,        \* the frame handed over last, or NoFrame
  contiguous,  \* next_frame_contiguous
  needed       \* keyframe_needed

sourceVars == <<last, contiguous, needed>>

NoFrame == Cycle
After(n) == (n + 1) % Cycle

\* The receiver starts wherever the stream is, and with a request armed.
SourceInit == last = NoFrame /\ contiguous = TRUE /\ needed = TRUE

\* Frame n is complete. Frames between last and n are lost.
Hand(n, key) ==
  /\ contiguous => last = NoFrame \/ n = After(last)
  /\ last' = n
  /\ contiguous' = TRUE
  /\ needed' = (needed /\ ~key)

\* Data is lost, or can no longer belong to a whole frame.
Invalidate == contiguous' = FALSE /\ needed' = TRUE /\ UNCHANGED last

\* A pause, a timeout or a recovery forgets the frame under assembly.
ResetMedia == contiguous' = FALSE /\ UNCHANGED <<last, needed>>

\* request_keyframe, from anywhere in the process.
RequestKeyframe == needed' = TRUE /\ UNCHANGED <<last, contiguous>>

SourceNext ==
  \/ \E n \in 0 .. Cycle - 1, key \in BOOLEAN : Hand(n, key)
  \/ Invalidate \/ ResetMedia \/ RequestKeyframe

SourceSpec == SourceInit /\ [][SourceNext]_sourceVars
=============================================================================
