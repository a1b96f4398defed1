------------------------- MODULE StreamPresentation -------------------------
\* NativeStreamRuntime on the GUI thread: whether frames are shown and input
\* is captured. The identifier of a start only tells whether its answer still
\* counts, so it is the flag "awaited".
EXTENDS Naturals, Sequences

VARIABLES
  shown,    \* presentationAllowed, and with it inputAllowed
  awaited   \* presentationStartId is that of the last start

presentationVars == <<shown, awaited>>

PresentationInit == shown = FALSE /\ awaited = FALSE

\* sendBytes with the commands a handler has sent, in their order
Sends(sent) ==
  IF sent = <<>> THEN UNCHANGED presentationVars
  ELSE shown' = FALSE /\ awaited' = (sent[Len(sent)] = "start")

\* invalidatePresentation, resetInputCapture
Invalidate == shown' = FALSE /\ awaited' = FALSE

\* drainCallbacks, before the shell is told
ShowsEvent(event) ==
  IF event \in {"error", "stopped"} THEN Invalidate ELSE UNCHANGED presentationVars

ShowsResponse_AnyStart(response) ==
  IF response.to = "start"
  THEN shown' = (response.type = "ok") /\ awaited' = FALSE
  ELSE UNCHANGED presentationVars

ShowsResponse(response) ==
  IF awaited /\ response.to = "start"
  THEN shown' = (response.type = "ok") /\ awaited' = FALSE
  ELSE UNCHANGED presentationVars
=============================================================================
