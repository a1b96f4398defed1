--------------------------- MODULE MCNvstReceiver ---------------------------
\* Bounds of the receiver: a short stream in which every packet may be lost,
\* overtaken and sent again.
EXTENDS NvstReceiver
=============================================================================
