--------------------------- MODULE MCStreamSession ---------------------------
\* Bounds of a streaming session: the limits of the code are small here, so
\* that they are reached.
EXTENDS StreamSession
=============================================================================
