--------------------------- MODULE MCVideoDelivery ---------------------------
\* Bounds of the way of a frame: short queues, so that each of them is full
\* now and then.
EXTENDS VideoDelivery
=============================================================================
