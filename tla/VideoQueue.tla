----------------------------- MODULE VideoQueue -----------------------------
\* VideoQueue: compressed video between the pump and the submit worker. What
\* is lost here takes everything with it that depends on it. A generation only
\* serves to tell whether the packet the worker holds is still wanted, so it
\* is the flag "current" of that packet.
EXTENDS Naturals, Sequences

CONSTANT QueueCap   \* VIDEO_QUEUE_CAPACITY
ASSUME QueueCapAssumption == QueueCap \in Nat \ {0}

VARIABLES
  queued,   \* State.frames
  waiting,  \* waiting_for_keyframe
  pending,  \* request_pending
  hand      \* the packet the worker has popped and not submitted, or <<>>

queueVars == <<queued, waiting, pending, hand>>

QueueInit == queued = <<>> /\ waiting = TRUE /\ pending = FALSE /\ hand = <<>>

Packet(frame, reset) == [n |-> frame.n, key |-> frame.key, reset |-> reset]

\* The packet in the worker's hand, after its generation has passed.
Outdated == [k \in DOMAIN hand |-> [hand[k] EXCEPT !.current = FALSE]]

\* The push of a frame: whether it invalidates what is queued, and whether
\* it is refused because a keyframe is waited for.
Invalidates_IgnoresGap(frame) == ~waiting /\ Len(queued) = QueueCap
Invalidates(frame) == ~waiting /\ (~frame.contiguous \/ Len(queued) = QueueCap)
Refuses(frame) == (waiting \/ Invalidates(frame)) /\ ~frame.key
AsksForKey(frame) == Refuses(frame) /\ (Invalidates(frame) \/ ~pending)

QueuePush(frame) ==
  /\ waiting' = Refuses(frame)
  /\ pending' = Refuses(frame)
  /\ hand' = IF Invalidates(frame) THEN Outdated ELSE hand
  /\ LET kept == IF Invalidates(frame) THEN <<>> ELSE queued
     IN queued' = IF Refuses(frame) THEN kept
                  ELSE Append(kept, Packet(frame, waiting \/ Invalidates(frame)))

\* pop_packet
QueuePop ==
  /\ hand = <<>> /\ queued # <<>>
  /\ hand' = <<[packet |-> Head(queued), current |-> TRUE]>>
  /\ queued' = Tail(queued)
  /\ UNCHANGED <<waiting, pending>>

\* clear
QueueClear ==
  /\ queued' = <<>> /\ waiting' = TRUE /\ pending' = FALSE
  /\ hand' = Outdated
=============================================================================
