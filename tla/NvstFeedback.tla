---------------------------- MODULE NvstFeedback ----------------------------
\* NvstFeedbackState: what the receiver asks the server for. The receive
\* thread sets it; the bundle thread sends it, and sends it again.
EXTENDS Integers, Sequences, SequencesExt

CONSTANTS MaxRanges,      \* MAX_PENDING_NACK_RANGES
          MaxNackPackets, \* MAX_NACK_PACKET_COUNT
          MaxAttempts     \* MAX_NACK_ATTEMPTS
ASSUME FeedbackAssumption ==
  MaxRanges \in Nat \ {0} /\ MaxNackPackets \in Nat \ {0} /\ MaxAttempts \in Nat \ {0}

VARIABLES
  nacks,   \* pending_nacks, oldest first
  cooled,  \* 250 ms have passed since last_keyframe_attempt
  asked    \* the server has a keyframe request it has not answered

feedbackVars == <<nacks, cooled, asked>>

FeedbackInit == nacks = <<>> /\ cooled = TRUE /\ asked = FALSE

NackRange(f, l) == [first |-> f, last |-> l, attempts |-> 0]

\* request_nack
Requested(ns, f, l) ==
  LET touches(r) == f <= r.last + 1 /\ l + 1 >= r.first
      at == SelectInSeq(ns, touches)
      old == ns[at]
      union == NackRange(IF f < old.first THEN f ELSE old.first,
                         IF l > old.last THEN l ELSE old.last)
      full == Len(ns) = MaxRanges
  IN IF at = 0
     THEN Append(IF full THEN Tail(ns) ELSE ns, NackRange(f, l))
     ELSE IF union.first = old.first /\ union.last = old.last THEN ns
     ELSE ReplaceAt(ns, at, union)

Without_KeepsIt(r, i) ==
  IF i < r.first \/ i > r.last THEN <<r>>
  ELSE (IF r.first < i THEN <<[r EXCEPT !.last = i - 1]>> ELSE <<>>)
    \o (IF i < r.last THEN <<[r EXCEPT !.first = i]>> ELSE <<>>)

\* resolve_nack: what is left of a range once index i has come.
Without(r, i) ==
  IF i < r.first \/ i > r.last THEN <<r>>
  ELSE (IF r.first < i THEN <<[r EXCEPT !.last = i - 1]>> ELSE <<>>)
    \o (IF i < r.last THEN <<[r EXCEPT !.first = i + 1]>> ELSE <<>>)

Resolved(ns, i) == FlattenSeq([k \in DOMAIN ns |-> Without(ns[k], i)])

\* take_nack: ranges that are too old go; of the rest the first that may be
\* tried (now) is sent, at most MaxNackPackets of it. Those sent before it
\* wait for their next attempt.
Kept(old) ==
  FlattenSeq([k \in DOMAIN nacks |-> IF nacks[k] \in old THEN <<>> ELSE <<nacks[k]>>])

Due(ns, k) ==
  /\ ns[k].attempts < MaxAttempts
  /\ \A j \in 1 .. k - 1 : ns[j].attempts > 0

Part(r) ==
  [r EXCEPT !.last = IF r.first + MaxNackPackets - 1 < r.last
                     THEN r.first + MaxNackPackets - 1 ELSE r.last]

Taken(ns, k, written) ==
  LET part == Part(ns[k])
      rest == IF part.last < ns[k].last
              THEN <<NackRange(part.last + 1, ns[k].last)>> ELSE <<>>
      sent == IF written THEN [part EXCEPT !.attempts = @ + 1] ELSE part
  IN SubSeq(ns, 1, k - 1) \o <<sent>> \o rest \o SubSeq(ns, k + 1, Len(ns))

\* keyframe_request_routes and the write of the request, which may fail.
AskForKeyframe(need) ==
  /\ need /\ cooled
  /\ cooled' = FALSE
  /\ asked' \in {TRUE, asked}
  /\ UNCHANGED nacks

CooldownPasses == ~cooled /\ cooled' = TRUE /\ UNCHANGED <<nacks, asked>>
=============================================================================
