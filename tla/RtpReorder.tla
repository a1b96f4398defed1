----------------------------- MODULE RtpReorder -----------------------------
\* RtpReorderBuffer: packets leave it in the order of their index, and an
\* index that does not come is waited for, then skipped.
EXTENDS Integers, Sequences, FiniteSets, SequencesExt

CONSTANT MaxPackets   \* reorder_window_packets
ASSUME WindowAssumption == MaxPackets \in Nat \ {0}

VARIABLES
  nextIndex,  \* next_index
  packets,    \* the indices buffered
  gapWait     \* gap_wait: the index waited for; late once the 52 ms are over

reorderVars == <<nextIndex, packets, gapWait>>

None == -1
NoGap == [for |-> None, late |-> FALSE]

ReorderInit == nextIndex = None /\ packets = {} /\ gapWait = NoGap

\* reset
ReorderReset == nextIndex' = None /\ packets' = {} /\ gapWait' = NoGap

Expected(i) == IF nextIndex = None THEN i ELSE nextIndex
Stale(i) == i < Expected(i)

\* Packet p leaves the buffer: in its turn, or over a gap that is given up.
InTurn(s, p) == [s EXCEPT !.next = p + 1, !.ready = Append(@, p), !.held = @ \ {p}]

OverGap_Silent(s, p) == [InTurn(s, p) EXCEPT !.wait = NoGap]
OverGap(s, p) == [InTurn(s, p) EXCEPT !.wait = NoGap, !.gap = TRUE]

\* The window cannot take a gap this wide, or this many packets behind it.
Exceeded(s, p) == p - s.next >= MaxPackets \/ Cardinality(s.held) >= MaxPackets

\* The loop at the first of the packets it still holds.
Turn(s) ==
  LET p == Min(s.held)
      wait == IF s.wait.for = s.next THEN s.wait
              ELSE [for |-> s.next, late |-> FALSE]
  IN IF s.stopped \/ s.held = {} THEN s
     ELSE IF p = s.next THEN InTurn(s, p)
     ELSE IF Exceeded(s, p) \/ wait.late THEN OverGap(s, p)
     ELSE [s EXCEPT !.wait = wait, !.nack = <<s.next, p - 1>>, !.stopped = TRUE]

\* A turn takes a packet out or is the last one.
Turns(start) ==
  LET after[n \in 0 .. Cardinality(start.held)] ==
        IF n = 0 THEN start ELSE Turn(after[n - 1])
  IN after[Cardinality(start.held)]

\* push of an index that is neither stale nor buffered: what is ready, what
\* is to be asked for again, and whether a gap was given up (PacketGap).
Pushed(i) ==
  LET jump == packets = {} /\ i - Expected(i) >= MaxPackets
  IN Turns([next |-> IF jump THEN i ELSE Expected(i), held |-> packets \cup {i},
            ready |-> <<>>, nack |-> <<>>, gap |-> jump,
            wait |-> IF jump THEN NoGap ELSE gapWait, stopped |-> FALSE])

Push(result) ==
  /\ nextIndex' = result.next
  /\ packets' = result.held
  /\ gapWait' = IF result.stopped THEN result.wait ELSE NoGap

\* The time a gap is waited for passes; the next packet finds it so.
GapGetsLate ==
  /\ gapWait.for # None /\ ~gapWait.late
  /\ gapWait' = [gapWait EXCEPT !.late = TRUE]
  /\ UNCHANGED <<nextIndex, packets>>
=============================================================================
