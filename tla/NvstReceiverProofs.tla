------------------------- MODULE NvstReceiverProofs -------------------------
(***************************************************************************)
(* Proofs about NvstReceiver, for streams, windows and NACK limits of any  *)
(* size: what is buffered waits behind a gap, what is asked for again is   *)
(* not here, and what is called contiguous is, but for one case.           *)
(* The loop over the buffered packets and FlattenSeq are recursive         *)
(* functions: that each exists, and what each computes, is shown by the    *)
(* least number for which it would not be so.                              *)
(***************************************************************************)
EXTENDS NvstReceiver, WellFoundedInduction, FiniteSetTheorems, SequenceTheorems, TLAPS

-----------------------------------------------------------------------------
\* Any nonempty set of naturals has a least element; a property that holds of
\* 0 and is handed on holds of every natural, since no least one can lack it.
LEMMA Least ==
  ASSUME NEW T, T \subseteq Nat, T # {}
  PROVE  \E n \in T : \A m \in T : n <= m
<1> DEFINE less == {ss \in Nat \X Nat : ss[1] < ss[2]}
<1>1. IsWellFoundedOn(less, Nat)
  BY NatLessThanWellFounded, Zenon DEF OpToRel
<1>2. \A m, n \in Nat : m < n => <<m, n>> \in less
  OBVIOUS
<1> HIDE DEF less
<1>3. PICK n \in T : \A m \in T : ~ (<<m, n>> \in less)
  BY <1>1, WFMin
<1> SUFFICES \A m \in T : n <= m
  OBVIOUS
<1> TAKE m \in T
<1>4. m \in Nat /\ n \in Nat /\ ~ (m < n)
  BY <1>2, <1>3
<1> QED BY <1>4

\* The least element of a set of naturals is the one Min gives.
LEMMA MinIsLeast ==
  ASSUME NEW T, T \subseteq Nat, T # {}
  PROVE  Min(T) \in T /\ \A m \in T : Min(T) <= m
  BY Least, Zenon DEF Min

-----------------------------------------------------------------------------
\* The recursive functions of the model exist, and obey their equations.

\* The turns of push: what the loop has after n of them.
Loop(start, N) ==
  CHOOSE after : after = [n \in 0 .. N |-> IF n = 0 THEN start ELSE Turn(after[n - 1])]

\* The loop's function exists for every number of turns: a least number for
\* which it did not would have a predecessor for which it did.
LEMMA LoopExists ==
  ASSUME NEW start, NEW N \in Nat
  PROVE  \E f : f = [n \in 0 .. N |-> IF n = 0 THEN start ELSE Turn(f[n - 1])]
<1> DEFINE Steps(f, k) == f = [n \in 0 .. k |-> IF n = 0 THEN start ELSE Turn(f[n - 1])]
           T == {k \in 0 .. N : ~ \E f : Steps(f, k)}
<1>1. ASSUME T # {} PROVE FALSE
  <2>1. T \subseteq 0 .. N /\ T \subseteq Nat
    <3>1. T \subseteq 0 .. N
      OBVIOUS
    <3>2. 0 .. N \subseteq Nat
      OBVIOUS
    <3> HIDE DEF T
    <3> QED BY <3>1, <3>2
  <2>2. PICK k \in T : \A m \in T : k <= m
    BY <2>1, <1>1, Least, Zenon
  <2>3. k # 0
    <3>1. Steps([n \in 0 .. 0 |-> start], 0)
      OBVIOUS
    <3> QED BY <3>1, Zenon
  <2>4. k - 1 \in 0 .. N /\ k - 1 \notin T
    <3> HIDE DEF T
    <3> QED BY <2>1, <2>2, <2>3
  <2>5. PICK f : Steps(f, k - 1)
    BY <2>4
  <2> DEFINE g == [n \in 0 .. k |-> IF n < k THEN f[n] ELSE Turn(f[k - 1])]
  <2>6. \A n \in 0 .. k : g[n] = IF n = 0 THEN start ELSE Turn(g[n - 1])
    <3> TAKE n \in 0 .. k
    <3> HIDE DEF Steps
    <3>1. k \in Nat /\ k # 0
      BY <2>2, <2>3
    <3>2. \A m \in 0 .. k - 1 : f[m] = IF m = 0 THEN start ELSE Turn(f[m - 1])
      BY <2>5, Zenon DEF Steps
    <3>3. CASE n < k
      <4>1. g[n] = f[n] /\ (n # 0 => g[n - 1] = f[n - 1])
        BY <3>3, <3>1
      <4>2. n \in 0 .. k - 1
        BY <3>3, <3>1
      <4> QED BY <4>1, <4>2, <3>2
    <3>4. CASE n = k
      <4>1. g[n] = Turn(f[k - 1]) /\ n # 0 /\ g[n - 1] = f[k - 1]
        BY <3>4, <3>1
      <4> QED BY <4>1, <3>4
    <3> QED BY <3>1, <3>3, <3>4
  <2>7. Steps(g, k)
    <3> DEFINE h == [n \in 0 .. k |-> IF n = 0 THEN start ELSE Turn(g[n - 1])]
    <3>1. \A n \in 0 .. k : g[n] = h[n]
      BY <2>6
    <3>2. g = h
      BY <3>1, Zenon
    <3> QED BY <3>2
  <2> QED BY <2>2, <2>7
<1> QED BY <1>1

\* So the loop starts where it is told to, and goes on by one turn at a time.
LEMMA LoopEquation ==
  ASSUME NEW start, NEW N \in Nat
  PROVE  /\ Loop(start, N)[0] = start
         /\ \A n \in 1 .. N : Loop(start, N)[n] = Turn(Loop(start, N)[n - 1])
<1>1. Loop(start, N) =
        [n \in 0 .. N |-> IF n = 0 THEN start ELSE Turn(Loop(start, N)[n - 1])]
  BY LoopExists, Zenon DEF Loop
<1> HIDE DEF Loop
<1> QED BY <1>1

\* Turns is that loop.
LEMMA TurnsLoop ==
  ASSUME NEW start
  PROVE  Turns(start) = Loop(start, Cardinality(start.held))[Cardinality(start.held)]
  BY Zenon DEF Turns, Loop

-----------------------------------------------------------------------------
\* The loop of push.

\* What the loop over the packets S, expecting e at first, keeps true.
LoopType(S) ==
  [next : Nat, held : SUBSET S, ready : Seq(S), nack : Seq(Int), gap : BOOLEAN,
   wait : [for : Int, late : BOOLEAN], stopped : BOOLEAN]

Ordered(s, S) ==
  /\ \A x \in s.held : x >= s.next
  /\ \A x \in S \ s.held : x < s.next

Handed(s, S, e) ==
  /\ s.ready = <<>> => s.held = S
  /\ s.ready # <<>> => s.ready[Len(s.ready)] + 1 = s.next
  /\ ~s.gap => /\ IF s.ready = <<>> THEN s.next = e ELSE s.ready[1] = e
               /\ \A k \in 1 .. Len(s.ready) - 1 : s.ready[k + 1] = s.ready[k] + 1

Waiting(s) ==
  IF s.stopped
  THEN /\ s.held # {}
       /\ s.next < Min(s.held)
       /\ Min(s.held) - s.next < MaxPackets
       /\ s.nack = <<s.next, Min(s.held) - 1>>
       /\ s.wait.for = s.next
       /\ Cardinality(s.held) < MaxPackets
  ELSE s.nack = <<>>

Stage(s, S, e) == s \in LoopType(S) /\ Ordered(s, S) /\ Handed(s, S, e) /\ Waiting(s)

\* A packet that leaves in its turn, or over a gap.
LEMMA LeavesKeepsStage ==
  ASSUME NEW S, S \subseteq Nat, NEW e \in Nat, NEW s, Stage(s, S, e), ~s.stopped,
         s.held # {}, NEW t, NEW w \in [for : Int, late : BOOLEAN], NEW g \in BOOLEAN,
         s.gap => g, ~g => Min(s.held) = s.next,
         t = [s EXCEPT !.next = Min(s.held) + 1, !.ready = Append(@, Min(s.held)),
                       !.held = @ \ {Min(s.held)}, !.wait = w, !.gap = g]
  PROVE  Stage(t, S, e)
<1> DEFINE p == Min(s.held)
<1>1. s \in LoopType(S) /\ s.held \subseteq S /\ s.ready \in Seq(S) /\ s.next \in Nat
  BY DEF Stage, LoopType
<1>2. p \in s.held /\ p \in S /\ p \in Nat /\ \A x \in s.held : p <= x
  BY <1>1, MinIsLeast
<1>3. /\ t.next = p + 1 /\ t.ready = Append(s.ready, p) /\ t.held = s.held \ {p}
      /\ t.wait = w /\ t.gap = g /\ t.stopped = FALSE /\ t.nack = s.nack
  BY <1>1 DEF LoopType
<1>4. t \in LoopType(S)
  <2>1. Append(s.ready, p) \in Seq(S) /\ s.held \ {p} \in SUBSET S /\ p + 1 \in Nat
    BY <1>1, <1>2
  <2> HIDE DEF p
  <2> DEFINE r == Append(s.ready, p)
             h == s.held \ {p}
  <2>2. t = [s EXCEPT !.next = p + 1, !.ready = r, !.held = h, !.wait = w, !.gap = g]
    BY DEF p
  <2> HIDE DEF r, h
  <2>3. r \in Seq(S) /\ h \in SUBSET S
    BY <2>1 DEF r, h
  <2> QED BY <2>1, <2>2, <2>3, <1>1 DEF LoopType
<1> HIDE DEF p
<1>5. Ordered(t, S)
  <2>1. Ordered(s, S)
    BY DEF Stage
  <2> QED BY <2>1, <1>1, <1>2, <1>3 DEF Ordered
<1>6. Handed(t, S, e)
  <2>1. Handed(s, S, e)
    BY DEF Stage
  <2>2. /\ t.ready # <<>> /\ t.ready[Len(t.ready)] = p
        /\ t.ready[1] = IF s.ready = <<>> THEN p ELSE s.ready[1]
        /\ Len(t.ready) = Len(s.ready) + 1 /\ Len(s.ready) \in Nat
        /\ \A k \in 1 .. Len(s.ready) : t.ready[k] = s.ready[k]
    <3>1. t.ready = Append(s.ready, p)
      BY <1>3
    <3>2. /\ t.ready # <<>> /\ Len(t.ready) = Len(s.ready) + 1 /\ Len(s.ready) \in Nat
          /\ t.ready[Len(s.ready) + 1] = p
          /\ \A i \in 1 .. Len(s.ready) : t.ready[i] = s.ready[i]
      BY <3>1, <1>1, <1>2, AppendProperties, LenProperties
    <3>3. s.ready = <<>> <=> Len(s.ready) = 0
      BY <1>1
    <3> QED BY <3>2, <3>3
  <2>3. ASSUME ~g, NEW k \in 1 .. Len(t.ready) - 1 PROVE t.ready[k + 1] = t.ready[k] + 1
    <3>1. ~s.gap /\ p = s.next /\ k \in 1 .. Len(s.ready)
      BY <1>1, <2>2, <2>3 DEF p, LoopType
    <3>2. CASE k = Len(s.ready)
      <4>1. t.ready[k + 1] = p /\ t.ready[k] = s.ready[k] /\ s.ready # <<>>
        BY <1>1, <2>2, <3>1, <3>2
      <4> QED BY <2>1, <3>1, <3>2, <4>1 DEF Handed
    <3>3. CASE k # Len(s.ready)
      <4>1. k \in 1 .. Len(s.ready) - 1 /\ k + 1 \in 1 .. Len(s.ready)
        BY <2>2, <3>1, <3>3
      <4> QED BY <2>1, <2>2, <3>1, <4>1 DEF Handed
    <3> QED BY <3>2, <3>3
  <2> QED BY <2>1, <2>2, <2>3, <1>1, <1>2, <1>3 DEF Handed, p
<1>7. Waiting(t)
  BY <1>3 DEF Stage, Waiting
<1> QED BY <1>4, <1>5, <1>6, <1>7 DEF Stage

\* One turn of the loop keeps the stage, and either takes out the first packet
\* that is held, or stops, or had nothing left to do.
LEMMA TurnKeepsStage ==
  ASSUME NEW S, S \subseteq Nat, IsFiniteSet(S), NEW e \in Nat, NEW s, Stage(s, S, e)
  PROVE  /\ Stage(Turn(s), S, e)
         /\ \/ Turn(s) = s /\ (s.stopped \/ s.held = {})
            \/ Turn(s).stopped
            \/ Turn(s).held = s.held \ {Min(s.held)}
<1> DEFINE p == Min(s.held)
           wait == IF s.wait.for = s.next THEN s.wait
                   ELSE [for |-> s.next, late |-> FALSE]
<1>1. s \in LoopType(S) /\ s.held \subseteq S /\ s.ready \in Seq(S) /\ s.next \in Nat
      /\ s.wait \in [for : Int, late : BOOLEAN] /\ s.gap \in BOOLEAN /\ s.stopped \in BOOLEAN
  BY DEF Stage, LoopType
<1>2. CASE s.stopped \/ s.held = {}
  BY <1>2 DEF Turn
<1>3. CASE ~s.stopped /\ s.held # {} /\ p = s.next
  <2>1. Turn(s) = InTurn(s, p)
    BY <1>3 DEF Turn
  <2>2. InTurn(s, p) = [s EXCEPT !.next = p + 1, !.ready = Append(@, p), !.held = @ \ {p},
                                 !.wait = s.wait, !.gap = s.gap]
    BY <1>1 DEF InTurn, LoopType
  <2>3. Stage(InTurn(s, p), S, e)
    BY <2>2, <1>1, <1>3, LeavesKeepsStage
  <2>4. InTurn(s, p).held = s.held \ {p}
    BY <1>1 DEF InTurn, LoopType
  <2> QED BY <2>1, <2>3, <2>4
<1>4. CASE ~s.stopped /\ s.held # {} /\ p # s.next /\ (Exceeded(s, p) \/ wait.late)
  <2>1. Turn(s) = OverGap(s, p)
    BY <1>4 DEF Turn
  <2>2. OverGap(s, p) = [s EXCEPT !.next = p + 1, !.ready = Append(@, p), !.held = @ \ {p},
                                  !.wait = NoGap, !.gap = TRUE]
    BY <1>1 DEF OverGap, InTurn, LoopType
  <2>3. NoGap \in [for : Int, late : BOOLEAN]
    BY DEF NoGap, None
  <2>4. Stage(OverGap(s, p), S, e)
    BY <2>2, <2>3, <1>1, <1>4, LeavesKeepsStage
  <2>5. OverGap(s, p).held = s.held \ {p}
    BY <1>1, <2>2 DEF LoopType
  <2> QED BY <2>1, <2>4, <2>5
<1>5. CASE ~s.stopped /\ s.held # {} /\ p # s.next /\ ~(Exceeded(s, p) \/ wait.late)
  <2> DEFINE t == [s EXCEPT !.wait = wait, !.nack = <<s.next, p - 1>>, !.stopped = TRUE]
  <2>1. Turn(s) = t
    BY <1>5 DEF Turn
  <2>2. p \in s.held /\ p \in S /\ p \in Nat /\ \A x \in s.held : p <= x
    BY <1>1, <1>5, MinIsLeast
  <2>3. wait \in [for : Int, late : BOOLEAN] /\ wait.for = s.next
    BY <1>1
  <2>4. /\ t.next = s.next /\ t.ready = s.ready /\ t.held = s.held /\ t.gap = s.gap
        /\ t.wait = wait /\ t.nack = <<s.next, p - 1>> /\ t.stopped = TRUE
    BY <1>1 DEF LoopType
  <2>5. t \in LoopType(S)
    <3> DEFINE n == <<s.next, p - 1>>
    <3>1. n \in Seq(Int)
      BY <1>1, <2>2
    <3>2. t = [s EXCEPT !.wait = wait, !.nack = n, !.stopped = TRUE]
      OBVIOUS
    <3> HIDE DEF n, wait, p, t
    <3> QED BY <3>1, <3>2, <1>1, <2>3 DEF LoopType
  <2>6. Cardinality(s.held) < MaxPackets /\ p - s.next < MaxPackets
    <3>1. IsFiniteSet(s.held)
      BY <1>1, FS_Subset
    <3>2. Cardinality(s.held) \in Nat
      BY <3>1, FS_CardinalityType
    <3> QED BY <1>1, <1>5, <2>2, <3>2, WindowAssumption DEF Exceeded
  <2>7. Ordered(s, S) /\ Handed(s, S, e)
    BY DEF Stage
  <2> HIDE DEF t, wait, p
  <2>8. Ordered(t, S) /\ Handed(t, S, e)
    BY <2>4, <2>7 DEF Ordered, Handed
  <2>9. s.next < p
    BY <1>1, <1>5, <2>2, <2>7 DEF Ordered
  <2>10. Waiting(t)
    <3>1. p = Min(t.held)
      BY <2>4 DEF p
    <3> QED BY <3>1, <2>2, <2>3, <2>4, <2>6, <2>9 DEF Waiting
  <2> QED BY <2>1, <2>4, <2>5, <2>8, <2>10 DEF Stage
<1> QED BY <1>1, <1>2, <1>3, <1>4, <1>5

\* The loop ends: it has stopped at a gap, or every packet has left.
LEMMA TurnsStage ==
  ASSUME NEW S, S \subseteq Nat, IsFiniteSet(S), NEW e \in Nat, NEW start,
         Stage(start, S, e), start.held = S
  PROVE  /\ Stage(Turns(start), S, e)
         /\ Turns(start).stopped \/ Turns(start).held = {}
<1> DEFINE N == Cardinality(S)
           a == Loop(start, N)
           Good(n) == /\ Stage(a[n], S, e)
                      /\ a[n].stopped \/ Cardinality(a[n].held) <= N - n
           T == {n \in 0 .. N : ~ Good(n)}
<1>1. N \in Nat
  BY FS_CardinalityType
<1>2. a[0] = start /\ \A n \in 1 .. N : a[n] = Turn(a[n - 1])
  BY <1>1, LoopEquation
<1> HIDE DEF a
<1>3. Good(0)
  BY <1>1, <1>2
<1>4. ASSUME NEW n \in 1 .. N, Good(n - 1) PROVE Good(n)
  <2> DEFINE s == a[n - 1]
  <2>1. Stage(s, S, e) /\ (s.stopped \/ Cardinality(s.held) <= N - (n - 1))
    BY <1>4
  <2>2. a[n] = Turn(s)
    BY <1>2
  <2> HIDE DEF s
  <2>3. Stage(a[n], S, e)
    <3>1. Stage(Turn(s), S, e)
      BY <2>1, TurnKeepsStage, Zenon
    <3> QED BY <2>2, <3>1
  <2>4. s.held \subseteq S /\ IsFiniteSet(s.held) /\ Cardinality(s.held) \in Nat
    <3>1. s.held \subseteq S
      BY <2>1 DEF Stage, LoopType
    <3> QED BY <3>1, FS_Subset, FS_CardinalityType
  <2>5. a[n].stopped \/ Cardinality(a[n].held) <= N - n
    <3>1. CASE Turn(s) = s /\ s.stopped
      BY <3>1, <2>2
    <3>2. CASE s.held = {} /\ Turn(s) = s
      <4>1. Cardinality(a[n].held) = 0
        BY <3>2, <2>2, FS_EmptySet
      <4> QED BY <4>1, <1>1
    <3>3. CASE Turn(s).stopped
      BY <3>3, <2>2
    <3>4. CASE Turn(s).held = s.held \ {Min(s.held)} /\ s.held # {} /\ ~s.stopped
      <4>1. Min(s.held) \in s.held
        BY <2>4, <3>4, MinIsLeast
      <4>2. Cardinality(s.held \ {Min(s.held)}) = Cardinality(s.held) - 1
        BY <4>1, <2>4, FS_RemoveElement
      <4>3. Cardinality(a[n].held) = Cardinality(s.held) - 1
        BY <4>2, <2>2, <3>4
      <4> QED BY <4>3, <2>1, <2>4, <3>4, <1>1
    <3>5. CASE Turn(s).held = s.held \ {Min(s.held)} /\ s.held = {}
      <4>1. Cardinality(a[n].held) = 0
        BY <3>5, <2>2, FS_EmptySet
      <4> QED BY <4>1, <1>1
    <3>6. CASE Turn(s).held = s.held \ {Min(s.held)} /\ s.stopped
      <4>1. Turn(s) = s
        BY <3>6 DEF Turn
      <4> QED BY <4>1, <3>6, <2>2
    <3> QED BY <3>1, <3>2, <3>3, <3>4, <3>5, <3>6, <2>1, TurnKeepsStage
  <2> QED BY <2>3, <2>5
<1> HIDE DEF Good
<1>5. ASSUME T # {} PROVE FALSE
  <2>1. T \subseteq Nat
    OBVIOUS
  <2>2. PICK n \in T : \A m \in T : n <= m
    BY <2>1, <1>5, Least, Zenon
  <2>3. n \in 0 .. N /\ ~ Good(n)
    OBVIOUS
  <2>4. n # 0
    BY <2>3, <1>3
  <2>5. n \in 1 .. N /\ n - 1 \in 0 .. N /\ n - 1 \notin T
    <3> HIDE DEF T, N
    <3> QED BY <1>1, <2>2, <2>3, <2>4
  <2>6. Good(n - 1)
    BY <2>5
  <2> QED BY <2>3, <2>5, <2>6, <1>4
<1>6. Good(N)
  BY <1>1, <1>5
<1>7. Turns(start) = a[N]
  BY TurnsLoop DEF a
<1>8. a[N].stopped \/ Cardinality(a[N].held) <= 0
  BY <1>1, <1>6 DEF Good
<1>9. ASSUME Cardinality(a[N].held) <= 0 PROVE a[N].held = {}
  <2>1. a[N].held \subseteq S
    BY <1>6 DEF Good, Stage, LoopType
  <2>2. IsFiniteSet(a[N].held) /\ Cardinality(a[N].held) \in Nat
    BY <2>1, FS_Subset, FS_CardinalityType
  <2> QED BY <1>9, <2>2, FS_EmptySet
<1> QED BY <1>6, <1>7, <1>8, <1>9 DEF Good

-----------------------------------------------------------------------------
\* The reorder buffer between two packets.

Buffered ==
  /\ nextIndex \in Nat \cup {None}
  /\ packets \subseteq Nat /\ IsFiniteSet(packets)
  /\ packets # {} => nextIndex # None
  /\ gapWait \in [for : Int, late : BOOLEAN]
  /\ \A p \in packets : p > nextIndex

\* The loop begins in its stage, at the index that is expected or, where nothing
\* is buffered and the gap is as wide as the window, at the packet itself.
LEMMA StartStage ==
  ASSUME Buffered, NEW i \in Nat, ~ Stale(i)
  PROVE  LET jump == packets = {} /\ i - Expected(i) >= MaxPackets
         IN Stage([next |-> IF jump THEN i ELSE Expected(i), held |-> packets \cup {i},
                   ready |-> <<>>, nack |-> <<>>, gap |-> jump,
                   wait |-> IF jump THEN NoGap ELSE gapWait, stopped |-> FALSE],
                  packets \cup {i}, Expected(i))
<1> DEFINE e == Expected(i)
           S == packets \cup {i}
           jump == packets = {} /\ i - e >= MaxPackets
           start == [next |-> IF jump THEN i ELSE e, held |-> S,
                     ready |-> <<>>, nack |-> <<>>, gap |-> jump,
                     wait |-> IF jump THEN NoGap ELSE gapWait, stopped |-> FALSE]
<1>1. e \in Nat /\ e <= i /\ \A p \in packets : p > e
  BY DEF Buffered, Expected, Stale, None
<1>2. S \subseteq Nat /\ IsFiniteSet(S)
  BY FS_AddElement DEF Buffered
<1> HIDE DEF e
<1>3. start \in LoopType(S)
  <2>1. NoGap \in [for : Int, late : BOOLEAN] /\ gapWait \in [for : Int, late : BOOLEAN]
    BY DEF NoGap, None, Buffered
  <2>2. start.next \in Nat /\ start.wait \in [for : Int, late : BOOLEAN]
        /\ start.gap \in BOOLEAN
    BY <1>1, <2>1
  <2>3. <<>> \in Seq(S) /\ <<>> \in Seq(Int)
    OBVIOUS
  <2> HIDE DEF jump, S
  <2> QED BY <2>2, <2>3 DEF LoopType
<1>4. Ordered(start, S)
  <2>1. start.held = S /\ start.next \in {i, e} /\ (start.next = i => packets = {} \/ i = e)
    BY <1>1
  <2> HIDE DEF start
  <2> QED BY <2>1, <1>1, <1>2 DEF Ordered
<1>5. Handed(start, S, e)
  <2>1. start.ready = <<>> /\ start.held = S /\ Len(start.ready) = 0
    OBVIOUS
  <2>2. start.gap = jump /\ (~jump => start.next = e)
    OBVIOUS
  <2> HIDE DEF start, jump, S
  <2> QED BY <2>1, <2>2 DEF Handed
<1>6. Waiting(start)
  BY DEF Waiting
<1>7. Stage(start, S, e)
  BY <1>3, <1>4, <1>5, <1>6 DEF Stage
<1> QED BY <1>7, Zenon DEF e

\* push of an index that is not stale.
LEMMA PushedStage ==
  ASSUME Buffered, NEW i \in Nat, ~ Stale(i)
  PROVE  /\ Expected(i) \in Nat
         /\ Stage(Pushed(i), packets \cup {i}, Expected(i))
         /\ Pushed(i).stopped \/ Pushed(i).held = {}
<1> DEFINE jump == packets = {} /\ i - Expected(i) >= MaxPackets
           S == packets \cup {i}
           start == [next |-> IF jump THEN i ELSE Expected(i), held |-> S,
                     ready |-> <<>>, nack |-> <<>>, gap |-> jump,
                     wait |-> IF jump THEN NoGap ELSE gapWait, stopped |-> FALSE]
<1>1. Expected(i) \in Nat
  BY DEF Buffered, Expected, Stale, None
<1>2. S \subseteq Nat /\ IsFiniteSet(S)
  BY FS_AddElement DEF Buffered
<1>3. Pushed(i) = Turns(start)
  BY Zenon DEF Pushed
<1>4. Stage(start, S, Expected(i))
  BY StartStage
<1>5. start.held = S
  OBVIOUS
<1> HIDE DEF start, S
<1>6. Stage(Turns(start), S, Expected(i)) /\ (Turns(start).stopped \/ Turns(start).held = {})
  BY <1>1, <1>2, <1>4, <1>5, TurnsStage
<1> QED BY <1>1, <1>3, <1>6 DEF S

-----------------------------------------------------------------------------
\* The pending NACKs.

\* A sequence of sequences, one after the other.
Glued(qs) ==
  CHOOSE flatten : flatten = [i \in 1 .. Len(qs) |->
                                IF i = 1 THEN qs[i] ELSE flatten[i - 1] \o qs[i]]

\* The function that flattens a sequence of sequences exists.
LEMMA GluedExists ==
  ASSUME NEW qs, Len(qs) \in Nat
  PROVE  \E f : f = [i \in 1 .. Len(qs) |-> IF i = 1 THEN qs[i] ELSE f[i - 1] \o qs[i]]
<1> DEFINE N == Len(qs)
           Glues(f, k) == f = [i \in 1 .. k |-> IF i = 1 THEN qs[i] ELSE f[i - 1] \o qs[i]]
           T == {k \in 0 .. N : ~ \E f : Glues(f, k)}
<1> HIDE DEF N
<1>1. ASSUME T # {} PROVE FALSE
  <2>1. T \subseteq 0 .. N /\ T \subseteq Nat
    <3>1. T \subseteq 0 .. N
      OBVIOUS
    <3>2. 0 .. N \subseteq Nat
      BY DEF N
    <3> HIDE DEF T
    <3> QED BY <3>1, <3>2
  <2>2. PICK k \in T : \A m \in T : k <= m
    BY <2>1, <1>1, Least, Zenon
  <2>3. k # 0
    <3>1. Glues([i \in 1 .. 0 |-> {}], 0)
      OBVIOUS
    <3> QED BY <3>1, Zenon
  <2>4. k - 1 \in 0 .. N /\ k - 1 \notin T
    <3> HIDE DEF T
    <3> QED BY <2>1, <2>2, <2>3 DEF N
  <2>5. PICK f : Glues(f, k - 1)
    BY <2>4
  <2> DEFINE top == IF k = 1 THEN qs[k] ELSE f[k - 1] \o qs[k]
             g == [i \in 1 .. k |-> IF i < k THEN f[i] ELSE top]
  <2>6. k \in Nat /\ k # 0
    BY <2>2, <2>3
  <2>7. \A i \in 1 .. k : g[i] = IF i = 1 THEN qs[i] ELSE g[i - 1] \o qs[i]
    <3> TAKE i \in 1 .. k
    <3>1. \A m \in 1 .. k - 1 : f[m] = IF m = 1 THEN qs[m] ELSE f[m - 1] \o qs[m]
      BY <2>5, Zenon DEF Glues
    <3> HIDE DEF Glues
    <3>2. CASE i < k
      <4>1. g[i] = f[i] /\ (i # 1 => g[i - 1] = f[i - 1]) /\ i \in 1 .. k - 1
        BY <3>2, <2>6
      <4> HIDE DEF g
      <4> QED BY <4>1, <3>1
    <3>3. CASE i = k
      <4> HIDE DEF top
      <4>1. g[k] = top /\ (k # 1 => g[k - 1] = f[k - 1])
        BY <2>6
      <4>2. top = IF k = 1 THEN qs[k] ELSE f[k - 1] \o qs[k]
        BY Zenon DEF top
      <4> HIDE DEF g
      <4> QED BY <4>1, <4>2, <3>3
    <3> QED BY <2>6, <3>2, <3>3
  <2>8. Glues(g, k)
    <3> DEFINE h == [i \in 1 .. k |-> IF i = 1 THEN qs[i] ELSE g[i - 1] \o qs[i]]
    <3>1. \A i \in 1 .. k : g[i] = h[i]
      BY <2>7
    <3>2. g = h
      BY <3>1, Zenon
    <3> QED BY <3>2
  <2> QED BY <2>2, <2>8
<1>2. N \in 0 .. N
  BY DEF N
<1>3. \E f : Glues(f, N)
  BY <1>1, <1>2
<1> QED BY <1>3 DEF N

\* What flattening a sequence of sequences gives is a sequence of their elements.
LEMMA FlattenSeqType ==
  ASSUME NEW R, NEW qs \in Seq(Seq(R))
  PROVE  FlattenSeq(qs) \in Seq(R)
<1> DEFINE N == Len(qs)
           f == Glued(qs)
           T == {n \in 1 .. N : f[n] \notin Seq(R)}
<1>1. N \in Nat /\ \A i \in 1 .. N : qs[i] \in Seq(R)
  OBVIOUS
<1>2. f = [i \in 1 .. N |-> IF i = 1 THEN qs[i] ELSE f[i - 1] \o qs[i]]
  <2>1. \E g : g = [i \in 1 .. N |-> IF i = 1 THEN qs[i] ELSE g[i - 1] \o qs[i]]
    BY <1>1, GluedExists
  <2> QED BY <2>1, Zenon DEF Glued
<1> HIDE DEF f
<1>3. \A i \in 1 .. N : f[i] = IF i = 1 THEN qs[i] ELSE f[i - 1] \o qs[i]
  BY <1>2, Zenon
<1>4. ASSUME T # {} PROVE FALSE
  <2>1. T \subseteq 1 .. N /\ T \subseteq Nat
    OBVIOUS
  <2>2. PICK n \in T : \A m \in T : n <= m
    BY <2>1, <1>4, Least, Zenon
  <2>3. n \in 1 .. N /\ f[n] \notin Seq(R)
    OBVIOUS
  <2>4. n # 1
    BY <2>3, <1>1, <1>3
  <2>5. n - 1 \in 1 .. N /\ n - 1 \notin T
    <3> HIDE DEF T
    <3> QED BY <1>1, <2>2, <2>3, <2>4
  <2>6. f[n - 1] \in Seq(R)
    BY <2>5
  <2>7. f[n] = f[n - 1] \o qs[n]
    BY <1>3, <2>3, <2>4
  <2>8. f[n] \in Seq(R)
    BY <1>1, <2>3, <2>6, <2>7, ConcatProperties
  <2> QED BY <2>3, <2>8
<1>5. CASE N = 0
  <2>1. FlattenSeq(qs) = qs /\ qs = <<>>
    BY <1>5 DEF FlattenSeq
  <2> QED BY <2>1, EmptySeq
<1>6. CASE N # 0
  <2>1. FlattenSeq(qs) = f[N]
    BY <1>6, Zenon DEF FlattenSeq, Glued, f
  <2>2. N \in 1 .. N /\ N \notin T
    BY <1>1, <1>4, <1>6
  <2> QED BY <2>1, <2>2
<1> QED BY <1>5, <1>6

\* The ranges that name no packet of S.
Ranges == [first : Nat, last : Nat, attempts : Nat]
Apart(S) == {r \in Ranges : r.first <= r.last /\ (r.first .. r.last) \cap S = {}}

\* Ranges that miss a set miss every part of it.
LEMMA ApartShrinks ==
  ASSUME NEW S, NEW U, U \subseteq S
  PROVE  \A ns \in Seq(Apart(S)) : ns \in Seq(Apart(U))
<1>1. Apart(S) \subseteq Apart(U)
  BY DEF Apart
<1> HIDE DEF Apart
<1> QED BY <1>1, SeqMonotonic

\* request_nack of packets that are all missing.
LEMMA RequestedApart ==
  ASSUME NEW S, NEW ns \in Seq(Apart(S)), NEW f \in Nat, NEW l \in Nat,
         f <= l, (f .. l) \cap S = {}
  PROVE  Requested(ns, f, l) \in Seq(Apart(S))
<1> DEFINE touches(r) == f <= r.last + 1 /\ l + 1 >= r.first
           I == {i \in 1 .. Len(ns) : touches(ns[i])}
           at == SelectInSeq(ns, touches)
           old == ns[at]
           union == NackRange(IF f < old.first THEN f ELSE old.first,
                              IF l > old.last THEN l ELSE old.last)
<1>1. at = IF I # {} THEN Min(I) ELSE 0
  BY Zenon DEF SelectInSeq
<1>2. Len(ns) \in Nat /\ \A i \in 1 .. Len(ns) : ns[i] \in Apart(S)
  <2> HIDE DEF Apart
  <2> QED OBVIOUS
<1>3. I \subseteq Nat
  BY <1>2
<1>4. CASE I = {}
  <2>1. NackRange(f, l) \in Apart(S)
    BY DEF NackRange, Apart, Ranges
  <2>2. (IF Len(ns) = MaxRanges THEN Tail(ns) ELSE ns) \in Seq(Apart(S))
    <3>1. Len(ns) = MaxRanges => ns # <<>>
      BY FeedbackAssumption
    <3> QED BY <3>1, HeadTailProperties
  <2>3. at = 0
    BY <1>1, <1>4
  <2>4. Requested(ns, f, l) = Append(IF Len(ns) = MaxRanges THEN Tail(ns) ELSE ns, NackRange(f, l))
    BY <2>3, Zenon DEF Requested
  <2> QED BY <2>1, <2>2, <2>4, AppendProperties
<1>5. CASE I # {}
  <2>1. at \in I
    BY <1>1, <1>3, <1>5, MinIsLeast
  <2> HIDE DEF at
  <2>2. at \in 1 .. Len(ns) /\ touches(ns[at]) /\ at # 0
    BY <2>1, <1>2
  <2>3. old \in Apart(S) /\ f <= old.last + 1 /\ l + 1 >= old.first
    BY <1>2, <2>2
  <2> HIDE DEF old
  <2>4. union \in Apart(S)
    <3>1. old.first \in Nat /\ old.last \in Nat /\ old.first <= old.last
          /\ (old.first .. old.last) \cap S = {}
      BY <2>3 DEF Apart, Ranges
    <3> DEFINE a == IF f < old.first THEN f ELSE old.first
               b == IF l > old.last THEN l ELSE old.last
    <3>2. a \in Nat /\ b \in Nat /\ a <= b
      BY <3>1
    <3>3. \A x \in a .. b : x \in f .. l \/ x \in old.first .. old.last
      BY <2>3, <3>1
    <3>4. (a .. b) \cap S = {}
      BY <3>1, <3>3
    <3> HIDE DEF a, b
    <3>5. NackRange(a, b) \in Apart(S)
      BY <3>2, <3>4 DEF NackRange, Apart, Ranges
    <3> QED BY <3>5 DEF a, b
  <2> HIDE DEF union
  <2>5. Requested(ns, f, l) \in {ns, ReplaceAt(ns, at, union)}
    BY <2>2, Zenon DEF Requested, at, old, union
  <2>6. ReplaceAt(ns, at, union) \in Seq(Apart(S))
    BY <2>2, <2>4, ExceptSeq DEF ReplaceAt
  <2> QED BY <2>5, <2>6
<1> QED BY <1>4, <1>5

\* resolve_nack: the packet that has come leaves every range.
LEMMA ResolvedApart ==
  ASSUME NEW S, NEW ns \in Seq(Apart(S)), NEW i \in Nat
  PROVE  Resolved(ns, i) \in Seq(Apart(S \cup {i}))
<1> DEFINE U == S \cup {i}
<1>1. ASSUME NEW r \in Apart(S) PROVE Without(r, i) \in Seq(Apart(U))
  <2>1. r \in Ranges /\ r.first \in Nat /\ r.last \in Nat /\ r.first <= r.last
        /\ (r.first .. r.last) \cap S = {}
    BY <1>1 DEF Apart, Ranges
  <2>2. CASE i < r.first \/ i > r.last
    <3>1. r \in Apart(U)
      BY <2>1, <2>2 DEF Apart
    <3>2. <<r>> \in Seq(Apart(U))
      BY <3>1
    <3> QED BY <2>2, <3>2, Zenon DEF Without
  <2>3. CASE ~(i < r.first \/ i > r.last)
    <3> DEFINE x == [r EXCEPT !.last = i - 1]
               y == [r EXCEPT !.first = i + 1]
    <3>1. ASSUME r.first < i PROVE x \in Apart(U)
      <4>1. x \in Ranges /\ x.first = r.first /\ x.last = i - 1
        BY <2>1, <3>1 DEF Ranges
      <4> HIDE DEF x
      <4> QED BY <2>1, <2>3, <3>1, <4>1 DEF Apart
    <3>2. ASSUME i < r.last PROVE y \in Apart(U)
      <4>1. y \in Ranges /\ y.first = i + 1 /\ y.last = r.last
        BY <2>1, <3>2 DEF Ranges
      <4> HIDE DEF y
      <4> QED BY <2>1, <2>3, <3>2, <4>1 DEF Apart
    <3> HIDE DEF x, y
    <3>3. (IF r.first < i THEN <<x>> ELSE <<>>) \in Seq(Apart(U))
      BY <3>1
    <3>4. (IF i < r.last THEN <<y>> ELSE <<>>) \in Seq(Apart(U))
      <4> HIDE DEF U
      <4> QED BY <3>2
    <3>5. Without(r, i) = (IF r.first < i THEN <<x>> ELSE <<>>) \o (IF i < r.last THEN <<y>> ELSE <<>>)
      BY <2>3, Zenon DEF Without, x, y
    <3> QED BY <3>3, <3>4, <3>5, ConcatProperties
  <2> QED BY <2>2, <2>3
<1> HIDE DEF U
<1>2. [k \in DOMAIN ns |-> Without(ns[k], i)] \in Seq(Seq(Apart(U)))
  <2> HIDE DEF Apart
  <2>1. DOMAIN ns = 1 .. Len(ns) /\ Len(ns) \in Nat /\ \A k \in 1 .. Len(ns) : ns[k] \in Apart(S)
    OBVIOUS
  <2>2. \A k \in 1 .. Len(ns) : Without(ns[k], i) \in Seq(Apart(U))
    BY <1>1, <2>1
  <2> QED BY <2>1, <2>2, IsASeq
<1> QED BY <1>2, FlattenSeqType DEF Resolved, U

\* take_nack drops ranges, and splits the one it sends.
LEMMA KeptApart ==
  ASSUME NEW S, nacks \in Seq(Apart(S)), NEW old
  PROVE  Kept(old) \in Seq(Apart(S))
<1> DEFINE qs == [k \in DOMAIN nacks |-> IF nacks[k] \in old THEN <<>> ELSE <<nacks[k]>>]
<1>1. DOMAIN nacks = 1 .. Len(nacks) /\ Len(nacks) \in Nat
      /\ \A k \in 1 .. Len(nacks) : nacks[k] \in Apart(S)
  OBVIOUS
<1>2. \A k \in 1 .. Len(nacks) :
        (IF nacks[k] \in old THEN <<>> ELSE <<nacks[k]>>) \in Seq(Apart(S))
  BY <1>1
<1>3. qs \in Seq(Seq(Apart(S)))
  BY <1>1, <1>2, IsASeq
<1> HIDE DEF qs
<1> QED BY <1>3, FlattenSeqType DEF Kept, qs

\* The range that is sent splits into two that name no packet that is here.
LEMMA TakenApart ==
  ASSUME NEW S, NEW ns \in Seq(Apart(S)), NEW k \in DOMAIN ns, NEW written \in BOOLEAN
  PROVE  /\ Taken(ns, k, written) \in Seq(Apart(S))
         /\ Part(ns[k]).first \in Nat /\ Part(ns[k]).last \in Nat
<1> DEFINE r == ns[k]
           part == Part(r)
           rest == IF part.last < r.last THEN <<NackRange(part.last + 1, r.last)>> ELSE <<>>
           one == IF written THEN [part EXCEPT !.attempts = @ + 1] ELSE part
<1>1. Len(ns) \in Nat /\ k \in 1 .. Len(ns) /\ \A j \in 1 .. Len(ns) : ns[j] \in Apart(S)
  OBVIOUS
<1>2. r \in Ranges /\ r.first \in Nat /\ r.last \in Nat /\ r.attempts \in Nat
      /\ r.first <= r.last /\ (r.first .. r.last) \cap S = {}
  BY <1>1 DEF Apart, Ranges
<1> HIDE DEF r
<1>3. /\ part \in Ranges /\ part.first = r.first /\ part.last \in Nat /\ part.attempts \in Nat
      /\ part.first <= part.last /\ part.last <= r.last
  BY <1>2, FeedbackAssumption DEF Part, Ranges
<1> HIDE DEF part
<1>4. one \in Apart(S)
  <2>1. one \in Ranges /\ one.first = part.first /\ one.last = part.last
    BY <1>3 DEF Ranges
  <2> HIDE DEF one
  <2> QED BY <1>2, <1>3, <2>1 DEF Apart
<1>5. rest \in Seq(Apart(S))
  <2>1. part.last < r.last => NackRange(part.last + 1, r.last) \in Apart(S)
    BY <1>2, <1>3 DEF NackRange, Apart, Ranges
  <2> QED BY <2>1
<1>6. Taken(ns, k, written) = ((SubSeq(ns, 1, k - 1) \o <<one>>) \o rest) \o SubSeq(ns, k + 1, Len(ns))
  BY Zenon DEF Taken, r, part
<1> HIDE DEF one, rest
<1>7. SubSeq(ns, 1, k - 1) \in Seq(Apart(S)) /\ SubSeq(ns, k + 1, Len(ns)) \in Seq(Apart(S))
  BY <1>1, SubSeqProperties
<1>8. <<one>> \in Seq(Apart(S))
  BY <1>4
<1>9. SubSeq(ns, 1, k - 1) \o <<one>> \in Seq(Apart(S))
  BY <1>7, <1>8, ConcatProperties
<1>10. (SubSeq(ns, 1, k - 1) \o <<one>>) \o rest \in Seq(Apart(S))
  BY <1>5, <1>9, ConcatProperties
<1> QED BY <1>2, <1>3, <1>6, <1>7, <1>10, ConcatProperties DEF part, r

-----------------------------------------------------------------------------
\* The invariant.

Numbers == 0 .. Total - 1

Typed ==
  /\ Buffered
  /\ packets \subseteq Numbers /\ nextIndex <= Total
  /\ sent \in 0 .. Total /\ net \subseteq 0 .. sent - 1 /\ seen \subseteq 0 .. sent - 1
  /\ state \in {"Running", "Paused", "RecoveryRequired", "Stopped"}
  /\ ready \in Seq(Numbers)
  /\ open \in {None} \cup (0 .. Frames - 1)
  /\ bytes \in Seq(Numbers)
  /\ last \in {NoFrame} \cup (0 .. Frames - 1)
  /\ contiguous \in BOOLEAN /\ needed \in BOOLEAN
  /\ cooled \in BOOLEAN /\ asked \in BOOLEAN

\* Every pending NACK is a range of packets that are not here.
Requests == nacks \in Seq(Apart(packets \cup Range(ready)))

Inv == Typed /\ Requests /\ GapIsWaitedFor

\* The number of packets in the stream is a natural.
LEMMA TotalNat == Total \in Nat
<1>1. \A a, b \in Nat : a * b \in Nat
  OBVIOUS
<1> QED BY <1>1, StreamAssumption DEF Total

\* What one push leaves behind.
LEMMA PushLeaves ==
  ASSUME Typed, NEW p \in Numbers, ~ Stale(p), Push(Pushed(p)), ready' = Pushed(p).ready
  PROVE  /\ Buffered' /\ packets' \subseteq Numbers /\ nextIndex' <= Total
         /\ ready' \in Seq(Numbers)
         /\ packets' \cup Range(ready') \subseteq packets \cup {p}
         /\ GapIsWaitedFor'
         /\ Handed(Pushed(p), packets \cup {p}, Expected(p))
<1> DEFINE r == Pushed(p)
           S == packets \cup {p}
<1>1. p \in Nat /\ S \subseteq Numbers /\ S \subseteq Nat /\ Numbers \subseteq Nat
  BY TotalNat DEF Typed, Buffered, Numbers
<1>2. Stage(r, S, Expected(p)) /\ (r.stopped \/ r.held = {})
  BY <1>1, PushedStage DEF Typed
<1>3. /\ nextIndex' = r.next /\ packets' = r.held
      /\ gapWait' = IF r.stopped THEN r.wait ELSE NoGap
      /\ ready' = r.ready
  BY DEF Push
<1>4. IsFiniteSet(S)
  BY FS_AddElement DEF Typed, Buffered
<1> HIDE DEF r, S
<1>5. /\ r.next \in Nat /\ r.held \subseteq S /\ r.ready \in Seq(S)
      /\ r.wait \in [for : Int, late : BOOLEAN] /\ r.stopped \in BOOLEAN
  BY <1>2 DEF Stage, LoopType
<1>6. IsFiniteSet(r.held)
  BY <1>4, <1>5, FS_Subset
<1>7. /\ Ordered(r, S) /\ Waiting(r) /\ Handed(r, S, Expected(p))
  BY <1>2 DEF Stage
<1>8. ASSUME r.held # {}
      PROVE  Min(r.held) \in r.held /\ Min(r.held) \in Nat /\ \A x \in r.held : x >= Min(r.held)
  <2>1. r.held \subseteq Nat
    BY <1>1, <1>5
  <2>2. Min(r.held) \in r.held /\ \A x \in r.held : Min(r.held) <= x
    BY <1>8, <2>1, MinIsLeast
  <2> QED BY <2>1, <2>2
<1>9. \A x \in r.held : r.stopped /\ x > r.next
  <2> TAKE x \in r.held
  <2>1. r.stopped /\ r.held # {}
    BY <1>2
  <2>2. r.next < Min(r.held)
    BY <1>7, <2>1 DEF Waiting
  <2>3. x \in Nat
    BY <1>1, <1>5
  <2> QED BY <2>1, <2>2, <2>3, <1>5, <1>8
<1>10. Buffered'
  <2>1. gapWait' \in [for : Int, late : BOOLEAN]
    BY <1>3, <1>5 DEF NoGap, None
  <2>2. r.next # None
    BY <1>5 DEF None
  <2> QED BY <1>1, <1>3, <1>5, <1>6, <1>9, <2>1, <2>2 DEF Buffered
<1>11. packets' \subseteq Numbers /\ ready' \in Seq(Numbers)
  BY <1>1, <1>3, <1>5, SeqMonotonic
<1>12. packets' \cup Range(ready') \subseteq S
  BY <1>3, <1>5, RangeOfSeq
<1>13. nextIndex' <= Total
  <2>1. CASE r.held # {}
    <3>1. Min(r.held) \in Numbers /\ r.next < Min(r.held)
      BY <1>1, <1>5, <1>8, <1>9, <2>1
    <3> QED BY <3>1, <1>3, <1>5, TotalNat DEF Numbers
  <2>2. CASE r.held = {}
    <3>1. r.ready # <<>>
      BY <1>7, <2>2 DEF Handed, S
    <3>2. Len(r.ready) \in 1 .. Len(r.ready)
      BY <3>1, <1>5
    <3>3. r.ready[Len(r.ready)] \in Numbers
      <4>1. r.ready[Len(r.ready)] \in S
        BY <3>2, <1>5, ElementOfSeq
      <4> QED BY <4>1, <1>1
    <3> QED BY <3>1, <3>3, <1>3, <1>7, TotalNat DEF Handed, Numbers
  <2> QED BY <2>1, <2>2
<1>14. GapIsWaitedFor'
  <2>1. SUFFICES ASSUME r.held # {}
                 PROVE  /\ gapWait'.for = r.next
                        /\ \E x \in r.held : x - r.next < MaxPackets
                        /\ Cardinality(r.held) < MaxPackets
    BY <1>3, <1>9 DEF GapIsWaitedFor
  <2>2. r.stopped
    BY <1>2, <2>1
  <2>3. Min(r.held) - r.next < MaxPackets /\ r.wait.for = r.next /\ Cardinality(r.held) < MaxPackets
    BY <1>7, <2>2 DEF Waiting
  <2> QED BY <1>3, <1>8, <2>1, <2>2, <2>3
<1> QED BY <1>7, <1>10, <1>11, <1>12, <1>13, <1>14 DEF r, S

\* What it asks for again is not here.
LEMMA PushedNack ==
  ASSUME Typed, NEW p \in Numbers, ~ Stale(p), Pushed(p).nack # <<>>
  PROVE  LET n == Pushed(p).nack
         IN n[1] \in Nat /\ n[2] \in Nat /\ n[1] <= n[2]
            /\ (n[1] .. n[2]) \cap (packets \cup {p}) = {}
<1> DEFINE r == Pushed(p)
           S == packets \cup {p}
           m == Min(r.held)
<1>1. p \in Nat /\ S \subseteq Nat
  <2>1. Numbers \subseteq Nat
    BY TotalNat DEF Numbers
  <2>2. packets \subseteq Numbers
    BY DEF Typed
  <2> QED BY <2>1, <2>2
<1>2. Stage(r, S, Expected(p))
  BY <1>1, PushedStage DEF Typed
<1> HIDE DEF r, S
<1>3. r.next \in Nat /\ r.held \subseteq S /\ Ordered(r, S) /\ Waiting(r)
  BY <1>2 DEF Stage, LoopType
<1>4. r.stopped
  BY <1>3 DEF Waiting, r
<1>5. r.held # {} /\ r.next < m /\ r.nack = <<r.next, m - 1>>
  BY <1>3, <1>4 DEF Waiting
<1>6. m \in Nat /\ \A x \in r.held : m <= x
  BY <1>1, <1>3, <1>5, MinIsLeast
<1> HIDE DEF m
<1>7. r.nack[1] = r.next /\ r.nack[2] = m - 1
  BY <1>5
<1>8. \A x \in S : x < r.next \/ m <= x
  BY <1>3, <1>6 DEF Ordered
<1>9. (r.next .. m - 1) \cap S = {}
  BY <1>1, <1>3, <1>6, <1>8
<1> QED BY <1>3, <1>5, <1>6, <1>7, <1>9 DEF r, S

-----------------------------------------------------------------------------
\* Packets and frames.

\* Quotient and remainder, and that there is one of each.
LEMMA Division ==
  ASSUME NEW p \in Nat, NEW n \in Nat \ {0}
  PROVE  /\ p \div n \in Nat /\ p % n \in 0 .. n - 1
         /\ p = (p \div n) * n + (p % n)
<1>1. p % n \in 0 .. n - 1 /\ p \div n \in Int /\ p \div n >= 0
  OBVIOUS
<1>2. p = n * (p \div n) + (p % n)
  OBVIOUS
<1>3. n * (p \div n) = (p \div n) * n
  BY <1>1
<1> QED BY <1>1, <1>2, <1>3

\* Distinct multiples are at least the factor apart.
LEMMA Multiples ==
  ASSUME NEW a \in Nat, NEW b \in Nat, NEW n \in Nat \ {0}
  PROVE  a * n \in Nat /\ (a < b => a * n + n <= b * n)
<1>1. a < b => (b - a - 1) * n >= 0
  OBVIOUS
<1>2. (b - a - 1) * n = b * n - a * n - n
  OBVIOUS
<1> QED BY <1>1, <1>2

\* A quotient and a remainder determine the number, and it them.
LEMMA DivisionUnique ==
  ASSUME NEW a \in Nat, NEW n \in Nat \ {0}, NEW r \in 0 .. n - 1
  PROVE  (a * n + r) \div n = a /\ (a * n + r) % n = r
<1> DEFINE p == a * n + r
           q == p \div n
           s == p % n
<1>1. p \in Nat
  BY Multiples
<1>2. q \in Nat /\ s \in 0 .. n - 1 /\ p = q * n + s
  BY <1>1, Division
<1>3. a * n \in Int /\ q * n \in Int
  BY <1>2
<1> HIDE DEF q, s
<1>4. ~ (a < q) /\ ~ (q < a)
  <2>1. a < q => a * n + n <= q * n
    BY <1>2, Multiples
  <2>2. q < a => q * n + n <= a * n
    BY <1>2, Multiples
  <2> QED BY <2>1, <2>2, <1>2, <1>3
<1>5. q = a
  BY <1>2, <1>4
<1>6. s = r
  BY <1>2, <1>3, <1>5
<1> QED BY <1>5, <1>6 DEF q, s

\* Every packet of the stream belongs to one of its frames.
LEMMA FrameNumbers ==
  ASSUME NEW p \in Numbers
  PROVE  FrameOf(p) \in 0 .. Frames - 1
<1>1. p \in Nat /\ p < Frames * FrameSize
  BY TotalNat DEF Numbers, Total
<1> DEFINE f == FrameOf(p)
<1>2. f \in Nat /\ p % FrameSize \in Nat /\ p = f * FrameSize + (p % FrameSize)
  <2>1. /\ p \div FrameSize \in Nat /\ p % FrameSize \in 0 .. FrameSize - 1
        /\ p = (p \div FrameSize) * FrameSize + (p % FrameSize)
    BY <1>1, Division, StreamAssumption
  <2> QED BY <2>1 DEF FrameOf
<1> HIDE DEF f
<1>3. ~ (Frames <= f)
  <2>1. Frames < f => Frames * FrameSize + FrameSize <= f * FrameSize
    BY <1>2, Multiples, StreamAssumption
  <2>2. Frames * FrameSize \in Nat /\ f * FrameSize \in Nat
    BY <1>2, Multiples, StreamAssumption
  <2> QED BY <1>1, <1>2, <2>1, <2>2, StreamAssumption
<1> QED BY <1>2, <1>3, StreamAssumption DEF f

\* The packet behind the end of a frame is the first of the next; the packet
\* behind any other starts no frame.
LEMMA NextPacket ==
  ASSUME NEW p \in Nat
  PROVE  /\ EndOfFrame(p) => p + 1 = First(FrameOf(p) + 1)
         /\ ~ EndOfFrame(p) => ~ StartOfFrame(p + 1)
<1> DEFINE f == FrameOf(p)
           r == p % FrameSize
<1>1. f \in Nat /\ r \in 0 .. FrameSize - 1 /\ p = f * FrameSize + r
  <2>1. /\ p \div FrameSize \in Nat /\ p % FrameSize \in 0 .. FrameSize - 1
        /\ p = (p \div FrameSize) * FrameSize + (p % FrameSize)
    BY Division, StreamAssumption
  <2> QED BY <2>1 DEF FrameOf
<1>2. (f + 1) * FrameSize = f * FrameSize + FrameSize /\ f * FrameSize \in Nat
  BY <1>1, StreamAssumption
<1>3. EndOfFrame(p) <=> r = FrameSize - 1
  BY DEF EndOfFrame
<1>4. ASSUME r # FrameSize - 1 PROVE ~ StartOfFrame(p + 1)
  <2> HIDE DEF f, r
  <2>1. r + 1 \in 0 .. FrameSize - 1 /\ p + 1 = f * FrameSize + (r + 1)
    BY <1>1, <1>2, <1>4, StreamAssumption
  <2>2. (f * FrameSize + (r + 1)) % FrameSize = r + 1
    BY <2>1, <1>1, DivisionUnique, StreamAssumption
  <2>3. (p + 1) % FrameSize = r + 1 /\ r + 1 # 0
    BY <1>1, <2>1, <2>2
  <2> QED BY <2>3 DEF StartOfFrame
<1> HIDE DEF f, r
<1>5. r = FrameSize - 1 => p + 1 = (f + 1) * FrameSize
  BY <1>1, <1>2, StreamAssumption
<1> QED BY <1>3, <1>4, <1>5 DEF First, f

\* The first packet of a frame belongs to it.
LEMMA FirstPacket ==
  ASSUME NEW f \in Nat
  PROVE  First(f) \in Nat /\ FrameOf(First(f)) = f
<1>1. 0 \in 0 .. FrameSize - 1
  BY StreamAssumption
<1>2. f * FrameSize \in Nat /\ f * FrameSize + 0 = f * FrameSize
  BY StreamAssumption
<1>3. (f * FrameSize + 0) \div FrameSize = f
  BY <1>1, DivisionUnique, StreamAssumption
<1> QED BY <1>2, <1>3 DEF First, FrameOf

-----------------------------------------------------------------------------
\* Every step keeps the types.

\* The receiver is typed when it is created (NvstVideoReceiver::new).
LEMMA InitTyped == Init => Typed
<1> SUFFICES ASSUME Init PROVE Typed
  OBVIOUS
<1>1. IsFiniteSet({})
  BY FS_EmptySet
<1>2. Buffered
  BY <1>1 DEF Init, ReorderInit, Buffered, NoGap, None
<1>3. nextIndex <= Total /\ packets \subseteq Numbers
  BY TotalNat DEF Init, ReorderInit, None
<1>4. sent \in 0 .. Total /\ net \subseteq 0 .. sent - 1 /\ seen \subseteq 0 .. sent - 1
  BY TotalNat DEF Init
<1>5. ready \in Seq(Numbers) /\ bytes \in Seq(Numbers)
  BY DEF Init
<1>6. open \in {None} \cup (0 .. Frames - 1) /\ last \in {NoFrame} \cup (0 .. Frames - 1)
  BY DEF Init
<1> QED BY <1>2, <1>3, <1>4, <1>5, <1>6 DEF Init, FeedbackInit, Typed

\* An empty reorder buffer is a buffer (RtpReorderBuffer::reset).
LEMMA BufferedReset == ReorderReset => Buffered' /\ nextIndex' = None /\ packets' = {}
<1>1. IsFiniteSet({})
  BY FS_EmptySet
<1> QED BY <1>1 DEF ReorderReset, Buffered, NoGap, None

\* A datagram keeps the types (process_datagram).
LEMMA ReceiveTyped ==
  ASSUME Typed, NEW p \in net, Receive(p)
  PROVE  Typed'
<1>1. p \in Numbers /\ p \in 0 .. sent - 1 /\ sent \in 0 .. Total
  BY TotalNat DEF Typed, Numbers
<1>2. /\ net' \subseteq 0 .. sent - 1 /\ seen' \subseteq 0 .. sent - 1
      /\ sent' = sent /\ cooled' = cooled /\ asked' = asked /\ state' = state /\ last' = last
  BY <1>1 DEF Receive, Typed
<1>3. CASE UNCHANGED <<reorderVars, assemblerVars, contiguous, needed>>
  <2>1. Buffered'
    BY <1>3 DEF Typed, Buffered, reorderVars
  <2> QED BY <1>2, <1>3, <2>1 DEF Typed, reorderVars, assemblerVars
<1>4. CASE /\ ~ Stale(p) /\ Push(Pushed(p)) /\ ready' = Pushed(p).ready
           /\ Invalidate \/ UNCHANGED <<open, bytes, contiguous, needed>>
  <2>1. Buffered' /\ packets' \subseteq Numbers /\ nextIndex' <= Total /\ ready' \in Seq(Numbers)
    BY <1>1, <1>4, PushLeaves
  <2>2. /\ open' \in {None} \cup (0 .. Frames - 1) /\ bytes' \in Seq(Numbers)
        /\ contiguous' \in BOOLEAN /\ needed' \in BOOLEAN
    BY <1>4, EmptySeq DEF Invalidate, Typed
  <2> QED BY <1>2, <2>1, <2>2 DEF Typed
<1> QED BY <1>3, <1>4 DEF Receive

\* So does a packet that is assembled (FrameAssembler::push).
LEMMA AssembleTyped ==
  ASSUME Typed, Assemble
  PROVE  Typed'
<1> DEFINE p == Head(ready)
           f == FrameOf(p)
<1>1. p \in Numbers /\ ready' \in Seq(Numbers)
  BY HeadTailProperties DEF Assemble, Typed
<1>2. f \in 0 .. Frames - 1
  BY <1>1, FrameNumbers
<1>3. Buffered'
  BY DEF Assemble, Typed, Buffered, reorderVars
<1>4. CASE ~ Joins(p)
  <2>1. open' = None /\ bytes' = <<>> /\ contiguous' = FALSE /\ needed' = TRUE /\ last' = last
    BY <1>4 DEF Assemble, Invalidate
  <2> QED BY <1>1, <1>3, <2>1, EmptySeq DEF Assemble, Typed, reorderVars, serverVars
<1>5. CASE Joins(p) /\ EndOfFrame(p)
  <2>1. /\ open' = None /\ bytes' = <<>> /\ contiguous' = TRUE /\ last' = f
        /\ needed' = StillNeeded(needed \/ Cut(p), f)
    BY <1>5 DEF Assemble
  <2>2. needed' \in BOOLEAN
    BY <2>1 DEF StillNeeded
  <2> QED BY <1>1, <1>2, <1>3, <2>1, <2>2 DEF Assemble, Typed, reorderVars, serverVars
<1>6. CASE Joins(p) /\ ~ EndOfFrame(p)
  <2>1. /\ open' = f /\ bytes' = (IF StartOfFrame(p) THEN <<p>> ELSE Append(bytes, p))
        /\ contiguous' = (contiguous /\ ~Cut(p)) /\ needed' = (needed \/ Cut(p)) /\ last' = last
    BY <1>6 DEF Assemble
  <2> HIDE DEF p
  <2>2. bytes' \in Seq(Numbers)
    <3>1. <<p>> \in Seq(Numbers) /\ Append(bytes, p) \in Seq(Numbers)
      BY <1>1 DEF Typed
    <3> QED BY <2>1, <3>1
  <2>3. contiguous' \in BOOLEAN /\ needed' \in BOOLEAN
    BY <2>1
  <2> QED BY <1>1, <1>2, <1>3, <2>1, <2>2, <2>3 DEF Assemble, Typed, reorderVars, serverVars
<1> QED BY <1>4, <1>5, <1>6

\* So does every step.
LEMMA NextTyped ==
  ASSUME Typed, Requests, [Next]_vars
  PROVE  Typed'
<1>1. ASSUME UNCHANGED reorderVars PROVE Buffered'
  BY <1>1 DEF Typed, Buffered, reorderVars
<1>2. CASE Serve
  <2>1. sent \in 0 .. Total - 1
    BY <1>2, TotalNat DEF Serve, Typed
  <2>2. sent' \in 0 .. Total /\ net' \subseteq 0 .. sent' - 1 /\ seen' \subseteq 0 .. sent' - 1
    BY <1>2, <2>1, TotalNat DEF Serve, Typed
  <2>3. asked' \in BOOLEAN /\ Buffered'
    BY <1>1, <1>2 DEF Serve, Typed
  <2> QED BY <1>2, <2>2, <2>3 DEF Serve, Typed, reorderVars, assemblerVars, handedVars
<1>3. ASSUME NEW p \in net, Lose(p) PROVE Typed'
  BY <1>1, <1>3 DEF Lose, Typed, reorderVars, assemblerVars, handedVars, feedbackVars
<1>4. ASSUME NEW p \in net, Receive(p) PROVE Typed'
  BY <1>4, ReceiveTyped
<1>5. CASE Assemble
  BY <1>5, AssembleTyped
<1>6. CASE Unusable
  <2>1. ready' \in Seq(Numbers)
    BY <1>6, HeadTailProperties DEF Unusable, Typed
  <2>2. open' = None /\ bytes' = <<>> /\ contiguous' = FALSE /\ needed' = TRUE /\ <<>> \in Seq(Numbers)
    BY <1>6, EmptySeq DEF Unusable, Invalidate
  <2> QED BY <1>1, <1>6, <2>1, <2>2 DEF Unusable, Typed, reorderVars, feedbackVars, serverVars
<1>7. ASSUME NEW s \in {"Running", "Paused", "RecoveryRequired", "Stopped"}, ResetTo(s)
      PROVE  Typed'
  <2>1. Buffered' /\ nextIndex' = None /\ packets' = {}
    BY <1>7, BufferedReset DEF ResetTo
  <2>2. nextIndex' <= Total
    BY <2>1, TotalNat DEF None
  <2> QED BY <1>7, <2>1, <2>2 DEF ResetTo, Typed, feedbackVars, serverVars
<1>8. CASE Pause \/ Resume \/ PollTimeout \/ Recover \/ Stop
  BY <1>7, <1>8 DEF Pause, Resume, PollTimeout, Recover, Stop
<1>9. CASE GapWaitPasses
  <2>1. gapWait' \in [for : Int, late : BOOLEAN] /\ nextIndex' = nextIndex /\ packets' = packets
    BY <1>9 DEF GapWaitPasses, GapGetsLate, Typed, Buffered
  <2>2. Buffered'
    BY <2>1 DEF Typed, Buffered
  <2> QED BY <1>9, <2>1, <2>2
      DEF GapWaitPasses, Typed, feedbackVars, serverVars, assemblerVars, handedVars
<1>10. ASSUME NEW k, NEW old, SendNack(k, old) PROVE Typed'
  <2>1. PICK written \in BOOLEAN :
          net' = IF written THEN net \cup {p \in Part(Kept(old)[k]).first .. Part(Kept(old)[k]).last : p < sent}
                 ELSE net
    BY <1>10 DEF SendNack
  <2>2. Kept(old) \in Seq(Apart(packets \cup Range(ready))) /\ k \in DOMAIN Kept(old)
    BY <1>10, KeptApart DEF SendNack, Requests
  <2>3. Part(Kept(old)[k]).first \in Nat /\ Part(Kept(old)[k]).last \in Nat
    BY <2>2, TakenApart
  <2>4. net' \subseteq 0 .. sent - 1
    <3> DEFINE a == Part(Kept(old)[k]).first
               b == Part(Kept(old)[k]).last
    <3> HIDE DEF a, b
    <3>1. a \in Nat /\ b \in Nat /\ (net' = net \cup {p \in a .. b : p < sent} \/ net' = net)
      BY <2>1, <2>3 DEF a, b
    <3>2. sent \in Nat /\ net \subseteq 0 .. sent - 1
      BY TotalNat DEF Typed
    <3>3. \A p \in a .. b : p < sent => p \in 0 .. sent - 1
      BY <3>1, <3>2
    <3> QED BY <3>1, <3>2, <3>3
  <2> QED BY <1>1, <1>10, <2>4 DEF SendNack, Typed, reorderVars, assemblerVars, handedVars
<1>11. CASE Ask
  <2>1. cooled' = FALSE /\ asked' \in BOOLEAN
    BY <1>11 DEF Ask, AskForKeyframe, Typed
  <2> QED BY <1>1, <1>11, <2>1 DEF Ask, Typed, reorderVars, assemblerVars, handedVars, serverVars
<1>12. CASE Cooled
  BY <1>1, <1>12
     DEF Cooled, CooldownPasses, Typed, reorderVars, assemblerVars, handedVars, serverVars
<1>13. CASE RequestKeyframe
  BY <1>1, <1>13
     DEF RequestKeyframe, Typed, reorderVars, feedbackVars, assemblerVars, serverVars
<1>14. CASE UNCHANGED vars
  BY <1>1, <1>14
     DEF vars, Typed, reorderVars, feedbackVars, serverVars, assemblerVars, handedVars
<1> QED BY <1>2, <1>3, <1>4, <1>5, <1>6, <1>8, <1>9, <1>10, <1>11, <1>12, <1>13, <1>14 DEF Next

-----------------------------------------------------------------------------
\* Every step keeps the requests to packets that are not here.

\* Where no NACK is added and no packet comes, none is asked for that is here.
LEMMA RequestsKept ==
  ASSUME Requests, nacks' = nacks \/ nacks' = <<>>,
         packets' \cup Range(ready') \subseteq packets \cup Range(ready)
  PROVE  Requests'
<1>1. nacks \in Seq(Apart(packets' \cup Range(ready')))
  BY ApartShrinks DEF Requests
<1>2. <<>> \in Seq(Apart(packets' \cup Range(ready')))
  BY EmptySeq
<1> QED BY <1>1, <1>2 DEF Requests

\* What is left of a sequence has no new elements.
LEMMA TailRange ==
  ASSUME NEW S, NEW q \in Seq(S), q # <<>>
  PROVE  Range(Tail(q)) \subseteq Range(q)
<1>1. Tail(q) \in Seq(S) /\ Len(Tail(q)) = Len(q) - 1 /\ Len(q) \in Nat \ {0}
      /\ \A i \in 1 .. Len(Tail(q)) : Tail(q)[i] = q[i + 1]
  OBVIOUS
<1>2. Range(q) = {q[i] : i \in 1 .. Len(q)} /\ Range(Tail(q)) = {Tail(q)[i] : i \in 1 .. Len(Tail(q))}
  BY <1>1, RangeEquality
<1> QED BY <1>1, <1>2

\* A datagram: resolve_nack takes its packet out of every range, and the push
\* that follows asks only for packets before the first one it holds.
LEMMA ReceiveRequests ==
  ASSUME Typed, Requests, NEW p \in net, Receive(p)
  PROVE  Requests'
<1> DEFINE r == Pushed(p)
           left == Resolved(nacks, p)
           S == packets \cup {p}
<1>1. p \in Numbers /\ p \in Nat
  BY TotalNat DEF Typed, Numbers
<1>2. ready = <<>> /\ Range(ready) = {}
  BY DEF Receive, Range
<1>3. left \in Seq(Apart(S))
  <2>1. packets \cup Range(ready) = packets
    BY <1>2
  <2>2. nacks \in Seq(Apart(packets))
    BY <2>1 DEF Requests
  <2> QED BY <1>1, <2>2, ResolvedApart
<1> HIDE DEF left
<1>4. CASE UNCHANGED <<reorderVars, nacks, ready>>
  BY <1>4, RequestsKept DEF reorderVars
<1>5. CASE nacks' = left /\ UNCHANGED <<reorderVars, ready>>
  <2>1. packets' \cup Range(ready') \subseteq S
    BY <1>2, <1>5 DEF reorderVars
  <2> QED BY <1>3, <1>5, <2>1, ApartShrinks DEF Requests
<1>6. CASE /\ ~ Stale(p) /\ Push(r) /\ ready' = r.ready
           /\ \/ nacks' = <<>>
              \/ nacks' = IF r.nack = <<>> THEN left ELSE Requested(left, r.nack[1], r.nack[2])
  <2>1. packets' \cup Range(ready') \subseteq S
    BY <1>1, <1>6, PushLeaves
  <2>2. nacks' \in Seq(Apart(S))
    <3>1. r.nack # <<>> => Requested(left, r.nack[1], r.nack[2]) \in Seq(Apart(S))
      <4>1. SUFFICES ASSUME r.nack # <<>>
                     PROVE  Requested(left, r.nack[1], r.nack[2]) \in Seq(Apart(S))
        OBVIOUS
      <4>2. /\ r.nack[1] \in Nat /\ r.nack[2] \in Nat /\ r.nack[1] <= r.nack[2]
            /\ (r.nack[1] .. r.nack[2]) \cap S = {}
        BY <1>1, <1>6, <4>1, PushedNack
      <4> HIDE DEF r, S
      <4> QED BY <1>3, <4>2, RequestedApart
    <3>2. <<>> \in Seq(Apart(S))
      BY EmptySeq
    <3> HIDE DEF r, S
    <3> QED BY <1>3, <1>6, <3>1, <3>2
  <2> QED BY <2>1, <2>2, ApartShrinks DEF Requests
<1> QED BY <1>4, <1>5, <1>6 DEF Receive, left, assemblerVars

\* Every step of the receive thread and of the bundle thread.
LEMMA NextRequests ==
  ASSUME Typed, Requests, [Next]_vars
  PROVE  Requests'
<1>1. ASSUME UNCHANGED <<packets, ready, nacks>> PROVE Requests'
  BY <1>1, RequestsKept
<1>2. ASSUME Serve \/ GapWaitPasses \/ Ask \/ Cooled \/ RequestKeyframe \/ UNCHANGED vars
      PROVE  Requests'
  BY <1>1, <1>2
     DEF Serve, GapWaitPasses, GapGetsLate, Ask, AskForKeyframe, Cooled, CooldownPasses,
         RequestKeyframe, vars, reorderVars, assemblerVars, feedbackVars
<1>3. ASSUME NEW p \in net, Lose(p) PROVE Requests'
  BY <1>1, <1>3 DEF Lose, reorderVars, assemblerVars, feedbackVars
<1>4. ASSUME NEW p \in net, Receive(p) PROVE Requests'
  BY <1>4, ReceiveRequests
<1>5. CASE Assemble \/ Unusable
  <2>1. ready # <<>> /\ ready' = Tail(ready) /\ packets' = packets
        /\ (nacks' = nacks \/ nacks' = <<>>)
    BY <1>5 DEF Assemble, Unusable, reorderVars, feedbackVars
  <2>2. Range(ready') \subseteq Range(ready)
    BY <2>1, TailRange DEF Typed
  <2> QED BY <2>1, <2>2, RequestsKept
<1>6. ASSUME NEW s, ResetTo(s) PROVE Requests'
  <2>1. packets' = {} /\ ready' = ready /\ nacks' = nacks
    BY <1>6 DEF ResetTo, ReorderReset, feedbackVars
  <2> QED BY <2>1, RequestsKept
<1>7. CASE Pause \/ Resume \/ PollTimeout \/ Recover \/ Stop
  BY <1>6, <1>7 DEF Pause, Resume, PollTimeout, Recover, Stop
<1>8. ASSUME NEW k, NEW old, SendNack(k, old) PROVE Requests'
  <2>1. PICK written \in BOOLEAN : nacks' = Taken(Kept(old), k, written)
    BY <1>8 DEF SendNack
  <2>2. Kept(old) \in Seq(Apart(packets \cup Range(ready))) /\ k \in DOMAIN Kept(old)
    BY <1>8, KeptApart DEF SendNack, Requests
  <2>3. nacks' \in Seq(Apart(packets \cup Range(ready)))
    BY <2>1, <2>2, TakenApart
  <2>4. packets' = packets /\ ready' = ready
    BY <1>8 DEF SendNack, reorderVars, assemblerVars
  <2> QED BY <2>3, <2>4 DEF Requests
<1> QED BY <1>2, <1>3, <1>4, <1>5, <1>7, <1>8 DEF Next

-----------------------------------------------------------------------------
\* Every step keeps a gap before what is buffered.

\* What is buffered after a step waits behind a gap whose clock runs.
LEMMA NextGap ==
  ASSUME Typed, GapIsWaitedFor, [Next]_vars
  PROVE  GapIsWaitedFor'
<1>1. ASSUME UNCHANGED reorderVars PROVE GapIsWaitedFor'
  BY <1>1 DEF GapIsWaitedFor, reorderVars
<1>2. ASSUME NEW p \in net, Receive(p) PROVE GapIsWaitedFor'
  <2>1. p \in Numbers
    BY TotalNat DEF Typed, Numbers
  <2>2. CASE UNCHANGED reorderVars
    BY <1>1, <2>2
  <2>3. CASE ~ Stale(p) /\ Push(Pushed(p)) /\ ready' = Pushed(p).ready
    BY <2>1, <2>3, PushLeaves
  <2> QED BY <1>2, <2>2, <2>3 DEF Receive
<1>3. ASSUME NEW s, ResetTo(s) PROVE GapIsWaitedFor'
  BY <1>3 DEF ResetTo, ReorderReset, GapIsWaitedFor
<1>4. CASE Pause \/ Resume \/ PollTimeout \/ Recover \/ Stop
  BY <1>3, <1>4 DEF Pause, Resume, PollTimeout, Recover, Stop
<1>5. CASE GapWaitPasses
  <2>1. gapWait'.for = gapWait.for /\ nextIndex' = nextIndex /\ packets' = packets
    BY <1>5 DEF GapWaitPasses, GapGetsLate, Typed, Buffered
  <2> QED BY <2>1 DEF GapIsWaitedFor
<1> QED BY <1>1, <1>2, <1>4, <1>5
    DEF Next, Serve, Lose, Assemble, Unusable, SendNack, Ask, Cooled, RequestKeyframe, vars

-----------------------------------------------------------------------------
\* The invariant, and what follows from it.

\* The invariant holds throughout, whatever the network loses, reorders or
\* sends again and whenever the bundle thread takes a NACK.
THEOREM InvInductive == Spec => []Inv
<1>1. Init => Inv
  <2> SUFFICES ASSUME Init PROVE Inv
    OBVIOUS
  <2>1. Typed
    BY InitTyped
  <2>2. Requests
    BY EmptySeq DEF Init, FeedbackInit, Requests
  <2>3. GapIsWaitedFor
    BY DEF Init, ReorderInit, GapIsWaitedFor
  <2> QED BY <2>1, <2>2, <2>3 DEF Inv
<1>2. Inv /\ [Next]_vars => Inv'
  BY NextTyped, NextRequests, NextGap DEF Inv
<1> QED BY <1>1, <1>2, PTL DEF Spec

\* The receiver's state keeps its types: no index leaves the stream, and the
\* frame that is open and the last one handed over are frames of it.
THEOREM TypeCorrect == Spec => []TypeOK
<1>1. Inv => TypeOK
  BY StreamAssumption DEF Inv, Typed, Buffered, TypeOK, Numbers, NoFrame, None
<1> QED BY <1>1, InvInductive, PTL

\* No retransmission is asked for of a packet that is buffered or ready
\* (request_nack, resolve_nack, take_nack: "genuinely absent"), for windows,
\* streams and NACK limits of any size.
THEOREM NacksAbsent == Spec => []NacksAreAbsent
<1>1. Inv => NacksAreAbsent
  BY DEF Inv, Requests, NacksAreAbsent, Apart
<1> QED BY <1>1, InvInductive, PTL

\* What is buffered waits behind a gap whose clock runs, and fits the window
\* (RtpReorderBuffer::push, "first_available > expected"), for every window.
THEOREM GapWaited == Spec => []GapIsWaitedFor
<1>1. Inv => GapIsWaitedFor
  BY DEF Inv
<1> QED BY <1>1, InvInductive, PTL

-----------------------------------------------------------------------------
\* What is handed over, and when it can be called contiguous wrongly.

\* No push hands out the end of a frame and, behind a gap that it has given up,
\* more packets: what it gives up, it gives up before any frame ends.
EndsBehindGaps ==
  \A j, k \in 1 .. Len(ready) - 1 :
    j <= k /\ ready[k + 1] # ready[k] + 1 => ~ EndOfFrame(ready[j])

\* A packet is missing among those that are ready.
Broken == \E k \in 1 .. Len(ready) - 1 : ready[k + 1] # ready[k] + 1

\* The packet the assembler meets next.
Upcoming == IF ready = <<>> THEN nextIndex ELSE ready[1]

\* The next index follows the packets that are ready,
ReadyChain == ready # <<>> => ready[Len(ready)] + 1 = nextIndex

\* these follow the packets of the open frame, which has not ended,
OpenChain ==
  open # None => /\ bytes # <<>>
                 /\ ~ EndOfFrame(bytes[Len(bytes)])
                 /\ contiguous => bytes[Len(bytes)] + 1 = Upcoming

\* and that frame follows the last one, wherever a contiguous one is next.
FrameChain ==
  contiguous /\ last # NoFrame =>
    IF open = None THEN Upcoming = First(last + 1) ELSE open = last + 1

Chain == ReadyChain /\ OpenChain /\ FrameChain /\ (Broken => ~ contiguous)

\* The last element of a sequence is one of its elements.
LEMMA LastElement ==
  ASSUME NEW S, NEW q \in Seq(S), q # <<>>
  PROVE  q[Len(q)] \in S
<1>1. Len(q) \in 1 .. Len(q)
  OBVIOUS
<1> QED BY <1>1, ElementOfSeq

\* The packets that are ready, with the first one taken off.
LEMMA ReadyFacts ==
  ASSUME Typed, ready # <<>>
  PROVE  /\ Head(ready) = ready[1] /\ Head(ready) \in Numbers /\ Head(ready) \in Nat
         /\ Tail(ready) \in Seq(Numbers) /\ Len(ready) \in Nat \ {0}
         /\ Len(Tail(ready)) = Len(ready) - 1
         /\ \A k \in 1 .. Len(ready) - 1 : Tail(ready)[k] = ready[k + 1]
         /\ Tail(ready) # <<>> <=> Len(ready) > 1
         /\ \A k \in 1 .. Len(ready) : ready[k] \in Nat
<1>1. ready \in Seq(Numbers) /\ Numbers \subseteq Nat
  BY TotalNat DEF Typed, Numbers
<1> HIDE DEF Numbers
<1>2. Len(ready) \in Nat \ {0} /\ \A k \in 1 .. Len(ready) : ready[k] \in Numbers
  BY <1>1
<1>3. Head(ready) = ready[1] /\ Head(ready) \in Numbers
  BY <1>1
<1>4. /\ Tail(ready) \in Seq(Numbers) /\ Len(Tail(ready)) = Len(ready) - 1
      /\ \A k \in 1 .. Len(ready) - 1 : Tail(ready)[k] = ready[k + 1]
  BY <1>1
<1> DEFINE t == Tail(ready)
<1> HIDE DEF t
<1>5. /\ t \in Seq(Numbers) /\ Len(t) = Len(ready) - 1
      /\ \A k \in 1 .. Len(ready) - 1 : t[k] = ready[k + 1]
  BY <1>4 DEF t
<1>6. t # <<>> <=> Len(t) # 0
  BY <1>5
<1>7. t # <<>> <=> Len(ready) > 1
  BY <1>2, <1>5, <1>6
<1>8. \A k \in 1 .. Len(ready) : ready[k] \in Nat
  BY <1>1, <1>2
<1>9. Head(ready) \in Nat
  BY <1>1, <1>3
<1> QED BY <1>2, <1>3, <1>5, <1>7, <1>8, <1>9 DEF t

\* Where a packet is missing behind the first, one is missing.
LEMMA TailBroken ==
  ASSUME Typed, ready # <<>>, ready' = Tail(ready)
  PROVE  Broken' => Broken
<1> DEFINE t == Tail(ready)
<1>1. /\ Len(ready) \in Nat \ {0} /\ Len(t) = Len(ready) - 1
      /\ \A k \in 1 .. Len(ready) - 1 : t[k] = ready[k + 1]
  BY ReadyFacts
<1> HIDE DEF t
<1> SUFFICES ASSUME NEW k \in 1 .. Len(t) - 1, t[k + 1] # t[k] + 1
             PROVE  Broken
  BY DEF Broken, t
<1>2. k + 1 \in 1 .. Len(ready) - 1 /\ t[k] = ready[k + 1] /\ t[k + 1] = ready[(k + 1) + 1]
  BY <1>1
<1> QED BY <1>2 DEF Broken

\* A turn of the loop moves on by one packet, unless a gap follows.
LEMMA UpcomingMoves ==
  ASSUME Typed, ReadyChain, ready # <<>>, ready' = Tail(ready), nextIndex' = nextIndex
  PROVE  /\ ReadyChain'
         /\ Broken' => Broken
         /\ ~ Broken \/ (EndsBehindGaps /\ EndOfFrame(ready[1])) => Upcoming' = ready[1] + 1
<1> DEFINE t == Tail(ready)
<1>1. /\ Len(ready) \in Nat \ {0} /\ Len(t) = Len(ready) - 1
      /\ \A k \in 1 .. Len(ready) - 1 : t[k] = ready[k + 1]
      /\ t # <<>> <=> Len(ready) > 1
  BY ReadyFacts
<1> HIDE DEF t
<1>2. Broken' => Broken
  BY TailBroken
<1>3. CASE t = <<>>
  <2>1. Len(ready) = 1 /\ ready[1] + 1 = nextIndex
    BY <1>1, <1>3 DEF ReadyChain
  <2>2. ReadyChain' /\ Upcoming' = ready[1] + 1
    BY <1>3, <2>1 DEF ReadyChain, Upcoming, t
  <2> QED BY <1>2, <2>2
<1>4. CASE t # <<>>
  <2>1. ready' = t
    BY DEF t
  <2>2. t[1] = ready[2] /\ t[Len(t)] = ready[Len(ready)] /\ 1 \in 1 .. Len(ready) - 1
    BY <1>1, <1>4
  <2>3. ReadyChain' /\ Upcoming' = ready[2]
    BY <1>4, <2>1, <2>2 DEF ReadyChain, Upcoming
  <2>4. ~ Broken \/ (EndsBehindGaps /\ EndOfFrame(ready[1])) => ready[2] = ready[1] + 1
    BY <2>2 DEF Broken, EndsBehindGaps
  <2> QED BY <1>2, <2>3, <2>4
<1> QED BY <1>3, <1>4

\* While a frame is open, no packet that starts another one is next, if the
\* frame would be contiguous or the packet is all of its frame.
LEMMA NoCut ==
  ASSUME Typed, OpenChain, ready # <<>>, open # None,
         contiguous \/ EndOfFrame(ready[1])
  PROVE  ~ StartOfFrame(ready[1])
<1> DEFINE b == bytes[Len(bytes)]
<1>1. (contiguous => b + 1 = ready[1]) /\ ~ EndOfFrame(b) /\ bytes # <<>>
  BY DEF OpenChain, Upcoming
<1>2. b \in Nat
  <2>1. bytes \in Seq(Numbers) /\ Numbers \subseteq Nat
    BY TotalNat DEF Typed, Numbers
  <2> QED BY <2>1, <1>1, LastElement
<1> HIDE DEF b
<1>3. CASE contiguous
  BY <1>1, <1>2, <1>3, NextPacket
<1>4. CASE EndOfFrame(ready[1])
  <2>1. SUFFICES ASSUME StartOfFrame(ready[1]) PROVE FALSE
    OBVIOUS
  <2>2. FrameSize = 1
    BY <1>4, <2>1, StreamAssumption DEF StartOfFrame, EndOfFrame
  <2>3. b % FrameSize \in 0 .. FrameSize - 1
    BY <1>2, Division, StreamAssumption
  <2> QED BY <1>1, <2>2, <2>3 DEF EndOfFrame
<1> QED BY <1>3, <1>4

\* The frame of the packet the assembler takes, while it would be contiguous.
LEMMA FrameFollows ==
  ASSUME Typed, Chain, ready # <<>>, Joins(ready[1]), contiguous, last # NoFrame
  PROVE  FrameOf(ready[1]) = last + 1
<1>1. last \in Nat /\ last + 1 \in Nat
  BY StreamAssumption DEF Typed, NoFrame
<1>2. CASE open = None
  <2>1. ready[1] = First(last + 1)
    BY <1>2 DEF Chain, FrameChain, Upcoming
  <2> QED BY <1>1, <2>1, FirstPacket
<1>3. CASE open # None
  <2>1. ~ StartOfFrame(ready[1])
    BY <1>3, NoCut DEF Chain
  <2>2. open = FrameOf(ready[1]) /\ open = last + 1
    BY <1>3, <2>1 DEF Joins, Chain, FrameChain
  <2> QED BY <2>2
<1> QED BY <1>2, <1>3

\* Nothing is open, ready or handed over at the start.
LEMMA InitChain == Init => Chain
BY DEF Init, Chain, ReadyChain, OpenChain, FrameChain, Broken

\* A datagram whose push gives up no gap goes on where the chain ends; one
\* whose push does breaks it (invalidate_picture).
LEMMA ReceiveChain ==
  ASSUME Typed, Chain, NEW p \in net, Receive(p)
  PROVE  Chain'
<1>1. p \in Numbers /\ p \in Nat /\ ready = <<>>
  BY TotalNat DEF Receive, Typed, Numbers
<1>2. CASE UNCHANGED <<reorderVars, assemblerVars, contiguous, needed, last>>
  BY <1>2 DEF Chain, ReadyChain, OpenChain, FrameChain, Upcoming, Broken, reorderVars, assemblerVars
<1>3. CASE /\ ~ Stale(p) /\ Push(Pushed(p)) /\ ready' = Pushed(p).ready /\ last' = last
           /\ IF Pushed(p).gap THEN Invalidate
              ELSE UNCHANGED <<open, bytes, contiguous, needed>>
  <2> DEFINE r == Pushed(p)
             S == packets \cup {p}
  <2>1. Handed(r, S, Expected(p))
    BY <1>1, <1>3, PushLeaves
  <2>2. nextIndex' = r.next /\ ready' = r.ready
    BY <1>3 DEF Push
  <2>3. ReadyChain'
    BY <2>1, <2>2 DEF Handed, ReadyChain
  <2>4. ~ r.gap => ~ Broken'
    BY <2>1, <2>2 DEF Handed, Broken
  <2>5. CASE r.gap
    <3>1. open' = None /\ contiguous' = FALSE
      BY <1>3, <2>5 DEF Invalidate
    <3> QED BY <2>3, <3>1 DEF Chain, OpenChain, FrameChain
  <2>6. CASE ~ r.gap
    <3>1. open' = open /\ bytes' = bytes /\ contiguous' = contiguous /\ last' = last
      BY <1>3, <2>6
    <3>2. Upcoming' = Expected(p)
      BY <2>1, <2>2, <2>6 DEF Handed, Upcoming
    <3>3. CASE nextIndex # None
      <4>1. Upcoming' = Upcoming
        BY <1>1, <3>2, <3>3 DEF Expected, Upcoming
      <4> QED BY <2>3, <2>4, <2>6, <3>1, <4>1 DEF Chain, OpenChain, FrameChain
    <3>4. CASE nextIndex = None
      <4>1. Upcoming = -1
        BY <1>1, <3>4 DEF Upcoming, None
      <4>2. contiguous => open = None
        <5>1. SUFFICES ASSUME contiguous, open # None PROVE FALSE
          OBVIOUS
        <5>2. bytes \in Seq(Numbers) /\ Numbers \subseteq Nat
          BY TotalNat DEF Typed, Numbers
        <5>3. bytes # <<>> /\ bytes[Len(bytes)] + 1 = -1
          BY <4>1, <5>1 DEF Chain, OpenChain
        <5>4. bytes[Len(bytes)] \in Nat
          BY <5>2, <5>3, LastElement
        <5> QED BY <5>3, <5>4
      <4>3. ~ (contiguous /\ last # NoFrame)
        <5>1. SUFFICES ASSUME contiguous, last # NoFrame PROVE FALSE
          OBVIOUS
        <5>2. First(last + 1) = -1
          BY <4>1, <4>2, <5>1 DEF Chain, FrameChain
        <5>3. last + 1 \in Nat
          BY <5>1, StreamAssumption DEF Typed, NoFrame
        <5> QED BY <5>2, <5>3, FirstPacket
      <4> QED BY <2>3, <2>4, <2>6, <3>1, <4>2, <4>3 DEF Chain, OpenChain, FrameChain
    <3> QED BY <3>3, <3>4
  <2> QED BY <2>5, <2>6
<1> QED BY <1>2, <1>3 DEF Receive, assemblerVars

\* The end of a frame, with nothing missing behind it in this push, is the
\* start of the next.
LEMMA AssembleChain ==
  ASSUME Typed, Chain, EndsBehindGaps, Assemble
  PROVE  Chain'
<1> DEFINE p == ready[1]
           f == FrameOf(p)
<1>1. ready # <<>> /\ ready' = Tail(ready) /\ nextIndex' = nextIndex
  BY DEF Assemble, reorderVars
<1>2. Head(ready) = p /\ p \in Numbers /\ p \in Nat
  BY <1>1, ReadyFacts
<1>3. /\ ReadyChain' /\ (Broken' => Broken)
      /\ contiguous \/ EndOfFrame(p) => Upcoming' = p + 1
  BY <1>1, UpcomingMoves DEF Chain
<1>4. f \in 0 .. Frames - 1
  BY <1>2, FrameNumbers
<1>5. contiguous /\ last # NoFrame /\ Joins(p) => f = last + 1
  BY <1>1, FrameFollows
<1> HIDE DEF p
<1>6. CASE ~ Joins(p)
  <2>1. open' = None /\ contiguous' = FALSE
    BY <1>2, <1>6 DEF Assemble, Invalidate
  <2> QED BY <1>3, <2>1 DEF Chain, OpenChain, FrameChain
<1>7. CASE Joins(p) /\ EndOfFrame(p)
  <2>1. open' = None /\ last' = f
    BY <1>2, <1>7 DEF Assemble
  <2>2. p + 1 = First(f + 1)
    BY <1>2, <1>7, NextPacket
  <2>3. ~ Broken'
    <3>1. SUFFICES ASSUME NEW k \in 1 .. Len(ready') - 1, ready'[k + 1] # ready'[k] + 1
                   PROVE  FALSE
      BY DEF Broken
    <3>2. /\ Len(ready') = Len(ready) - 1 /\ Len(ready) \in Nat
          /\ \A i \in 1 .. Len(ready) - 1 : ready'[i] = ready[i + 1]
      BY <1>1, ReadyFacts
    <3>3. k + 1 \in 1 .. Len(ready) - 1 /\ 1 \in 1 .. Len(ready) - 1 /\ 1 <= k + 1
          /\ ready[(k + 1) + 1] # ready[k + 1] + 1
      BY <3>1, <3>2
    <3>4. ~ EndOfFrame(ready[1])
      BY <3>3 DEF EndsBehindGaps
    <3> QED BY <1>7, <3>4 DEF p
  <2> QED BY <1>3, <1>7, <2>1, <2>2, <2>3 DEF Chain, OpenChain, FrameChain
<1>8. CASE Joins(p) /\ ~ EndOfFrame(p)
  <2>1. /\ open' = f /\ bytes' = (IF StartOfFrame(p) THEN <<p>> ELSE Append(bytes, p))
        /\ (contiguous' => contiguous) /\ last' = last
    BY <1>2, <1>8 DEF Assemble
  <2>2. open' # None
    BY <1>4, <2>1 DEF None
  <2>3. bytes' # <<>> /\ bytes'[Len(bytes')] = p
    <3>1. bytes \in Seq(Numbers)
      BY DEF Typed
    <3>2. <<p>> # <<>> /\ <<p>>[Len(<<p>>)] = p
      OBVIOUS
    <3>3. Append(bytes, p) # <<>> /\ Append(bytes, p)[Len(Append(bytes, p))] = p
      BY <1>2, <3>1
    <3> QED BY <2>1, <3>2, <3>3
  <2>4. OpenChain'
    BY <1>3, <1>8, <2>1, <2>3 DEF OpenChain
  <2>5. FrameChain'
    BY <1>5, <1>8, <2>1, <2>2 DEF FrameChain, NoFrame
  <2> QED BY <1>3, <2>1, <2>4, <2>5 DEF Chain
<1> QED BY <1>6, <1>7, <1>8

\* So does every step.
LEMMA NextChain ==
  ASSUME Typed, Chain, EndsBehindGaps, [Next]_vars
  PROVE  Chain'
<1>1. ASSUME UNCHANGED <<reorderVars, assemblerVars, contiguous, last>> PROVE Chain'
  BY <1>1 DEF Chain, ReadyChain, OpenChain, FrameChain, Upcoming, Broken, reorderVars, assemblerVars
<1>2. ASSUME NEW p \in net, Receive(p) PROVE Chain'
  BY <1>2, ReceiveChain
<1>3. CASE Assemble
  BY <1>3, AssembleChain
<1>4. CASE Unusable
  <2>1. ready # <<>> /\ ready' = Tail(ready) /\ nextIndex' = nextIndex
        /\ open' = None /\ contiguous' = FALSE
    BY <1>4 DEF Unusable, Invalidate, reorderVars
  <2>2. ReadyChain'
    BY <2>1, UpcomingMoves DEF Chain
  <2> QED BY <2>1, <2>2 DEF Chain, OpenChain, FrameChain
<1>5. ASSUME NEW s, ResetTo(s) PROVE Chain'
  BY <1>5 DEF ResetTo, Chain, ReadyChain, OpenChain, FrameChain
<1>6. CASE Pause \/ Resume \/ PollTimeout \/ Recover \/ Stop
  BY <1>5, <1>6 DEF Pause, Resume, PollTimeout, Recover, Stop
<1>7. CASE GapWaitPasses
  BY <1>7 DEF GapWaitPasses, GapGetsLate, Chain, ReadyChain, OpenChain, FrameChain, Upcoming, Broken,
              assemblerVars, handedVars
<1> QED BY <1>1, <1>2, <1>3, <1>4, <1>6, <1>7
    DEF Next, Serve, Lose, SendNack, Ask, Cooled, RequestKeyframe, vars, handedVars

\* As long as no push hands out the end of a frame and more packets behind a
\* gap, the open frame, the packets that are ready and the next index are one
\* chain, from the last frame on, whenever the next frame would be called
\* contiguous (FrameAssembler::push, PacketGap).
THEOREM ChainKept == Spec /\ []EndsBehindGaps => []Chain
<1>1. Init => Chain
  BY InitChain
<1>2. Inv /\ Chain /\ EndsBehindGaps /\ [Next]_vars => Chain'
  BY NextChain DEF Inv
<1> QED BY <1>1, <1>2, InvInductive, PTL DEF Spec

\* No frame is called contiguous over a loss ("Never let the following P-frame
\* look contiguous to the decoder"), as long as no push hands out the end of a
\* frame and, behind a gap it has given up, more packets: the order of
\* process_datagram, which invalidates once and then assembles everything
\* that is ready, can go wrong in no other way.
THEOREM NoLossIsSilent == Spec /\ []EndsBehindGaps => []NoSilentLoss
<1>1. Inv /\ Chain => NoSilentLoss
  <2> SUFFICES ASSUME Inv, Chain, contiguous, last # NoFrame, open # last + 1
               PROVE  (IF ready = <<>> THEN nextIndex ELSE Head(ready)) <= First(last + 1)
    BY DEF NoSilentLoss
  <2>1. Typed /\ last + 1 \in Nat
    BY StreamAssumption DEF Inv, Typed, NoFrame
  <2>2. Upcoming = First(last + 1)
    BY DEF Chain, FrameChain
  <2>3. (IF ready = <<>> THEN nextIndex ELSE Head(ready)) = Upcoming
    BY <2>1, ReadyFacts DEF Upcoming
  <2>4. First(last + 1) \in Nat
    BY <2>1, FirstPacket
  <2> QED BY <2>2, <2>3, <2>4
<1> QED BY <1>1, InvInductive, ChainKept, PTL

\* Under the same condition the receiver implements the abstract source of
\* frames: what it calls contiguous follows the frame before it, and only a
\* keyframe ends a request for one (publish_completed_frame).
THEOREM HandsOverInOrder == Spec /\ []EndsBehindGaps => HandsOver
<1>1. Init => Source!SourceInit
  BY DEF Init, Source!SourceInit, Source!NoFrame, NoFrame
<1>2. ASSUME Inv, Chain, EndsBehindGaps, [Next]_vars PROVE [Source!SourceNext]_Source!sourceVars
  <2>1. Typed
    BY <1>2 DEF Inv
  <2>2. ASSUME UNCHANGED handedVars PROVE UNCHANGED Source!sourceVars
    BY <2>2 DEF handedVars, Source!sourceVars
  <2>3. ASSUME Invalidate, last' = last PROVE Source!SourceNext
    BY <2>3 DEF Invalidate, Source!SourceNext, Source!Invalidate
  <2>4. ASSUME NEW p \in net, Receive(p) PROVE [Source!SourceNext]_Source!sourceVars
    <3>1. last' = last /\ (Invalidate \/ UNCHANGED <<contiguous, needed>>)
      BY <2>4 DEF Receive
    <3> QED BY <2>2, <2>3, <3>1 DEF handedVars
  <2>5. CASE Assemble
    <3> DEFINE p == ready[1]
               f == FrameOf(p)
    <3>1. ready # <<>>
      BY <2>5 DEF Assemble
    <3>2. Head(ready) = p /\ p \in Numbers /\ f \in 0 .. Frames - 1
      BY <2>1, <3>1, ReadyFacts, FrameNumbers
    <3>3. contiguous /\ last # NoFrame /\ Joins(p) => f = last + 1
      BY <1>2, <2>1, <3>1, FrameFollows
    <3>4. EndOfFrame(p) => ~ Cut(p)
      BY <1>2, <2>1, <3>1, NoCut DEF Cut, Chain
    <3> HIDE DEF p
    <3>5. CASE ~ Joins(p)
      BY <2>3, <2>5, <3>2, <3>5 DEF Assemble
    <3>6. CASE Joins(p) /\ EndOfFrame(p)
      <4>1. last' = f /\ contiguous' = TRUE /\ needed' = StillNeeded(needed, f)
        BY <2>5, <3>2, <3>4, <3>6 DEF Assemble, StillNeeded
      <4>2. contiguous => last = Source!NoFrame \/ f = Source!After(last)
        <5>1. SUFFICES ASSUME contiguous, last # NoFrame PROVE f = (last + 1) % (Frames + 1)
          BY DEF Source!NoFrame, Source!After, NoFrame
        <5>2. f = last + 1 /\ f \in Nat /\ f < Frames + 1 /\ Frames + 1 \in Nat
          BY <3>2, <3>3, <3>6, <5>1, StreamAssumption
        <5>3. f % (Frames + 1) = f
          BY <5>2
        <5> QED BY <5>2, <5>3
      <4>3. Source!Hand(f, f \in keys)
        BY <4>1, <4>2 DEF Source!Hand, StillNeeded
      <4>4. f \in 0 .. (Frames + 1) - 1 /\ (f \in keys) \in BOOLEAN
        BY <3>2, StreamAssumption
      <4>5. \E n \in 0 .. (Frames + 1) - 1, key \in BOOLEAN : Source!Hand(n, key)
        BY <4>3, <4>4, Zenon
      <4>6. Source!SourceNext
        BY <4>5, Zenon DEF Source!SourceNext
      <4> QED BY <4>6
    <3>7. CASE Joins(p) /\ ~ EndOfFrame(p)
      <4>1. /\ contiguous' = (contiguous /\ ~Cut(p)) /\ needed' = (needed \/ Cut(p))
            /\ last' = last
        BY <2>5, <3>2, <3>7 DEF Assemble
      <4>2. CASE Cut(p)
        <5>1. contiguous' = FALSE /\ needed' = TRUE
          BY <4>1, <4>2
        <5> QED BY <4>1, <5>1 DEF Source!SourceNext, Source!Invalidate
      <4>3. CASE ~ Cut(p)
        <5>1. contiguous' = contiguous /\ needed' = needed
          BY <2>1, <4>1, <4>3 DEF Typed
        <5> QED BY <2>2, <4>1, <5>1 DEF handedVars
      <4> QED BY <4>2, <4>3
    <3> QED BY <3>5, <3>6, <3>7
  <2>6. CASE Unusable
    BY <2>3, <2>6 DEF Unusable
  <2>7. ASSUME NEW s, ResetTo(s) PROVE Source!SourceNext
    BY <2>7 DEF ResetTo, Source!SourceNext, Source!ResetMedia
  <2>8. CASE Pause \/ Resume \/ PollTimeout \/ Recover \/ Stop
    BY <2>7, <2>8 DEF Pause, Resume, PollTimeout, Recover, Stop
  <2>9. CASE RequestKeyframe
    BY <2>9 DEF RequestKeyframe, Source!SourceNext, Source!RequestKeyframe
  <2> QED BY <1>2, <2>2, <2>4, <2>5, <2>6, <2>8, <2>9
      DEF Next, Serve, Lose, GapWaitPasses, SendNack, Ask, Cooled, vars
<1> QED BY <1>1, <1>2, InvInductive, ChainKept, PTL DEF Spec, HandsOver, Source!SourceSpec

-----------------------------------------------------------------------------
\* A condition on the network under which no push gives up two gaps.

\* No packet comes a whole window ahead while others are buffered.
InWindow == \A p \in net : packets # {} /\ Receive(p) => p - nextIndex < MaxPackets

\* The loop, begun at b: once a packet has left, no clock runs yet for the next
\* gap, and the window has room.
OneGap(s, b) ==
  /\ \A k \in 1 .. Len(s.ready) - 1 : s.ready[k + 1] = s.ready[k] + 1
  /\ b <= s.next
  /\ ~ s.stopped => s.wait.for <= s.next
  /\ ~ s.stopped /\ s.ready # <<>> => /\ s.wait.for < s.next
                                      /\ Cardinality(s.held) < MaxPackets

\* A turn that finds a packet gone before gives up no gap.
LEMMA TurnKeepsOneGap ==
  ASSUME NEW S, S \subseteq Nat, IsFiniteSet(S), Cardinality(S) <= MaxPackets,
         NEW e \in Nat, NEW b \in Nat, \A x \in S : x < b + MaxPackets,
         NEW s, Stage(s, S, e), OneGap(s, b)
  PROVE  OneGap(Turn(s), b)
<1> DEFINE p == Min(s.held)
           wait == IF s.wait.for = s.next THEN s.wait
                   ELSE [for |-> s.next, late |-> FALSE]
<1>1. s \in LoopType(S) /\ s.held \subseteq S /\ s.ready \in Seq(S) /\ s.next \in Nat
      /\ s.wait \in [for : Int, late : BOOLEAN] /\ s.stopped \in BOOLEAN
  BY DEF Stage, LoopType
<1>2. CASE s.stopped \/ s.held = {}
  <2>1. Turn(s) = s
    BY <1>2 DEF Turn
  <2> QED BY <2>1
<1>3. CASE ~ s.stopped /\ s.held # {}
  <2>1. p \in s.held /\ p \in S /\ p \in Nat /\ p >= s.next
    <3>1. Ordered(s, S)
      BY DEF Stage
    <3> QED BY <1>1, <1>3, <3>1, MinIsLeast DEF Ordered
  <2>2. Cardinality(s.held) \in Nat /\ Cardinality(s.held \ {p}) = Cardinality(s.held) - 1
        /\ Cardinality(s.held) <= MaxPackets
    <3>1. IsFiniteSet(s.held) /\ Cardinality(s.held) <= Cardinality(S)
      BY <1>1, FS_Subset
    <3>2. Cardinality(s.held) \in Nat /\ Cardinality(S) \in Nat
      BY <3>1, FS_CardinalityType
    <3>3. Cardinality(s.held \ {p}) = Cardinality(s.held) - 1
      BY <2>1, <3>1, FS_RemoveElement
    <3> QED BY <3>1, <3>2, <3>3, WindowAssumption
  <2>3. /\ b <= s.next /\ s.wait.for <= s.next
        /\ s.ready # <<>> => /\ s.wait.for < s.next /\ Cardinality(s.held) < MaxPackets
                             /\ s.ready[Len(s.ready)] + 1 = s.next
    BY <1>3 DEF OneGap, Stage, Handed
  <2>4. ASSUME NEW t, t.next = p + 1, t.ready = Append(s.ready, p), t.held = s.held \ {p},
               t.wait.for \in Int, t.wait.for <= s.next, t.stopped = FALSE,
               p = s.next \/ s.ready = <<>>
        PROVE  OneGap(t, b)
    <3>1. \A k \in 1 .. Len(t.ready) - 1 : t.ready[k + 1] = t.ready[k] + 1
      <4>1. /\ Len(t.ready) = Len(s.ready) + 1 /\ Len(s.ready) \in Nat
            /\ t.ready[Len(s.ready) + 1] = p
            /\ \A k \in 1 .. Len(s.ready) : t.ready[k] = s.ready[k]
        BY <1>1, <2>1, <2>4, AppendProperties, LenProperties
      <4>2. s.ready = <<>> <=> Len(s.ready) = 0
        BY <1>1
      <4>3. \A k \in 1 .. Len(s.ready) - 1 : s.ready[k + 1] = s.ready[k] + 1
        BY DEF OneGap
      <4> HIDE DEF p
      <4> SUFFICES ASSUME NEW k \in 1 .. Len(s.ready) PROVE t.ready[k + 1] = t.ready[k] + 1
        BY <4>1
      <4>4. CASE k = Len(s.ready)
        <5>1. s.ready # <<>> /\ p = s.next
          BY <2>4, <4>1, <4>2
        <5> QED BY <2>3, <4>1, <4>4, <5>1
      <4>5. CASE k # Len(s.ready)
        <5>1. k \in 1 .. Len(s.ready) - 1 /\ k + 1 \in 1 .. Len(s.ready)
          BY <4>1, <4>5
        <5> QED BY <4>1, <4>3, <5>1
      <4> QED BY <4>4, <4>5
    <3> HIDE DEF p
    <3>2. b <= t.next
      BY <1>1, <2>1, <2>3, <2>4
    <3>3. t.wait.for < t.next
      BY <1>1, <2>1, <2>4
    <3>4. Cardinality(t.held) < MaxPackets
      BY <2>2, <2>4, WindowAssumption
    <3>5. t.wait.for <= t.next
      BY <1>1, <2>1, <2>4
    <3> QED BY <2>4, <3>1, <3>2, <3>3, <3>4, <3>5 DEF OneGap
  <2>5. CASE p = s.next
    <3>1. Turn(s) = InTurn(s, p)
      BY <1>3, <2>5 DEF Turn
    <3>2. /\ InTurn(s, p).next = p + 1 /\ InTurn(s, p).ready = Append(s.ready, p)
          /\ InTurn(s, p).held = s.held \ {p} /\ InTurn(s, p).wait = s.wait
          /\ InTurn(s, p).stopped = FALSE
      BY <1>1, <1>3 DEF InTurn, LoopType
    <3>3. s.wait.for \in Int
      BY <1>1
    <3> HIDE DEF p
    <3> QED BY <2>3, <2>4, <2>5, <3>1, <3>2, <3>3
  <2>6. CASE p # s.next /\ s.ready = <<>> /\ (Exceeded(s, p) \/ wait.late)
    <3>1. Turn(s) = OverGap(s, p)
      BY <1>3, <2>6 DEF Turn
    <3>2. /\ OverGap(s, p).next = p + 1 /\ OverGap(s, p).ready = Append(s.ready, p)
          /\ OverGap(s, p).held = s.held \ {p} /\ OverGap(s, p).wait = NoGap
          /\ OverGap(s, p).stopped = FALSE
      BY <1>1, <1>3 DEF OverGap, InTurn, LoopType
    <3>3. NoGap.for <= s.next /\ NoGap.for \in Int
      BY <1>1 DEF NoGap, None
    <3> HIDE DEF p
    <3> QED BY <2>4, <2>6, <3>1, <3>2, <3>3
  <2>7. CASE p # s.next /\ s.ready # <<>> /\ (Exceeded(s, p) \/ wait.late)
    <3>1. ~ wait.late
      BY <1>1, <2>3, <2>7
    <3>2. p - s.next < MaxPackets
      <4>1. p < b + MaxPackets
        BY <2>1
      <4> HIDE DEF p
      <4> QED BY <1>1, <2>1, <2>3, <4>1, WindowAssumption
    <3>3. ~ Exceeded(s, p)
      BY <1>1, <2>1, <2>2, <2>3, <2>7, <3>2, WindowAssumption DEF Exceeded
    <3> QED BY <2>7, <3>1, <3>3
  <2>8. CASE p # s.next /\ ~ (Exceeded(s, p) \/ wait.late)
    <3> DEFINE t == [s EXCEPT !.wait = wait, !.nack = <<s.next, p - 1>>, !.stopped = TRUE]
    <3>1. Turn(s) = t
      BY <1>3, <2>8 DEF Turn
    <3>2. t.next = s.next /\ t.ready = s.ready /\ t.stopped = TRUE
      BY <1>1 DEF LoopType
    <3> HIDE DEF t
    <3> QED BY <3>1, <3>2 DEF OneGap
  <2> QED BY <2>5, <2>6, <2>7, <2>8
<1> QED BY <1>1, <1>2, <1>3

\* So the whole loop gives up one gap, before any packet leaves.
LEMMA TurnsOneGap ==
  ASSUME NEW S, S \subseteq Nat, IsFiniteSet(S), Cardinality(S) <= MaxPackets,
         NEW e \in Nat, NEW b \in Nat, \A x \in S : x < b + MaxPackets,
         NEW start, Stage(start, S, e), start.held = S, OneGap(start, b)
  PROVE  OneGap(Turns(start), b)
<1> DEFINE N == Cardinality(S)
           a == Loop(start, N)
           Good(n) == Stage(a[n], S, e) /\ OneGap(a[n], b)
           T == {n \in 0 .. N : ~ Good(n)}
<1>1. N \in Nat
  BY FS_CardinalityType
<1>2. a[0] = start /\ \A n \in 1 .. N : a[n] = Turn(a[n - 1])
  BY <1>1, LoopEquation
<1> HIDE DEF a
<1>3. Good(0)
  BY <1>2
<1>4. ASSUME NEW n \in 1 .. N, Good(n - 1) PROVE Good(n)
  <2> DEFINE s == a[n - 1]
  <2>1. Stage(s, S, e) /\ OneGap(s, b)
    BY <1>4
  <2>2. a[n] = Turn(s)
    BY <1>2
  <2> HIDE DEF s
  <2>3. Stage(Turn(s), S, e)
    BY <2>1, TurnKeepsStage, Zenon
  <2>4. OneGap(Turn(s), b)
    BY <2>1, TurnKeepsOneGap, Zenon
  <2> QED BY <2>2, <2>3, <2>4
<1> HIDE DEF Good
<1>5. ASSUME T # {} PROVE FALSE
  <2>1. T \subseteq 0 .. N /\ T \subseteq Nat
    <3>1. T \subseteq 0 .. N
      OBVIOUS
    <3>2. 0 .. N \subseteq Nat
      BY <1>1
    <3> HIDE DEF T
    <3> QED BY <3>1, <3>2
  <2>2. PICK n \in T : \A m \in T : n <= m
    BY <2>1, <1>5, Least, Zenon
  <2>3. n \in 0 .. N /\ ~ Good(n)
    OBVIOUS
  <2>4. n # 0
    BY <1>3, <2>3
  <2>5. n - 1 \in 0 .. N /\ n - 1 \notin T /\ n \in 1 .. N
    <3> HIDE DEF T
    <3> QED BY <1>1, <2>1, <2>2, <2>3, <2>4
  <2>6. Good(n - 1)
    BY <2>5
  <2> QED BY <1>4, <2>3, <2>5, <2>6
<1>6. Good(N)
  <2>1. N \in 0 .. N /\ N \notin T
    BY <1>1, <1>5
  <2> QED BY <2>1
<1>7. Turns(start) = a[N]
  BY TurnsLoop, Zenon DEF a
<1> QED BY <1>6, <1>7 DEF Good

\* What the condition keeps: packets that are buffered fit the window, the ones
\* that are ready follow each other, and no clock runs without a gap.
Close ==
  /\ packets = {} => gapWait = NoGap
  /\ \A p \in packets : p - nextIndex < MaxPackets
  /\ ~ Broken

\* A push keeps that.
LEMMA PushedClose ==
  ASSUME Typed, GapIsWaitedFor, Close, NEW p \in Numbers, ~ Stale(p),
         packets # {} => p - nextIndex < MaxPackets,
         Push(Pushed(p)), ready' = Pushed(p).ready
  PROVE  Close'
<1> DEFINE e == Expected(p)
           S == packets \cup {p}
           jump == packets = {} /\ p - e >= MaxPackets
           b == IF jump THEN p ELSE e
           start == [next |-> b, held |-> S,
                     ready |-> <<>>, nack |-> <<>>, gap |-> jump,
                     wait |-> IF jump THEN NoGap ELSE gapWait, stopped |-> FALSE]
<1>1. p \in Nat /\ packets \subseteq Nat /\ IsFiniteSet(packets)
      /\ e \in Nat /\ e <= p /\ b \in Nat /\ b >= e
  BY TotalNat DEF Typed, Buffered, Numbers, Expected, Stale, None
<1>2. S \subseteq Nat /\ IsFiniteSet(S)
  BY <1>1, FS_AddElement
<1>3. packets # {} => e = nextIndex /\ nextIndex \in Nat /\ b = e
  BY DEF Typed, Buffered, Expected, None
<1>4. Pushed(p) = Turns(start)
  BY Zenon DEF Pushed
<1>5. Cardinality(S) <= MaxPackets
  <2>1. Cardinality(S) = IF p \in packets THEN Cardinality(packets) ELSE Cardinality(packets) + 1
    BY <1>1, FS_AddElement
  <2>2. Cardinality(packets) \in Nat /\ (packets = {} => Cardinality(packets) = 0)
    BY <1>1, FS_CardinalityType, FS_EmptySet
  <2>3. packets # {} => Cardinality(packets) < MaxPackets
    BY DEF GapIsWaitedFor
  <2> QED BY <2>1, <2>2, <2>3, WindowAssumption
<1>6. \A x \in S : x < b + MaxPackets
  <2>1. CASE packets = {}
    <3>1. S = {p} /\ (p = b \/ (~ (p - e >= MaxPackets) /\ b = e))
      BY <2>1
    <3> HIDE DEF S, b, e
    <3> QED BY <1>1, <3>1, WindowAssumption
  <2>2. CASE packets # {}
    <3>1. \A x \in S : x \in Nat /\ x - nextIndex < MaxPackets
      BY <1>1, <2>2 DEF Close
    <3> HIDE DEF S, b, e
    <3> QED BY <1>3, <2>2, <3>1, WindowAssumption
  <2> QED BY <2>1, <2>2
<1>7. OneGap(start, b)
  <2>1. start.ready = <<>> /\ Len(start.ready) = 0 /\ start.next = b
        /\ start.wait = IF jump THEN NoGap ELSE gapWait
    OBVIOUS
  <2>2. NoGap.for = -1 /\ (packets = {} => gapWait = NoGap)
        /\ (packets # {} => gapWait.for = nextIndex)
    BY DEF NoGap, None, Close, GapIsWaitedFor
  <2>3. start.wait.for <= b
    <3> HIDE DEF b, e
    <3> QED BY <1>1, <1>3, <2>1, <2>2
  <2> HIDE DEF start, b, e
  <2> QED BY <1>1, <2>1, <2>3 DEF OneGap
<1>8. Stage(start, S, e)
  BY <1>1, StartStage DEF Typed
<1>9. start.held = S
  OBVIOUS
<1> HIDE DEF start, S, e, b
<1>10. OneGap(Pushed(p), b)
  BY <1>1, <1>2, <1>4, <1>5, <1>6, <1>7, <1>8, <1>9, TurnsOneGap
<1>11. nextIndex' = Pushed(p).next /\ packets' = Pushed(p).held
       /\ gapWait' = (IF Pushed(p).stopped THEN Pushed(p).wait ELSE NoGap)
  BY DEF Push
<1>12. packets' \subseteq S /\ nextIndex' \in Nat
  <2>1. Stage(Turns(start), S, e)
    BY <1>1, <1>2, <1>8, <1>9, TurnsStage
  <2> QED BY <1>4, <1>11, <2>1 DEF Stage, LoopType
<1>13. packets' = {} => gapWait' = NoGap
  <2>1. Stage(Turns(start), S, e)
    BY <1>1, <1>2, <1>8, <1>9, TurnsStage
  <2>2. Waiting(Pushed(p))
    BY <1>4, <2>1 DEF Stage
  <2> QED BY <1>11, <2>2 DEF Waiting
<1>14. \A x \in packets' : x - nextIndex' < MaxPackets
  <2>1. b <= nextIndex'
    BY <1>10, <1>11 DEF OneGap
  <2> TAKE x \in packets'
  <2>2. x \in S
    BY <1>12
  <2>3. x \in Nat /\ x < b + MaxPackets
    BY <1>2, <1>6, <2>2
  <2>4. b \in Nat /\ nextIndex' \in Nat
    BY <1>1, <1>12
  <2>5. \A c, n, y \in Nat : y < c + MaxPackets /\ c <= n => y - n < MaxPackets
    BY WindowAssumption
  <2> QED BY <2>1, <2>3, <2>4, <2>5, Zenon
<1>15. ~ Broken'
  BY <1>10 DEF OneGap, Broken
<1> QED BY <1>13, <1>14, <1>15 DEF Close

\* Every step keeps it, as long as packets come in the window.
LEMMA NextClose ==
  ASSUME Typed, GapIsWaitedFor, Close, [Next]_vars, [InWindow]_vars
  PROVE  Close'
<1>1. ASSUME UNCHANGED <<reorderVars, ready>> PROVE Close'
  BY <1>1 DEF Close, Broken, reorderVars
<1>2. ASSUME NEW p \in net, Receive(p) PROVE Close'
  <2>1. p \in Numbers
    BY TotalNat DEF Typed, Numbers
  <2>2. CASE UNCHANGED <<reorderVars, ready>>
    BY <1>1, <2>2
  <2>3. CASE ~ Stale(p) /\ Push(Pushed(p)) /\ ready' = Pushed(p).ready
    <3>1. net' # net
      BY <1>2 DEF Receive
    <3>2. InWindow
      BY <3>1 DEF vars, serverVars
    <3>3. packets # {} => p - nextIndex < MaxPackets
      BY <1>2, <3>2 DEF InWindow
    <3> QED BY <2>1, <2>3, <3>3, PushedClose
  <2> QED BY <1>2, <2>2, <2>3 DEF Receive, assemblerVars
<1>3. CASE Assemble \/ Unusable
  <2>1. ready # <<>> /\ ready' = Tail(ready) /\ UNCHANGED reorderVars
    BY <1>3 DEF Assemble, Unusable
  <2>2. Broken' => Broken
    BY <2>1, TailBroken
  <2> QED BY <2>1, <2>2 DEF Close, reorderVars
<1>4. ASSUME NEW s, ResetTo(s) PROVE Close'
  BY <1>4 DEF ResetTo, ReorderReset, Close, Broken
<1>5. CASE Pause \/ Resume \/ PollTimeout \/ Recover \/ Stop
  BY <1>4, <1>5 DEF Pause, Resume, PollTimeout, Recover, Stop
<1>6. CASE GapWaitPasses
  <2>1. packets # {}
    BY <1>6 DEF GapWaitPasses, GapGetsLate, Close, NoGap, None
  <2> QED BY <1>6, <2>1 DEF GapWaitPasses, GapGetsLate, assemblerVars, Close, Broken
<1> QED BY <1>1, <1>2, <1>3, <1>5, <1>6
    DEF Next, Serve, Lose, SendNack, Ask, Cooled, RequestKeyframe, vars, assemblerVars

\* As long as packets come in the window, what is ready is never broken and what
\* is buffered fits the window (RtpReorderBuffer::push).
THEOREM CloseKept == Spec /\ [][InWindow]_vars => []Close
<1>1. Init => Close
  BY DEF Init, ReorderInit, Close, Broken
<1>2. Inv /\ Close /\ [Next]_vars /\ [InWindow]_vars => Close'
  BY NextClose DEF Inv
<1> QED BY <1>1, <1>2, InvInductive, PTL DEF Spec

\* Where no packet comes a whole window ahead while others are buffered, one
\* push gives up at most one gap, and that before any packet leaves: no frame is
\* then called contiguous over a loss (RtpReorderBuffer::push, PacketGap), and
\* the receiver implements the abstract source of frames.
THEOREM InWindowNothingIsSilent ==
  Spec /\ [][InWindow]_vars => []NoSilentLoss /\ HandsOver
<1>1. Close => EndsBehindGaps
  BY DEF Close, Broken, EndsBehindGaps
<1>2. Spec /\ [][InWindow]_vars => []EndsBehindGaps
  BY <1>1, CloseKept, PTL
<1> QED BY <1>2, NoLossIsSilent, HandsOverInOrder, PTL
=============================================================================
