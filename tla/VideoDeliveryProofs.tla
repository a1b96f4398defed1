------------------------ MODULE VideoDeliveryProofs ------------------------
(***************************************************************************)
(* Proofs about VideoDelivery, for queues of any length: what waits for    *)
(* the submit worker is one chain, and a chain that breaks at the decoder  *)
(* is mended.                                                              *)
(***************************************************************************)
EXTENDS VideoDelivery, SequenceTheorems, TLAPS

Frames == [n : 0 .. Cycle - 1, key : BOOLEAN, contiguous : BOOLEAN]

\* What the argument is about, within its types.
ChainTypes ==
  /\ ingress \in Seq(Frames) /\ queued \in Seq(Packets)
  /\ last \in Nat
  /\ contiguous \in BOOLEAN /\ gap \in BOOLEAN /\ waiting \in BOOLEAN

Last(s) == s[Len(s)]

\* In the channel a contiguous frame follows the one before it.
IngressChained ==
  \A k \in 2 .. Len(ingress) :
    ingress[k].contiguous => ingress[k].n = After(ingress[k - 1].n)

\* While nothing is lost the channel ends with the frame handed over last,
IngressEnds ==
  ingress # <<>> /\ contiguous /\ ~gap => Last(ingress).n = last

\* it goes on where the queue ends,
IngressFollows ==
  ingress # <<>> /\ queued # <<>> /\ ingress[1].contiguous
    => ingress[1].n = After(Last(queued).n)

\* and the queue ends with that frame when the channel is empty.
QueueEnds ==
  ingress = <<>> /\ queued # <<>> /\ contiguous /\ ~gap => Last(queued).n = last

\* A queue that waits for a keyframe is empty, and what is queued has been
\* handed over before.
QueueWaits == waiting => queued = <<>>
HandedOver == ingress # <<>> \/ queued # <<>> => last # NoFrame

ChainInv ==
  /\ ChainTypes
  /\ IngressChained /\ IngressEnds /\ IngressFollows /\ QueueEnds
  /\ QueueWaits /\ HandedOver
  /\ QueueIsOneChain

\* The ends of a sequence that grows or shrinks.
LEMMA AppendFacts ==
  ASSUME NEW S, NEW s \in Seq(S), NEW e \in S
  PROVE  /\ Append(s, e) \in Seq(S) /\ Append(s, e) # <<>>
         /\ Len(Append(s, e)) = Len(s) + 1
         /\ Last(Append(s, e)) = e
         /\ \A k \in 1 .. Len(s) : Append(s, e)[k] = s[k]
         /\ s # <<>> => Last(s) = s[Len(s)] /\ Append(s, e)[1] = s[1]
         /\ s = <<>> => Append(s, e)[1] = e /\ Len(Append(s, e)) = 1
BY DEF Last

LEMMA TailFacts ==
  ASSUME NEW S, NEW s \in Seq(S), s # <<>>
  PROVE  /\ Head(s) \in S /\ Head(s) = s[1] /\ Tail(s) \in Seq(S)
         /\ Len(s) \in Nat \ {0} /\ Len(Tail(s)) = Len(s) - 1
         /\ \A k \in 1 .. Len(Tail(s)) : Tail(s)[k] = s[k + 1]
         /\ Tail(s) # <<>> => Len(s) >= 2 /\ Last(Tail(s)) = Last(s) /\ Tail(s)[1] = s[2]
         /\ Tail(s) = <<>> => Last(s) = s[1]
<1>1. Head(s) \in S /\ Head(s) = s[1] /\ Len(s) \in Nat \ {0}
  BY HeadTailProperties, EmptySeq
<1>2. /\ Tail(s) \in Seq(S) /\ Len(Tail(s)) = Len(s) - 1
      /\ \A k \in 1 .. Len(Tail(s)) : Tail(s)[k] = s[k + 1]
  BY HeadTailProperties
<1>3. ASSUME Tail(s) # <<>>
      PROVE  Len(s) >= 2 /\ Last(Tail(s)) = Last(s) /\ Tail(s)[1] = s[2]
  <2>1. Len(Tail(s)) \in Nat \ {0}
    BY <1>2, <1>3, EmptySeq
  <2>2. Tail(s)[1] = s[1 + 1] /\ Tail(s)[Len(Tail(s))] = s[Len(Tail(s)) + 1]
    BY <1>2, <2>1
  <2> QED BY <1>1, <1>2, <2>1, <2>2 DEF Last
<1>4. ASSUME Tail(s) = <<>> PROVE Last(s) = s[1]
  <2>1. Len(<<>>) = 0
    BY EmptySeq
  <2>2. Len(s) - 1 = 0
    BY <1>2, <1>4, <2>1, Zenon
  <2>3. Len(s) = 1
    BY <1>1, <2>2
  <2> QED BY <2>3 DEF Last
<1> QED
  BY <1>1, <1>2, <1>3, <1>4

\* Nothing is queued and nothing handed over at first.
LEMMA ChainInit == Init => ChainInv
<1> SUFFICES ASSUME Init PROVE ChainInv
  OBVIOUS
<1>1. /\ ingress = <<>> /\ queued = <<>> /\ last = Cycle
      /\ contiguous = TRUE /\ gap = FALSE /\ waiting = TRUE
  BY DEF Init, SourceInit, QueueInit, NoFrame
<1>2. ChainTypes
  BY <1>1, CycleAssumption, EmptySeq DEF ChainTypes
<1>3. IngressChained /\ QueueIsOneChain
  BY <1>1 DEF IngressChained, QueueIsOneChain
<1>4. IngressEnds /\ IngressFollows /\ QueueEnds /\ QueueWaits /\ HandedOver
  BY <1>1 DEF IngressEnds, IngressFollows, QueueEnds, QueueWaits, HandedOver
<1> QED
  BY <1>2, <1>3, <1>4 DEF ChainInv

\* A frame that is handed over goes to the end of the channel, or leaves a
\* gap that the next one tells of.
LEMMA FrameKeepsChain ==
  ASSUME ChainInv, NEW n \in 0 .. Cycle - 1, NEW key \in BOOLEAN, Frame(n, key)
  PROVE  ChainInv'
<1> DEFINE frame == [n |-> n, key |-> key, contiguous |-> contiguous /\ ~gap]
<1>1. /\ contiguous => last = NoFrame \/ n = After(last)
      /\ last' = n /\ contiguous' = TRUE
      /\ queued' = queued /\ waiting' = waiting
  BY DEF Frame, Hand, queueVars
<1>2. frame \in Frames /\ n \in Nat /\ n # NoFrame
  BY CycleAssumption DEF ChainInv, ChainTypes, Frames, NoFrame
<1>3. CASE Len(ingress) = IngressCap
  <2>1. gap' = TRUE /\ ingress' = ingress
    BY <1>3 DEF Frame, Deliver
  <2> QED
    BY <1>1, <1>2, <2>1
       DEF ChainInv, ChainTypes, IngressChained, IngressEnds, IngressFollows, QueueEnds,
           QueueWaits, HandedOver, QueueIsOneChain
<1>4. CASE Len(ingress) # IngressCap
  <2>1. gap' = FALSE /\ ingress' = Append(ingress, frame)
    BY <1>4 DEF Frame, Deliver
  <2>2. ingress \in Seq(Frames)
    BY DEF ChainInv, ChainTypes
  <2>3. /\ ingress' \in Seq(Frames) /\ ingress' # <<>>
        /\ Len(ingress') = Len(ingress) + 1 /\ Last(ingress') = frame
        /\ \A k \in 1 .. Len(ingress) : ingress'[k] = ingress[k]
        /\ ingress # <<>> => Last(ingress) = ingress[Len(ingress)] /\ ingress'[1] = ingress[1]
        /\ ingress = <<>> => ingress'[1] = frame /\ Len(ingress') = 1
    BY <1>2, <2>1, <2>2, AppendFacts
  <2>4. ChainTypes'
    BY <1>1, <1>2, <2>1, <2>3 DEF ChainInv, ChainTypes
  <2>5. IngressChained'
    <3> SUFFICES ASSUME NEW k \in 2 .. Len(ingress'), ingress'[k].contiguous
                 PROVE  ingress'[k].n = After(ingress'[k - 1].n)
      BY DEF IngressChained, After
    <3>1. CASE k <= Len(ingress)
      <4>1. ingress'[k] = ingress[k] /\ ingress'[k - 1] = ingress[k - 1] /\ k \in 2 .. Len(ingress)
        BY <2>2, <2>3, <3>1
      <4> QED BY <4>1 DEF ChainInv, IngressChained
    <3>2. CASE k = Len(ingress) + 1
      <4>1. ingress'[k] = frame /\ ingress # <<>>
        BY <2>2, <2>3, <3>2 DEF Last
      <4>2. ingress'[k - 1] = Last(ingress)
        BY <2>2, <2>3, <3>2, <4>1
      <4>3. contiguous /\ ~gap /\ last # NoFrame
        <5>1. frame.contiguous
          BY <4>1
        <5> QED BY <4>1, <5>1 DEF ChainInv, ChainTypes, HandedOver
      <4>4. Last(ingress).n = last
        BY <4>1, <4>3 DEF ChainInv, IngressEnds
      <4> QED BY <1>1, <4>1, <4>2, <4>3, <4>4
    <3> QED BY <2>2, <2>3, <3>1, <3>2
  <2>6. IngressEnds' /\ QueueEnds' /\ HandedOver' /\ QueueWaits'
    BY <1>1, <1>2, <2>3 DEF ChainInv, IngressEnds, QueueEnds, HandedOver, QueueWaits, NoFrame
  <2>7. IngressFollows'
    <3>1. CASE ingress # <<>>
      BY <1>1, <2>3, <3>1 DEF ChainInv, IngressFollows, After
    <3>2. CASE ingress = <<>>
      <4> SUFFICES ASSUME queued # <<>>, frame.contiguous
                   PROVE  n = After(Last(queued).n)
        BY <1>1, <2>3, <3>2 DEF IngressFollows, After
      <4>1. contiguous /\ ~gap
        OBVIOUS
      <4>2. last # NoFrame /\ Last(queued).n = last
        BY <3>2, <4>1 DEF ChainInv, HandedOver, QueueEnds
      <4> QED BY <1>1, <4>1, <4>2
    <3> QED BY <3>1, <3>2
  <2>8. QueueIsOneChain'
    BY <1>1 DEF ChainInv, QueueIsOneChain
  <2> QED
    BY <2>4, <2>5, <2>6, <2>7, <2>8 DEF ChainInv
<1> QED
  BY <1>3, <1>4

\* The pump moves the first frame of the channel to the end of the queue, or
\* empties the queue.
LEMMA PumpKeepsChain == ASSUME ChainInv, Pump PROVE ChainInv'
<1> DEFINE frame == Head(ingress)
           packet == Packet(frame, waiting \/ Invalidates(frame))
<1>1. /\ ingress # <<>> /\ ingress' = Tail(ingress)
      /\ last' = last /\ contiguous' = contiguous /\ gap' = gap
      /\ QueuePush(frame)
  BY DEF Pump, sourceVars
<1>2. ingress \in Seq(Frames) /\ queued \in Seq(Packets) /\ waiting \in BOOLEAN
  BY DEF ChainInv, ChainTypes
<1>3. /\ frame \in Frames /\ frame = ingress[1] /\ ingress' \in Seq(Frames)
      /\ Len(ingress) \in Nat \ {0} /\ Len(ingress') = Len(ingress) - 1
      /\ \A k \in 1 .. Len(ingress') : ingress'[k] = ingress[k + 1]
      /\ ingress' # <<>> => Len(ingress) >= 2 /\ Last(ingress') = Last(ingress) /\ ingress'[1] = ingress[2]
      /\ ingress' = <<>> => Last(ingress) = frame
  BY <1>1, <1>2, TailFacts
<1>4. IngressChained' /\ IngressEnds'
  <2>1. IngressEnds'
    BY <1>1, <1>3 DEF ChainInv, IngressEnds
  <2>2. ASSUME NEW k \in 2 .. Len(ingress'), ingress'[k].contiguous
        PROVE  ingress'[k].n = After(ingress'[k - 1].n)
    <3>1. ingress'[k] = ingress[k + 1] /\ ingress'[k - 1] = ingress[k] /\ k + 1 \in 2 .. Len(ingress)
      BY <1>3, <2>2
    <3>2. (k + 1) - 1 = k
      BY <2>2
    <3> QED BY <2>2, <3>1, <3>2 DEF ChainInv, IngressChained
  <2> QED BY <2>1, <2>2 DEF IngressChained, After
<1>5. CASE Refuses(frame)
  <2>1. waiting' = TRUE /\ queued' = <<>>
    BY <1>1, <1>5 DEF QueuePush, Refuses, Invalidates, ChainInv, QueueWaits
  <2>2. ChainTypes'
    BY <1>1, <1>3, <2>1 DEF ChainInv, ChainTypes
  <2> QED
    BY <1>1, <1>4, <2>1, <2>2
       DEF ChainInv, IngressFollows, QueueEnds, QueueWaits, HandedOver, QueueIsOneChain
<1>6. CASE ~Refuses(frame)
  <2> DEFINE kept == IF Invalidates(frame) THEN <<>> ELSE queued
  <2>1. waiting' = FALSE /\ queued' = Append(kept, packet)
    BY <1>1, <1>6 DEF QueuePush
  <2>2. kept \in Seq(Packets) /\ packet \in Packets
    BY <1>2, <1>3 DEF Packets, Packet, Frames, Invalidates
  <2>3. packet.n = frame.n /\ packet.key = frame.key
    BY DEF Packet
  <2>0. kept = IF Invalidates(frame) THEN <<>> ELSE queued
    OBVIOUS
  <2> HIDE DEF kept, packet
  <2>4. /\ queued' \in Seq(Packets) /\ queued' # <<>>
        /\ Len(queued') = Len(kept) + 1 /\ Last(queued') = packet
        /\ \A k \in 1 .. Len(kept) : queued'[k] = kept[k]
        /\ kept # <<>> => Last(kept) = kept[Len(kept)]
    BY <2>1, <2>2, AppendFacts
  <2>5. ChainTypes'
    BY <1>1, <1>3, <2>1, <2>4 DEF ChainInv, ChainTypes
  <2>6. kept # <<>> => Follows(packet, Last(kept))
    <3> SUFFICES ASSUME kept # <<>> PROVE packet.n = After(Last(kept).n)
      BY DEF Follows
    <3>1. ~Invalidates(frame) /\ kept = queued /\ ~waiting
      BY <2>0 DEF ChainInv, QueueWaits
    <3>2. frame.contiguous
      BY <3>1 DEF Invalidates
    <3> QED BY <1>1, <1>3, <2>3, <3>1, <3>2 DEF ChainInv, IngressFollows
  <2>7. QueueIsOneChain'
    <3> SUFFICES ASSUME NEW k \in 2 .. Len(queued') PROVE Follows(queued'[k], queued'[k - 1])
      BY DEF QueueIsOneChain, Follows, After
    <3>1. CASE k <= Len(kept)
      <4>1. queued'[k] = kept[k] /\ queued'[k - 1] = kept[k - 1] /\ k \in 2 .. Len(kept)
        BY <2>2, <2>4, <3>1
      <4>2. kept = queued
        BY <2>0, <4>1
      <4> QED BY <4>1, <4>2 DEF ChainInv, QueueIsOneChain
    <3>2. CASE k = Len(kept) + 1
      <4>1. kept # <<>> /\ queued'[k] = packet /\ queued'[k - 1] = Last(kept)
        BY <2>2, <2>4, <3>2 DEF Last
      <4> QED BY <2>6, <4>1
    <3> QED BY <2>2, <2>4, <3>1, <3>2
  <2>8. IngressFollows'
    <3> SUFFICES ASSUME ingress' # <<>>, ingress'[1].contiguous
                 PROVE  ingress'[1].n = After(packet.n)
      BY <2>4 DEF IngressFollows, After
    <3>1. ingress'[1] = ingress[2] /\ 2 \in 2 .. Len(ingress)
      BY <1>3
    <3>2. ingress[2].n = After(ingress[2 - 1].n)
      BY <3>1 DEF ChainInv, IngressChained
    <3> QED BY <1>3, <2>3, <3>1, <3>2
  <2>9. QueueEnds'
    <3> SUFFICES ASSUME ingress' = <<>>, contiguous, ~gap PROVE packet.n = last
      BY <1>1, <2>4 DEF QueueEnds
    <3> QED BY <1>1, <1>3, <2>3 DEF ChainInv, IngressEnds
  <2> QED
    BY <1>1, <1>4, <2>1, <2>5, <2>7, <2>8, <2>9 DEF ChainInv, QueueWaits, HandedOver, NoFrame
<1> QED
  BY <1>5, <1>6

\* The worker takes the first packet; what is behind it stays a chain.
LEMMA PopKeepsChain == ASSUME ChainInv, Pop PROVE ChainInv'
<1>1. /\ queued # <<>> /\ queued' = Tail(queued) /\ waiting' = waiting
      /\ last' = last /\ contiguous' = contiguous /\ gap' = gap /\ ingress' = ingress
  BY DEF Pop, QueuePop, sourceVars, linkVars
<1>2. /\ queued' \in Seq(Packets) /\ Len(queued) \in Nat \ {0} /\ Len(queued') = Len(queued) - 1
      /\ \A k \in 1 .. Len(queued') : queued'[k] = queued[k + 1]
      /\ queued' # <<>> => Last(queued') = Last(queued)
  BY <1>1, TailFacts DEF ChainInv, ChainTypes
<1>3. QueueIsOneChain'
  <2> SUFFICES ASSUME NEW k \in 2 .. Len(queued') PROVE Follows(queued'[k], queued'[k - 1])
    BY DEF QueueIsOneChain, Follows, After
  <2>1. queued'[k] = queued[k + 1] /\ queued'[k - 1] = queued[k] /\ k + 1 \in 2 .. Len(queued)
    BY <1>2
  <2>2. (k + 1) - 1 = k
    OBVIOUS
  <2> QED BY <2>1, <2>2 DEF ChainInv, QueueIsOneChain
<1> QED
  BY <1>1, <1>2, <1>3
     DEF ChainInv, ChainTypes, IngressChained, IngressEnds, IngressFollows, QueueEnds,
         QueueWaits, HandedOver

\* An invalidated queue is empty and waits.
LEMMA InvalidationKeepsChain ==
  ASSUME ChainInv, NEW thread, InvalidateVideo(thread) PROVE ChainInv'
<1>1. /\ queued' = <<>> /\ waiting' = TRUE
      /\ last' = last /\ contiguous' = contiguous /\ gap' = gap /\ ingress' = ingress
  BY DEF InvalidateVideo, QueueClear, sourceVars
<1> QED
  BY <1>1
     DEF ChainInv, ChainTypes, IngressChained, IngressEnds, IngressFollows, QueueEnds,
         QueueWaits, HandedOver, QueueIsOneChain

\* Nobody else touches the channel or the queue; a loss only ends what the
\* next frame may be called.
LEMMA OthersKeepChain ==
  ASSUME ChainInv,
         UNCHANGED <<last, gap, ingress, queued, waiting>>,
         contiguous' = contiguous \/ contiguous' = FALSE
  PROVE  ChainInv'
<1>1. ChainTypes'
  BY DEF ChainInv, ChainTypes
<1>2. IngressChained' /\ QueueIsOneChain'
  BY DEF ChainInv, IngressChained, QueueIsOneChain, Follows, After
<1>3. IngressEnds' /\ QueueEnds'
  BY DEF ChainInv, ChainTypes, IngressEnds, QueueEnds, Last
<1>4. IngressFollows' /\ QueueWaits' /\ HandedOver'
  BY DEF ChainInv, IngressFollows, QueueWaits, HandedOver, Last, After, NoFrame
<1> QED
  BY <1>1, <1>2, <1>3, <1>4 DEF ChainInv

LEMMA ChainInductive == ChainInv /\ [Next]_vars => ChainInv'
<1> SUFFICES ASSUME ChainInv, [Next]_vars PROVE ChainInv'
  OBVIOUS
<1> DEFINE Other == /\ UNCHANGED <<last, gap, ingress, queued, waiting>>
                    /\ contiguous' = contiguous \/ contiguous' = FALSE
<1>1. ASSUME NEW n \in 0 .. Cycle - 1, NEW key \in BOOLEAN, Frame(n, key) PROVE ChainInv'
  BY <1>1, FrameKeepsChain
<1>2. CASE Pump
  BY <1>2, PumpKeepsChain
<1>3. CASE Pop
  BY <1>3, PopKeepsChain
<1>4. ASSUME NEW thread \in {"worker", "render"}, InvalidateVideo(thread) PROVE ChainInv'
  BY <1>4, InvalidationKeepsChain
<1>5. Loss \/ Ask \/ Forward => Other
  BY DEF Loss, Ask, Forward, Invalidate, RequestKeyframe, sourceVars, queueVars
<1>6. Submit => Other
  BY DEF Submit, sourceVars, linkVars
<1>7. DecoderStep \/ DecoderFails \/ Render \/ RenderFails \/ StartScene \/ ShutdownScene => Other
  BY DEF DecoderStep, DecoderFails, Render, RenderFails, StartScene, ShutdownScene,
         sourceVars, queueVars, linkVars
<1>8. UNCHANGED vars => Other
  BY DEF vars, sourceVars, queueVars, linkVars
<1>9. Other => ChainInv'
  BY OthersKeepChain
<1> QED
  BY <1>1, <1>2, <1>3, <1>4, <1>5, <1>6, <1>7, <1>8, <1>9 DEF Next

\* Whatever is lost and whichever queue overflows, the packets that wait for
\* the submit worker are one chain, for queues and a numbering of any size.
THEOREM QueueOneChain == Spec => []QueueIsOneChain
<1>1. ChainInv => QueueIsOneChain
  BY DEF ChainInv
<1> QED
  BY <1>1, ChainInit, ChainInductive, PTL DEF Spec

-----------------------------------------------------------------------------
(* A chain that breaks is mended: what lies between the pump and the decoder *)
(* is one line of packets.                                                   *)

\* What is in the worker's hand and still wanted, the queue of the decoder,
\* adopted or not, and the line they make with the queue of the pump.
Wanted == IF hand # <<>> /\ hand[1].current THEN <<hand[1].packet>> ELSE <<>>
Deck == IF adopted THEN encoded ELSE staged
Rear == Wanted \o queued
Line == Deck \o Rear

\* The packet the decoder has before the line.
Before == IF next # <<>> THEN next ELSE fed

Reset(s) == \E k \in DOMAIN s : s[k].reset
KeyResets(s) == \A k \in DOMAIN s : s[k].reset => s[k].key
Chain(s) == \A k \in 2 .. Len(s) : Follows(s[k], s[k - 1])

\* The line ends with a packet after which the channel goes on.
GoesOn ==
  {x \in Packets : IF ingress # <<>> THEN ingress[1].contiguous => ingress[1].n = After(x.n)
                   ELSE contiguous /\ ~gap => x.n = last}

Known == required \/ alarms # {} \/ waiting \/ Reset(Line)

\* The decoder can go on with the line, or with what comes next if it is empty.
Joined(line, before, on) ==
  IF line # <<>> THEN line[1].key \/ (before # <<>> /\ Follows(line[1], before[1]))
  ELSE before # <<>> /\ before[1] \in on

One(S) == {<<>>} \cup {<<e>> : e \in S}

LineTypes ==
  /\ encoded \in Seq(Packets) /\ staged \in Seq(Packets) /\ queued \in Seq(Packets)
  /\ next \in One(Packets) /\ fed \in One(Packets)
  /\ hand \in One([packet : Packets, current : BOOLEAN])
  /\ adopted \in BOOLEAN
  /\ next # <<>> => next[1].key

\* A new chain begins with a keyframe, and every packet follows the one
\* before it;
LineSound == KeyResets(Line) /\ Chain(Line)

\* the decoder goes on with the line, unless somebody knows that it cannot;
LineJoined == Known \/ recovers \/ Joined(Line, Before, GoesOn)

\* the channel goes on where the line ends, unless the queue waits.
LineGoesOn == ~waiting /\ Line # <<>> => Last(Line) \in GoesOn

\* A packet that is not wanted any more has been replaced,
Replaced == hand # <<>> /\ ~hand[1].current => waiting \/ Reset(queued)

\* only an adopted decoder works,
Works ==
  IF adopted THEN staged = <<>>
  ELSE encoded = <<>> /\ next = <<>> /\ fed = <<>> /\ ~recovers

\* and on what has been handed over.
Begun == Line # <<>> \/ Before # <<>> => last # NoFrame

LineInv ==
  /\ LineTypes
  /\ LineSound /\ LineJoined /\ LineGoesOn
  /\ Replaced /\ Works /\ Begun

\* Two sequences, one behind the other.
LEMMA ConcatFacts ==
  ASSUME NEW a \in Seq(Packets), NEW b \in Seq(Packets)
  PROVE  LET c == a \o b IN
         /\ c \in Seq(Packets)
         /\ c = <<>> <=> (a = <<>> /\ b = <<>>)
         /\ a # <<>> => c[1] = a[1]
         /\ a = <<>> => c = b
         /\ b # <<>> => Last(c) = Last(b)
         /\ b = <<>> => c = a
         /\ Reset(c) <=> (Reset(a) \/ Reset(b))
         /\ KeyResets(c) <=> (KeyResets(a) /\ KeyResets(b))
         /\ Chain(c) <=> /\ Chain(a) /\ Chain(b)
                         /\ a # <<>> /\ b # <<>> => Follows(b[1], Last(a))
<1> DEFINE c == a \o b
<1>1. /\ c \in Seq(Packets) /\ Len(c) = Len(a) + Len(b)
      /\ \A k \in 1 .. Len(a) + Len(b) : c[k] = IF k <= Len(a) THEN a[k] ELSE b[k - Len(a)]
  BY ConcatProperties
<1>2. a = <<>> => c = b
  BY ConcatEmptySeq
<1>3. b = <<>> => c = a
  BY ConcatEmptySeq
<1>4. /\ Len(a) \in Nat /\ Len(b) \in Nat
      /\ DOMAIN a = 1 .. Len(a) /\ DOMAIN b = 1 .. Len(b) /\ DOMAIN c = 1 .. Len(a) + Len(b)
      /\ a # <<>> => Len(a) > 0
      /\ b # <<>> => Len(b) > 0
  BY <1>1, LenProperties, EmptySeq
<1> HIDE DEF c
<1>5. /\ \A k \in 1 .. Len(a) : k \in DOMAIN c /\ c[k] = a[k]
      /\ \A k \in 1 .. Len(b) : Len(a) + k \in DOMAIN c /\ c[Len(a) + k] = b[k]
  <2>1. ASSUME NEW k \in 1 .. Len(a) PROVE k \in DOMAIN c /\ c[k] = a[k]
    BY <1>1, <1>4
  <2>2. ASSUME NEW k \in 1 .. Len(b) PROVE Len(a) + k \in DOMAIN c /\ c[Len(a) + k] = b[k]
    <3>1. /\ Len(a) + k \in 1 .. Len(a) + Len(b) /\ ~(Len(a) + k <= Len(a))
          /\ (Len(a) + k) - Len(a) = k
      BY <1>4
    <3> QED BY <1>1, <1>4, <3>1
  <2> QED BY <2>1, <2>2
<1>6. \A k \in DOMAIN c : k \in 1 .. Len(a) \/ \E j \in 1 .. Len(b) : k = Len(a) + j
  <2> SUFFICES ASSUME NEW k \in DOMAIN c, k \notin 1 .. Len(a)
               PROVE  \E j \in 1 .. Len(b) : k = Len(a) + j
    OBVIOUS
  <2>1. k - Len(a) \in 1 .. Len(b) /\ k = Len(a) + (k - Len(a))
    BY <1>4
  <2> QED BY <2>1
<1>7. c = <<>> <=> (a = <<>> /\ b = <<>>)
  <2>1. c = <<>> => Len(c) = 0
    BY EmptySeq
  <2> QED BY <1>1, <1>2, <1>4, <2>1
<1>8. a # <<>> => c[1] = a[1]
  BY <1>4, <1>5
<1>9. b # <<>> => Last(c) = Last(b)
  BY <1>1, <1>4, <1>5 DEF Last
<1>10. Reset(c) <=> (Reset(a) \/ Reset(b))
  <2>1. ASSUME Reset(c) PROVE Reset(a) \/ Reset(b)
    <3>1. PICK k \in DOMAIN c : c[k].reset
      BY <2>1 DEF Reset
    <3>2. CASE k \in 1 .. Len(a)
      BY <1>4, <1>5, <3>1, <3>2 DEF Reset
    <3>3. CASE \E j \in 1 .. Len(b) : k = Len(a) + j
      <4>1. PICK j \in 1 .. Len(b) : k = Len(a) + j
        BY <3>3
      <4>2. j \in DOMAIN b /\ b[j].reset
        BY <1>4, <1>5, <3>1, <4>1
      <4> QED BY <4>2 DEF Reset
    <3> QED BY <1>6, <3>2, <3>3
  <2>2. ASSUME Reset(a) PROVE Reset(c)
    <3>1. PICK k \in 1 .. Len(a) : a[k].reset
      BY <1>4, <2>2 DEF Reset
    <3>2. k \in DOMAIN c /\ c[k] = a[k]
      BY <1>5
    <3> QED BY <3>1, <3>2 DEF Reset
  <2>3. ASSUME Reset(b) PROVE Reset(c)
    <3>1. PICK k \in 1 .. Len(b) : b[k].reset
      BY <1>4, <2>3 DEF Reset
    <3>2. Len(a) + k \in DOMAIN c /\ c[Len(a) + k] = b[k]
      BY <1>5
    <3> QED BY <3>1, <3>2 DEF Reset
  <2> QED BY <2>1, <2>2, <2>3
<1>11. KeyResets(c) <=> (KeyResets(a) /\ KeyResets(b))
  <2>1. ASSUME KeyResets(c) PROVE KeyResets(a)
    <3>1. ASSUME NEW k \in DOMAIN a, a[k].reset PROVE a[k].key
      <4>1. k \in DOMAIN c /\ c[k] = a[k]
        BY <1>4, <1>5
      <4> QED BY <2>1, <3>1, <4>1 DEF KeyResets
    <3> QED BY <3>1 DEF KeyResets
  <2>2. ASSUME KeyResets(c) PROVE KeyResets(b)
    <3>1. ASSUME NEW k \in DOMAIN b, b[k].reset PROVE b[k].key
      <4>1. Len(a) + k \in DOMAIN c /\ c[Len(a) + k] = b[k]
        BY <1>4, <1>5
      <4> QED BY <2>2, <3>1, <4>1 DEF KeyResets
    <3> QED BY <3>1 DEF KeyResets
  <2>3. ASSUME KeyResets(a), KeyResets(b) PROVE KeyResets(c)
    <3>1. ASSUME NEW k \in DOMAIN c, c[k].reset PROVE c[k].key
      <4>1. CASE k \in 1 .. Len(a)
        BY <1>4, <1>5, <2>3, <3>1, <4>1 DEF KeyResets
      <4>2. CASE \E j \in 1 .. Len(b) : k = Len(a) + j
        <5>1. PICK j \in 1 .. Len(b) : k = Len(a) + j
          BY <4>2
        <5>2. j \in DOMAIN b /\ c[k] = b[j]
          BY <1>4, <1>5, <5>1
        <5> QED BY <2>3, <3>1, <5>2 DEF KeyResets
      <4> QED BY <1>6, <4>1, <4>2
    <3> QED BY <3>1 DEF KeyResets
  <2> QED BY <2>1, <2>2, <2>3
<1>12. ASSUME Chain(c)
       PROVE  Chain(a) /\ Chain(b) /\ (a # <<>> /\ b # <<>> => Follows(b[1], Last(a)))
  <2>1. ASSUME NEW k \in 2 .. Len(a) PROVE Follows(a[k], a[k - 1])
    <3>1. /\ k \in 2 .. Len(c) /\ k \in 1 .. Len(a) /\ k - 1 \in 1 .. Len(a)
      BY <1>1, <1>4
    <3> QED BY <1>5, <1>12, <3>1 DEF Chain
  <2>2. ASSUME NEW k \in 2 .. Len(b) PROVE Follows(b[k], b[k - 1])
    <3>1. /\ Len(a) + k \in 2 .. Len(c) /\ k \in 1 .. Len(b) /\ k - 1 \in 1 .. Len(b)
          /\ (Len(a) + k) - 1 = Len(a) + (k - 1)
      BY <1>1, <1>4
    <3> QED BY <1>5, <1>12, <3>1 DEF Chain
  <2>3. ASSUME a # <<>>, b # <<>> PROVE Follows(b[1], Last(a))
    <3>1. /\ Len(a) + 1 \in 2 .. Len(c) /\ 1 \in 1 .. Len(b) /\ Len(a) \in 1 .. Len(a)
          /\ (Len(a) + 1) - 1 = Len(a)
      BY <1>1, <1>4, <2>3
    <3> QED BY <1>5, <1>12, <3>1 DEF Chain, Last
  <2> QED BY <2>1, <2>2, <2>3 DEF Chain
<1>13. ASSUME Chain(a), Chain(b), a # <<>> /\ b # <<>> => Follows(b[1], Last(a))
       PROVE  Chain(c)
  <2> SUFFICES ASSUME NEW k \in 2 .. Len(c) PROVE Follows(c[k], c[k - 1])
    BY DEF Chain
  <2>1. CASE k <= Len(a)
    <3>1. k \in 2 .. Len(a) /\ k \in 1 .. Len(a) /\ k - 1 \in 1 .. Len(a)
      BY <1>4, <2>1
    <3> QED BY <1>5, <1>13, <3>1 DEF Chain
  <2>2. CASE k = Len(a) + 1
    <3>1. k - 1 = Len(a) /\ Len(a) \in 1 .. Len(a) /\ 1 \in 1 .. Len(b)
      BY <1>1, <1>4, <2>2
    <3>2. a # <<>> /\ b # <<>>
      BY <3>1, EmptySeq
    <3> QED BY <1>5, <1>13, <2>2, <3>1, <3>2 DEF Last
  <2>3. CASE k > Len(a) + 1
    <3>1. PICK j \in 2 .. Len(b) : k = Len(a) + j
      <4>1. k - Len(a) \in 2 .. Len(b) /\ k = Len(a) + (k - Len(a))
        BY <1>1, <1>4, <2>3
      <4> QED BY <4>1
    <3>2. j \in 1 .. Len(b) /\ j - 1 \in 1 .. Len(b) /\ k - 1 = Len(a) + (j - 1)
      BY <1>4, <3>1
    <3> QED BY <1>5, <1>13, <3>1, <3>2 DEF Chain
  <2> QED BY <1>1, <1>4, <2>1, <2>2, <2>3
<1>14. Chain(c) <=> /\ Chain(a) /\ Chain(b)
                    /\ a # <<>> /\ b # <<>> => Follows(b[1], Last(a))
  BY <1>12, <1>13
<1>15. /\ c \in Seq(Packets)
       /\ c = <<>> <=> (a = <<>> /\ b = <<>>)
       /\ a # <<>> => c[1] = a[1]
       /\ a = <<>> => c = b
       /\ b # <<>> => Last(c) = Last(b)
       /\ b = <<>> => c = a
  BY <1>1, <1>2, <1>3, <1>7, <1>8, <1>9
<1> QED
  BY <1>10, <1>11, <1>14, <1>15 DEF c

LEMMA SingleFacts ==
  ASSUME NEW e \in Packets
  PROVE  /\ <<e>> \in Seq(Packets) /\ <<e>> # <<>>
         /\ <<e>>[1] = e /\ Last(<<e>>) = e
         /\ Reset(<<e>>) <=> e.reset
         /\ KeyResets(<<e>>) <=> (e.reset => e.key)
         /\ Chain(<<e>>)
<1>1. /\ <<e>> \in Seq(Packets) /\ <<e>> # <<>> /\ <<e>>[1] = e /\ Len(<<e>>) = 1
      /\ DOMAIN <<e>> = {1}
  OBVIOUS
<1>2. Chain(<<e>>)
  BY <1>1 DEF Chain
<1> QED BY <1>1, <1>2 DEF Last, Reset, KeyResets

LEMMA EmptyFacts ==
  /\ <<>> \in Seq(Packets) /\ ~Reset(<<>>) /\ KeyResets(<<>>) /\ Chain(<<>>)
BY DEF Reset, KeyResets, Chain

LEMMA AppendIsOneMore ==
  ASSUME NEW s \in Seq(Packets), NEW e \in Packets
  PROVE  Append(s, e) = s \o <<e>> /\ Append(s, e) \in Seq(Packets)
BY AppendIsConcat, AppendProperties

LEMMA HeadAndTail ==
  ASSUME NEW s \in Seq(Packets), s # <<>>
  PROVE  /\ Head(s) \in Packets /\ Head(s) = s[1] /\ Tail(s) \in Seq(Packets)
         /\ s = <<Head(s)>> \o Tail(s)
<1>1. /\ Head(s) \in Packets /\ Head(s) = s[1] /\ Tail(s) \in Seq(Packets)
      /\ Len(s) \in Nat \ {0} /\ Len(Tail(s)) = Len(s) - 1
      /\ \A k \in 1 .. Len(Tail(s)) : Tail(s)[k] = s[k + 1]
  BY TailFacts
<1> DEFINE h == <<Head(s)>>
           t == Tail(s)
           c == h \o t
<1>2. h \in Seq(Packets) /\ Len(h) = 1 /\ h[1] = Head(s) /\ t \in Seq(Packets)
  BY <1>1
<1> SUFFICES Head(s) \in Packets /\ Head(s) = s[1] /\ t \in Seq(Packets) /\ s = c
  OBVIOUS
<1> HIDE DEF h, t
<1>3. /\ c \in Seq(Packets) /\ Len(c) = 1 + Len(t)
      /\ \A k \in 1 .. Len(h) + Len(t) :
           c[k] = IF k <= Len(h) THEN h[k] ELSE t[k - Len(h)]
  BY <1>2, ConcatProperties
<1> HIDE DEF c
<1>0. Len(t) = Len(s) - 1 /\ \A k \in 1 .. Len(t) : t[k] = s[k + 1]
  BY <1>1 DEF t
<1>4. Len(c) = Len(s)
  BY <1>0, <1>1, <1>3
<1>5. ASSUME NEW k \in 1 .. Len(s) PROVE c[k] = s[k]
  <2>1. CASE k = 1
    BY <1>1, <1>2, <1>3, <2>1
  <2>2. CASE k # 1
    <3>1. k - 1 \in 1 .. Len(t) /\ (k - 1) + 1 = k /\ ~(k <= 1)
      BY <1>0, <1>1, <2>2
    <3>2. c[k] = t[k - 1]
      BY <1>0, <1>1, <1>2, <1>3, <3>1
    <3> QED BY <1>0, <1>1, <3>1, <3>2
  <2> QED BY <2>1, <2>2
<1>6. s = c
  BY <1>3, <1>4, <1>5, SeqEqual
<1> QED
  BY <1>1, <1>2, <1>6

LEMMA LineParts ==
  ASSUME LineTypes
  PROVE  /\ Wanted \in Seq(Packets) /\ Deck \in Seq(Packets) /\ Rear \in Seq(Packets)
         /\ Line \in Seq(Packets) /\ Before \in One(Packets)
<1>1. Wanted \in Seq(Packets)
  <2>1. CASE hand = <<>>
    BY <2>1 DEF Wanted
  <2>2. CASE hand # <<>>
    <3>1. PICK e \in [packet : Packets, current : BOOLEAN] : hand = <<e>>
      BY <2>2 DEF LineTypes, One
    <3>2. hand[1].packet \in Packets
      BY <3>1
    <3> QED BY <3>2 DEF Wanted
  <2> QED BY <2>1, <2>2
<1>2. Deck \in Seq(Packets) /\ Before \in One(Packets)
  BY DEF LineTypes, Deck, Before
<1>3. Rear \in Seq(Packets)
  BY <1>1, ConcatFacts DEF Rear, LineTypes
<1>4. Line \in Seq(Packets)
  BY <1>2, <1>3, ConcatFacts DEF Line
<1> QED BY <1>1, <1>2, <1>3, <1>4

LEMMA LineTyped == LineTypes => Line \in Seq(Packets)
BY LineParts

LEMMA LineTypedNext == (LineTypes => Line \in Seq(Packets))'
BY LineTyped, PTL

\* What the next state has to show.
LEMMA LinePrimed ==
  ASSUME LineTypes', KeyResets(Line'), Chain(Line'),
         \/ required' \/ alarms' # {} \/ waiting' \/ recovers' \/ Reset(Line')
         \/ Joined(Line', Before', GoesOn'),
         ~waiting' /\ Line' # <<>> => Last(Line') \in GoesOn',
         Replaced', Works', Begun'
  PROVE  LineInv'
<1>1. LineSound'
  BY DEF LineSound, KeyResets, Chain, Follows, After
<1>2. LineJoined'
  BY DEF LineJoined, Known, Joined, Reset, Follows, After
<1>3. LineGoesOn'
  BY DEF LineGoesOn, Last
<1> QED BY <1>1, <1>2, <1>3 DEF LineInv

\* Nothing in the line changes.
LEMMA LineKept ==
  ASSUME LineInv, LineTypes', Replaced', Works', Begun',
         Line' = Line, Before' = Before, waiting' = waiting, recovers' = recovers,
         required \/ alarms # {} => required' \/ alarms' # {},
         last # NoFrame => GoesOn \subseteq GoesOn'
  PROVE  LineInv'
<1>1. KeyResets(Line') /\ Chain(Line')
  BY DEF LineInv, LineSound
<1>2. ~waiting' /\ Line' # <<>> => Last(Line') \in GoesOn'
  BY DEF LineInv, LineGoesOn, Begun
<1>3. \/ required' \/ alarms' # {} \/ waiting' \/ recovers' \/ Reset(Line')
      \/ Joined(Line', Before', GoesOn')
  <2>1. CASE Known \/ recovers
    BY <2>1 DEF Known
  <2>2. CASE Joined(Line, Before, GoesOn)
    <3>1. Line # <<>> \/ Before # <<>>
      BY <2>2 DEF Joined
    <3>2. GoesOn \subseteq GoesOn'
      BY <3>1 DEF LineInv, Begun
    <3> QED BY <2>2, <3>2 DEF Joined
  <2> QED BY <2>1, <2>2 DEF LineInv, LineJoined
<1> QED BY <1>1, <1>2, <1>3, LinePrimed

\* The front of the line is lost, and that is known or a keyframe is next.
LEMMA LineCut ==
  ASSUME LineInv, LineTypes', Replaced', Works', Begun',
         NEW a \in Seq(Packets), Line = a \o Line',
         waiting' = waiting, GoesOn' = GoesOn,
         \/ required' \/ alarms' # {} \/ recovers'
         \/ Line' # <<>> /\ Line'[1].key
  PROVE  LineInv'
<1> DEFINE b == Line'
<1>1. b \in Seq(Packets)
  BY LineTypedNext
<1>2. KeyResets(a \o b) /\ Chain(a \o b) /\ (~waiting /\ a \o b # <<>> => Last(a \o b) \in GoesOn)
  BY DEF LineInv, LineSound, LineGoesOn
<1> SUFFICES /\ KeyResets(b) /\ Chain(b)
             /\ \/ required' \/ alarms' # {} \/ waiting' \/ recovers' \/ Reset(b)
                \/ Joined(b, Before', GoesOn')
             /\ ~waiting' /\ b # <<>> => Last(b) \in GoesOn'
  BY LinePrimed
<1>3. b # <<>> /\ b[1].key => Joined(b, Before', GoesOn')
  BY DEF Joined
<1>4. \/ required' \/ alarms' # {} \/ recovers'
      \/ b # <<>> /\ b[1].key
  OBVIOUS
<1> HIDE DEF b
<1> QED BY <1>1, <1>2, <1>3, <1>4, ConcatFacts

\* The decoder worker takes the first packet of the line.
LEMMA LineAdvanced ==
  ASSUME LineInv, LineTypes', Replaced', Works', Begun',
         NEW p \in Packets, Line = <<p>> \o Line', Before' = <<p>>,
         waiting' = waiting, GoesOn' = GoesOn
  PROVE  LineInv'
<1> DEFINE a == <<p>>
           b == Line'
           c == a \o b
<1>1. b \in Seq(Packets)
  BY LineTypedNext
<1>2. KeyResets(c) /\ Chain(c) /\ (~waiting /\ c # <<>> => Last(c) \in GoesOn)
  BY DEF LineInv, LineSound, LineGoesOn
<1>3. a \in Seq(Packets) /\ a # <<>> /\ a[1] = p /\ Last(a) = p
  BY SingleFacts
<1> SUFFICES /\ KeyResets(b) /\ Chain(b)
             /\ waiting \/ Joined(b, a, GoesOn)
             /\ ~waiting /\ b # <<>> => Last(b) \in GoesOn
  BY LinePrimed
<1> HIDE DEF a, b
<1>4. /\ KeyResets(b) /\ Chain(b) /\ c # <<>>
      /\ b # <<>> => Follows(b[1], Last(a)) /\ Last(c) = Last(b)
      /\ b = <<>> => c = a
  BY <1>1, <1>2, <1>3, ConcatFacts
<1> HIDE DEF c
<1>5. waiting \/ Joined(b, a, GoesOn)
  BY <1>2, <1>3, <1>4 DEF Joined
<1> QED BY <1>2, <1>4, <1>5

-----------------------------------------------------------------------------
\* Nothing is queued at first, and the queue waits for a keyframe.
LEMMA LineInit == Init => LineInv
<1> SUFFICES ASSUME Init PROVE LineInv
  OBVIOUS
<1>1. /\ queued = <<>> /\ waiting = TRUE /\ hand = <<>> /\ staged = <<>> /\ adopted = FALSE
      /\ encoded = <<>> /\ next = <<>> /\ fed = <<>> /\ recovers = FALSE
  BY DEF Init, QueueInit, DecoderInit
<1>2. LineTypes
  BY <1>1, EmptyFacts DEF LineTypes, One
<1>3. Wanted = <<>> /\ Deck = <<>> /\ Before = <<>>
  BY <1>1 DEF Wanted, Deck, Before
<1>4. Line = <<>>
  BY <1>1, <1>3, EmptyFacts, ConcatFacts DEF Line, Rear
<1>5. LineSound /\ LineJoined /\ LineGoesOn
  BY <1>1, <1>4, EmptyFacts DEF LineSound, LineJoined, Known, LineGoesOn
<1>6. Replaced /\ Works /\ Begun
  BY <1>1, <1>3, <1>4 DEF Replaced, Works, Begun
<1> QED
  BY <1>2, <1>5, <1>6 DEF LineInv

LEMMA GoesOnStays == UNCHANGED <<last, contiguous, gap, ingress>> => GoesOn' = GoesOn
BY DEF GoesOn, After

\* What happens before the queue moves no packet of the line.
LEMMA UpstreamKeepsLine ==
  ASSUME LineInv, UNCHANGED <<queueVars, decoderVars, alarms>>,
         last # NoFrame => last' # NoFrame,
         last # NoFrame => GoesOn \subseteq GoesOn'
  PROVE  LineInv'
<1>1. /\ UNCHANGED <<queued, waiting, hand, staged, adopted, encoded, recovers, next, fed, required>>
      /\ alarms' = alarms
  BY DEF queueVars, decoderVars, stagingVars, workerVars, sceneVars
<1>2. Line' = Line /\ Before' = Before
  BY <1>1 DEF Line, Before, Rear, Deck, Wanted
<1>3. LineTypes' /\ Replaced' /\ Works'
  BY <1>1 DEF LineInv, LineTypes, Replaced, Works, Reset
<1>4. Begun'
  BY <1>2 DEF LineInv, Begun, NoFrame
<1> QED
  BY <1>1, <1>2, <1>3, <1>4, LineKept

\* A frame is handed over: the channel goes on as before, unless it is the
\* first one.
LEMMA FrameKeepsLine ==
  ASSUME ChainInv, LineInv, NEW n \in 0 .. Cycle - 1, NEW key \in BOOLEAN, Frame(n, key)
  PROVE  LineInv'
<1> DEFINE frame == [n |-> n, key |-> key, contiguous |-> contiguous /\ ~gap]
<1>1. /\ contiguous => last = NoFrame \/ n = After(last)
      /\ last' = n /\ contiguous' = TRUE /\ n # NoFrame
      /\ UNCHANGED <<queueVars, decoderVars, alarms>>
  BY CycleAssumption DEF Frame, Hand, NoFrame
<1>2. ingress \in Seq(Frames) /\ frame \in Frames
  BY DEF ChainInv, ChainTypes, Frames
<1>3. ASSUME last # NoFrame, NEW x \in GoesOn PROVE x \in GoesOn'
  <2>1. CASE Len(ingress) = IngressCap
    <3>1. gap' = TRUE /\ ingress' = ingress
      BY <2>1 DEF Frame, Deliver
    <3>2. ingress # <<>>
      BY <2>1, DeliveryAssumption, EmptySeq
    <3> QED BY <1>3, <3>1, <3>2 DEF GoesOn, After
  <2>2. CASE Len(ingress) # IngressCap
    <3>1. gap' = FALSE /\ ingress' = Append(ingress, frame)
      BY <2>2 DEF Frame, Deliver
    <3>2. /\ ingress' # <<>>
          /\ ingress # <<>> => ingress'[1] = ingress[1]
          /\ ingress = <<>> => ingress'[1] = frame
      BY <1>2, <3>1, AppendFacts
    <3>3. CASE ingress # <<>>
      BY <1>3, <3>2, <3>3 DEF GoesOn, After
    <3>4. CASE ingress = <<>>
      <4>1. x \in Packets /\ (contiguous /\ ~gap => x.n = last)
        BY <1>3, <3>4 DEF GoesOn
      <4>2. frame.contiguous => frame.n = After(x.n)
        BY <1>1, <1>3, <4>1
      <4> QED BY <3>2, <3>4, <4>1, <4>2 DEF GoesOn, After
    <3> QED BY <3>3, <3>4
  <2> QED BY <2>1, <2>2
<1> QED
  BY <1>1, <1>3, UpstreamKeepsLine

\* A loss makes the next frame not contiguous; the requests only pass on.
LEMMA LossKeepsLine ==
  ASSUME LineInv, Loss \/ Ask \/ Forward
  PROVE  LineInv'
<1>1. /\ UNCHANGED <<queueVars, decoderVars, alarms, last, gap, ingress>>
      /\ contiguous' = contiguous \/ contiguous' = FALSE
  BY DEF Loss, Ask, Forward, Invalidate, RequestKeyframe, sourceVars
<1>2. GoesOn \subseteq GoesOn'
  BY <1>1 DEF GoesOn, After
<1> QED
  BY <1>1, <1>2, UpstreamKeepsLine

\* The worker takes the first packet into its hand, where it stays in the line.
LEMMA PopKeepsLine == ASSUME LineInv, Pop PROVE LineInv'
<1>1. /\ hand = <<>> /\ queued # <<>> /\ queued' = Tail(queued)
      /\ hand' = <<[packet |-> Head(queued), current |-> TRUE]>>
      /\ UNCHANGED <<waiting, alarms, last, contiguous, gap, ingress>>
      /\ UNCHANGED <<staged, adopted, encoded, recovers, next, fed, required>>
  BY DEF Pop, QueuePop, sourceVars, linkVars, decoderVars, stagingVars, workerVars, sceneVars
<1>2. queued \in Seq(Packets)
  BY DEF LineInv, LineTypes
<1>3. /\ Head(queued) \in Packets /\ queued' \in Seq(Packets)
      /\ queued = <<Head(queued)>> \o queued'
  BY <1>1, <1>2, HeadAndTail
<1>4. Wanted = <<>> /\ Wanted' = <<Head(queued)>>
  BY <1>1 DEF Wanted
<1>5. Rear' = Rear
  <2>1. Rear = queued
    BY <1>2, <1>4, EmptyFacts, ConcatFacts DEF Rear
  <2> QED BY <1>3, <1>4, <2>1 DEF Rear
<1>6. Line' = Line /\ Before' = Before
  BY <1>1, <1>5 DEF Line, Before, Deck
<1>7. LineTypes'
  <2>1. hand' \in One([packet : Packets, current : BOOLEAN])
    BY <1>1, <1>3 DEF One
  <2> QED BY <1>1, <1>3, <2>1 DEF LineInv, LineTypes
<1>8. Replaced' /\ Works' /\ Begun'
  BY <1>1, <1>6 DEF LineInv, Replaced, Works, Begun, NoFrame
<1>9. GoesOn' = GoesOn
  BY <1>1, GoesOnStays
<1> QED
  BY <1>1, <1>6, <1>7, <1>8, <1>9, LineKept

\* A queue of the decoder that is full forgets what it holds, for a keyframe
\* or for the alarm.
LEMMA SubmitKeepsLine == ASSUME LineInv, Submit PROVE LineInv'
<1>1. /\ hand # <<>> /\ hand' = <<>>
      /\ UNCHANGED <<queued, waiting, last, contiguous, gap, ingress>>
  BY DEF Submit, sourceVars, linkVars
<1>2. GoesOn' = GoesOn
  BY <1>1, GoesOnStays
<1>3. /\ queued \in Seq(Packets) /\ Deck \in Seq(Packets)
      /\ Wanted' = <<>> /\ Replaced'
  BY <1>1, LineParts DEF LineInv, Wanted, Replaced, LineTypes
<1>4. Rear' = queued
  BY <1>1, <1>3, EmptyFacts, ConcatFacts DEF Rear
<1>5. CASE ~hand[1].current
  <2>1. UNCHANGED <<alarms, staged, adopted, encoded, recovers, next, fed, required>>
    BY <1>5 DEF Submit, decoderVars, stagingVars, workerVars, sceneVars
  <2>2. Wanted' = Wanted
    BY <1>3, <1>5 DEF Wanted
  <2>3. Line' = Line /\ Before' = Before
    BY <1>1, <2>1, <2>2 DEF Line, Rear, Deck, Before
  <2>4. LineTypes' /\ Works' /\ Begun'
    BY <1>1, <2>1, <2>3 DEF LineInv, LineTypes, One, Works, Begun, NoFrame
  <2> QED BY <1>1, <1>2, <1>3, <2>1, <2>3, <2>4, LineKept
<1>6. CASE hand[1].current
  <2> DEFINE p == hand[1].packet
             one == <<p>>
  <2>1. p \in Packets /\ Wanted = one
    <3>1. PICK e \in [packet : Packets, current : BOOLEAN] : hand = <<e>>
      BY <1>1 DEF LineInv, LineTypes, One
    <3>2. p \in Packets
      BY <3>1
    <3> QED BY <1>1, <1>6, <3>2 DEF Wanted
  <2>2. /\ Stage(p)
        /\ alarms' = IF Taken(p) THEN alarms ELSE alarms \cup {"worker"}
    BY <1>6 DEF Submit
  <2> HIDE DEF p
  <2>3. /\ Deck' = Pushed(Deck, p)
        /\ UNCHANGED <<adopted, recovers, next, fed, required>>
        /\ IF adopted THEN staged' = staged ELSE encoded' = encoded
    BY <2>2 DEF Stage, Deck
  <2>4. /\ one \in Seq(Packets) /\ one # <<>> /\ one[1] = p
        /\ Append(Deck, p) = Deck \o one
    BY <1>3, <2>1, SingleFacts, AppendIsOneMore
  <2> HIDE DEF one
  <2>5. Line = Deck \o (one \o queued) /\ Line = (Deck \o one) \o queued
    BY <1>3, <2>1, <2>4, ConcatAssociative DEF Line, Rear
  <2>6. Line' = Pushed(Deck, p) \o queued /\ Before' = Before
    BY <1>4, <2>3 DEF Line, Before
  <2>7. Pushed(Deck, p) \in Seq(Packets)
    BY <1>3, <2>1, <2>4, ConcatFacts, SingleFacts, EmptyFacts DEF Pushed
  <2>8. LineTypes'
    <3>1. hand' \in One([packet : Packets, current : BOOLEAN])
      BY <1>1 DEF One
    <3>2. encoded' \in Seq(Packets) /\ staged' \in Seq(Packets)
      BY <2>3, <2>7 DEF Deck, LineInv, LineTypes
    <3> QED BY <1>1, <2>3, <3>1, <3>2 DEF LineInv, LineTypes
  <2>9. Works'
    BY <2>3 DEF LineInv, Works
  <2>10. Begun'
    <3>1. Line # <<>>
      BY <1>3, <2>4, <2>5, ConcatFacts
    <3> QED BY <1>1, <3>1 DEF LineInv, Begun, NoFrame
  <2>11. CASE ~Full(Deck)
    <3>1. Line' = Line
      BY <2>4, <2>5, <2>6, <2>11 DEF Pushed
    <3>2. alarms # {} => alarms' # {}
      BY <2>2
    <3> QED BY <1>1, <1>2, <1>3, <2>3, <2>6, <2>8, <2>9, <2>10, <3>1, <3>2, LineKept
  <2>12. CASE Full(Deck) /\ p.key
    <3>1. Line' = one \o queued
      BY <2>6, <2>12 DEF Pushed, one
    <3>2. Line' # <<>> /\ Line'[1].key
      BY <1>3, <2>4, <2>12, <3>1, ConcatFacts
    <3>3. Line = Deck \o Line'
      BY <2>5, <3>1
    <3> QED BY <1>1, <1>2, <1>3, <2>8, <2>9, <2>10, <3>2, <3>3, LineCut
  <2>13. CASE Full(Deck) /\ ~p.key
    <3>1. Pushed(Deck, p) = <<>>
      BY <2>13 DEF Pushed
    <3>2. Line' = queued
      BY <1>3, <2>6, <3>1, EmptyFacts, ConcatFacts
    <3>3. Line = (Deck \o one) \o Line' /\ Deck \o one \in Seq(Packets)
      BY <1>3, <2>4, <2>5, <3>2, ConcatFacts
    <3>4. alarms' # {}
      <4>1. ~Taken(p)
        BY <2>13 DEF Taken, Overflows, Deck
      <4> QED BY <2>2, <4>1
    <3> QED BY <1>1, <1>2, <1>3, <2>8, <2>9, <2>10, <3>3, <3>4, LineCut
  <2> QED BY <2>11, <2>12, <2>13
<1> QED
  BY <1>5, <1>6

\* An invalidation leaves what the decoder has, and the queue waits.
LEMMA OutdatedFacts ==
  ASSUME hand \in One([packet : Packets, current : BOOLEAN])
  PROVE  /\ Outdated \in One([packet : Packets, current : BOOLEAN])
         /\ Outdated # <<>> => ~Outdated[1].current
<1>1. CASE hand = <<>>
  <2>1. Outdated = <<>>
    BY <1>1 DEF Outdated
  <2> QED BY <2>1 DEF One
<1>2. CASE hand # <<>>
  <2>1. PICK e \in [packet : Packets, current : BOOLEAN] : hand = <<e>>
    BY <1>2 DEF One
  <2> DEFINE f == [e EXCEPT !.current = FALSE]
  <2>2. f \in [packet : Packets, current : BOOLEAN] /\ ~f.current
    OBVIOUS
  <2> HIDE DEF f
  <2>3. Outdated = <<f>>
    <3> DEFINE R == [packet : Packets, current : BOOLEAN]
    <3>1. Len(hand) = 1 /\ DOMAIN hand = 1 .. 1 /\ hand[1] = e
      BY <2>1
    <3>2. Outdated = [k \in 1 .. 1 |-> f]
      <4>1. Outdated = [k \in 1 .. 1 |-> [hand[k] EXCEPT !.current = FALSE]]
        BY <3>1, Zenon DEF Outdated
      <4>2. \A k \in 1 .. 1 : k = 1
        OBVIOUS
      <4>3. \A k \in 1 .. 1 : [hand[k] EXCEPT !.current = FALSE] = f
        BY <3>1, <4>2, Zenon DEF f
      <4> QED BY <4>1, <4>3, Zenon
    <3>3. [k \in 1 .. 1 |-> f] \in Seq(R) /\ Len([k \in 1 .. 1 |-> f]) = 1
      BY <2>2, SeqDef
    <3>4. <<f>> \in Seq(R) /\ Len(<<f>>) = 1 /\ <<f>>[1] = f
      BY <2>2
    <3>5. \A k \in 1 .. 1 : [j \in 1 .. 1 |-> f][k] = <<f>>[k]
      BY <3>4
    <3> HIDE DEF R
    <3> QED BY <3>2, <3>3, <3>4, <3>5, SeqEqual
  <2> QED BY <2>2, <2>3 DEF One
<1> QED BY <1>1, <1>2

LEMMA InvalidationKeepsLine ==
  ASSUME LineInv, NEW thread, InvalidateVideo(thread) PROVE LineInv'
<1>1. /\ queued' = <<>> /\ waiting' = TRUE /\ hand' = Outdated
      /\ UNCHANGED <<last, staged, adopted, encoded, recovers, next, fed>>
  BY DEF InvalidateVideo, QueueClear, sourceVars, decoderVars, stagingVars, workerVars
<1>2. LineTypes'
  BY <1>1, OutdatedFacts, EmptyFacts DEF LineInv, LineTypes
<1>3. Wanted' = <<>>
  <2>1. hand' # <<>> => ~hand'[1].current
    BY <1>1, OutdatedFacts DEF LineInv, LineTypes
  <2> QED BY <2>1 DEF Wanted
<1>4. /\ Deck \in Seq(Packets) /\ Rear \in Seq(Packets)
      /\ Deck' = Deck /\ Before' = Before
  BY <1>1, LineParts DEF LineInv, Deck, Before
<1>5. Rear' = <<>>
  BY <1>1, <1>3, EmptyFacts, ConcatFacts DEF Rear
<1>6. Line' = Deck
  BY <1>4, <1>5, EmptyFacts, ConcatFacts DEF Line
<1>7. KeyResets(Line') /\ Chain(Line') /\ (Line' # <<>> => Line # <<>>)
  BY <1>4, <1>6, ConcatFacts DEF LineInv, LineSound, Line
<1>8. Replaced' /\ Works' /\ Begun'
  BY <1>1, <1>4, <1>7 DEF LineInv, Replaced, Works, Begun, NoFrame
<1> QED
  BY <1>1, <1>2, <1>7, <1>8, LinePrimed

\* The decoder worker is behind the line. What it takes it takes in order,
LEMMA WorkerTakes ==
  ASSUME LineInv, Feed \/ ResetDecoder \/ RecoverDecoder,
         UNCHANGED <<queueVars, alarms, last, contiguous, gap, ingress>>
  PROVE  LineInv'
<1>1. /\ UNCHANGED <<queued, waiting, hand, staged, adopted, required, alarms>>
      /\ adopted = TRUE /\ GoesOn' = GoesOn
      /\ last' = last
  BY GoesOnStays
     DEF queueVars, Feed, ResetDecoder, RecoverDecoder, HasInput, stagingVars, sceneVars,
         LineInv, LineTypes
<1>2. Wanted' = Wanted /\ Rear' = Rear /\ Deck' = encoded' /\ Deck = encoded
  BY <1>1 DEF Wanted, Rear, Deck
<1>3. CASE next # <<>> /\ (Feed \/ ResetDecoder)
  <2>1. PICK p \in Packets : next = <<p>>
    BY <1>3 DEF LineInv, LineTypes, One
  <2>2. Head(next) = p
    BY <2>1
  <2>3. /\ encoded' = encoded /\ recovers' = recovers
        /\ \/ fed' = next /\ next' = <<>>
           \/ next' = next /\ fed' = <<>>
    BY <1>3, <2>1, <2>2 DEF Feed, ResetDecoder, Input, Behind
  <2>4. Line' = Line /\ Before' = Before
    BY <1>2, <1>3, <2>3 DEF Line, Before
  <2>5. LineTypes' /\ Replaced' /\ Works' /\ Begun'
    BY <1>1, <2>3, <2>4 DEF LineInv, LineTypes, One, Replaced, Works, Begun, Reset, NoFrame
  <2> QED BY <1>1, <2>3, <2>4, <2>5, LineKept
<1>4. CASE next = <<>> \/ RecoverDecoder
  <2> DEFINE p == Head(encoded)
             one == <<p>>
  <2>1. /\ encoded # <<>> /\ encoded' = Tail(encoded)
        /\ \/ fed' = one /\ next' = <<>> /\ recovers' = recovers
           \/ next' = one /\ fed' = <<>> /\ recovers' = recovers /\ p.reset
           \/ next' = one /\ fed' = fed /\ recovers' = FALSE /\ p.key
    BY <1>4 DEF Feed, ResetDecoder, RecoverDecoder, HasInput, Resets, Input, Behind
  <2>2. /\ p \in Packets /\ encoded' \in Seq(Packets) /\ encoded = one \o encoded'
        /\ p = encoded[1]
    BY <2>1, HeadAndTail DEF LineInv, LineTypes
  <2>3. one \in Seq(Packets) /\ one # <<>> /\ one \in One(Packets)
    BY <2>2, SingleFacts DEF One
  <2>4. Rear \in Seq(Packets)
    BY LineParts DEF LineInv
  <2>5. Line = one \o Line'
    <3> HIDE DEF p, one
    <3>1. Line = (one \o encoded') \o Rear /\ Line' = encoded' \o Rear
      BY <1>2, <2>2 DEF Line
    <3> QED BY <2>2, <2>3, <2>4, <3>1, ConcatAssociative
  <2>6. p.reset => p.key
    <3>1. KeyResets(encoded)
      BY <1>2, <2>4, ConcatFacts DEF LineInv, LineSound, Line, LineTypes
    <3>2. 1 \in DOMAIN encoded
      BY <2>1, EmptySeq, LenProperties DEF LineInv, LineTypes
    <3> QED BY <2>2, <3>1, <3>2 DEF KeyResets
  <2> HIDE DEF one
  <2>7. Before' = one
    BY <2>1, <2>3 DEF Before
  <2>8. LineTypes'
    <3>1. next' \in One(Packets) /\ fed' \in One(Packets)
      BY <2>1, <2>3 DEF LineInv, LineTypes, One
    <3>2. next' # <<>> => next'[1].key
      BY <2>1, <2>6 DEF one
    <3> QED BY <1>1, <2>2, <3>1, <3>2 DEF LineInv, LineTypes
  <2>9. Replaced' /\ Works'
    BY <1>1 DEF LineInv, Replaced, Works, Reset
  <2>10. Begun'
    <3>1. Line # <<>>
      BY <1>2, <2>1, <2>4, ConcatFacts DEF Line, LineInv, LineTypes
    <3> QED BY <1>1, <3>1 DEF LineInv, Begun, NoFrame
  <2> QED BY <1>1, <2>2, <2>5, <2>7, <2>8, <2>9, <2>10, LineAdvanced DEF one
<1> QED
  BY <1>3, <1>4

\* and what it loses is the front of the line, for which it waits to recover.
LEMMA WorkerLoses ==
  ASSUME LineInv, PollFails \/ FeedFails \/ ResetFails \/ Skip \/ RecoverFails,
         UNCHANGED <<queueVars, alarms, last, contiguous, gap, ingress>>
  PROVE  LineInv'
<1>1. /\ UNCHANGED <<queued, waiting, hand, staged, adopted, required, alarms>>
      /\ adopted = TRUE /\ recovers' = TRUE /\ GoesOn' = GoesOn /\ last' = last
      /\ \/ next' = <<>> /\ fed' = <<>>
         \/ next' = next /\ fed' = fed
  BY GoesOnStays
     DEF queueVars, PollFails, FeedFails, ResetFails, Skip, RecoverFails, LoseDecoder,
         HasInput, stagingVars, sceneVars, LineInv, LineTypes
<1>2. Rear' = Rear /\ Deck' = encoded' /\ Deck = encoded
  BY <1>1 DEF Wanted, Rear, Deck
<1>3. Rear \in Seq(Packets) /\ encoded \in Seq(Packets)
  BY LineParts DEF LineInv, LineTypes
<1>4. PICK a \in Seq(Packets) : encoded' \in Seq(Packets) /\ encoded = a \o encoded'
  <2>1. CASE encoded' = encoded
    <3>1. encoded = <<>> \o encoded'
      BY <1>3, <2>1, EmptyFacts, ConcatFacts
    <3> QED BY <1>3, <2>1, <3>1, EmptyFacts
  <2>2. CASE encoded' = <<>>
    <3>1. encoded = encoded \o encoded'
      BY <1>3, <2>2, EmptyFacts, ConcatFacts
    <3> QED BY <1>3, <2>2, <3>1, EmptyFacts
  <2>3. CASE encoded # <<>> /\ encoded' = Tail(encoded)
    <3>1. /\ encoded' \in Seq(Packets) /\ encoded = <<Head(encoded)>> \o encoded'
          /\ <<Head(encoded)>> \in Seq(Packets)
      BY <1>3, <2>3, HeadAndTail, SingleFacts
    <3> QED BY <3>1
  <2> QED
    BY <2>1, <2>2, <2>3
       DEF PollFails, FeedFails, ResetFails, Skip, RecoverFails, HasInput, Input, Behind
<1>5. Line = a \o Line'
  <2>1. Line = (a \o encoded') \o Rear /\ Line' = encoded' \o Rear
    BY <1>2, <1>4 DEF Line
  <2> QED BY <1>3, <1>4, <2>1, ConcatAssociative
<1>6. LineTypes'
  <2>1. next' \in One(Packets) /\ fed' \in One(Packets) /\ (next' # <<>> => next'[1].key)
    BY <1>1 DEF LineInv, LineTypes, One
  <2> QED BY <1>1, <1>4, <2>1 DEF LineInv, LineTypes
<1>7. Replaced' /\ Works'
  BY <1>1 DEF LineInv, Replaced, Works, Reset
<1>8. Begun'
  <2>1. Line' # <<>> => Line # <<>>
    BY <1>2, <1>3, <1>4, <1>5, LineTypedNext, <1>6, ConcatFacts
  <2>2. Before' # <<>> => Before # <<>>
    BY <1>1 DEF Before
  <2> QED BY <1>1, <2>1, <2>2 DEF LineInv, Begun, NoFrame
<1> QED
  BY <1>1, <1>4, <1>5, <1>6, <1>7, <1>8, LineCut

\* The render thread hands the staged packets over as they are, and raises the
\* alarm that it takes the requirement for.
LEMMA RenderKeepsLine ==
  ASSUME LineInv, Render \/ RenderFails \/ StartScene
  PROVE  LineInv'
<1>1. /\ UNCHANGED <<queued, waiting, hand, last, contiguous, gap, ingress>>
      /\ UNCHANGED <<recovers, next, fed>>
      /\ GoesOn' = GoesOn
  BY GoesOnStays
     DEF Render, RenderFails, StartScene, Record, RecordFails, SceneStart, sourceVars,
         queueVars, linkVars, stagingVars, workerVars
<1>2. required \/ alarms # {} => required' \/ alarms' # {}
  <2>1. CASE Render \/ RenderFails
    BY <2>1 DEF Render, RenderFails, Alarm, Alarmed
  <2>2. CASE StartScene
    BY <2>2 DEF StartScene, SceneStart
  <2> QED BY <2>1, <2>2
<1>3. \/ UNCHANGED <<staged, adopted, encoded>>
      \/ adopted = FALSE /\ adopted' = TRUE /\ staged' = <<>> /\ encoded' = staged
  BY DEF Render, RenderFails, StartScene, Record, RecordFails, SceneStart, stagingVars,
         workerVars, LineInv, LineTypes
<1>4. Deck' = Deck /\ Wanted' = Wanted /\ Before' = Before
  BY <1>1, <1>3 DEF Deck, Wanted, Before
<1>5. Line' = Line
  BY <1>1, <1>4 DEF Line, Rear
<1>6. LineTypes'
  BY <1>1, <1>3, EmptyFacts DEF LineInv, LineTypes
<1>7. Replaced' /\ Works' /\ Begun'
  BY <1>1, <1>3, <1>4, <1>5 DEF LineInv, Replaced, Works, Begun, Reset, NoFrame
<1> QED
  BY <1>1, <1>2, <1>4, <1>5, <1>6, <1>7, LineKept

\* When the graphics context goes, so does the decoder, and a keyframe is
\* required.
LEMMA ShutdownKeepsLine == ASSUME LineInv, ShutdownScene PROVE LineInv'
<1>1. /\ UNCHANGED <<queued, waiting, hand, alarms, last, contiguous, gap, ingress>>
      /\ GoesOn' = GoesOn
  BY GoesOnStays DEF ShutdownScene, sourceVars, queueVars, linkVars
<1>2. CASE ~bound
  <2>1. UNCHANGED <<staged, adopted, encoded, recovers, next, fed, required>>
    BY <1>2 DEF ShutdownScene, SceneShutdown, stagingVars, workerVars
  <2>2. Line' = Line /\ Before' = Before
    BY <1>1, <2>1 DEF Line, Before, Rear, Deck, Wanted
  <2>3. LineTypes' /\ Replaced' /\ Works' /\ Begun'
    BY <1>1, <2>1, <2>2 DEF LineInv, LineTypes, Replaced, Works, Begun, Reset, NoFrame
  <2> QED BY <1>1, <2>1, <2>2, <2>3, LineKept
<1>3. CASE bound
  <2>1. /\ staged' = <<>> /\ adopted' = FALSE /\ encoded' = <<>> /\ recovers' = FALSE
        /\ next' = <<>> /\ fed' = <<>> /\ required' = TRUE
    BY <1>3 DEF ShutdownScene, SceneShutdown
  <2>2. /\ Deck' = <<>> /\ Rear' = Rear /\ Before' = <<>>
        /\ Deck \in Seq(Packets) /\ Rear \in Seq(Packets)
    BY <1>1, <2>1, LineParts DEF LineInv, Deck, Rear, Wanted, Before
  <2>3. Line' = Rear
    BY <2>2, EmptyFacts, ConcatFacts DEF Line
  <2>4. Line = Deck \o Line' /\ (Line' # <<>> => Line # <<>>)
    BY <2>2, <2>3, ConcatFacts DEF Line
  <2>5. LineTypes'
    BY <1>1, <2>1, EmptyFacts DEF LineInv, LineTypes, One
  <2>6. Replaced' /\ Works' /\ Begun'
    BY <1>1, <2>1, <2>2, <2>4 DEF LineInv, Replaced, Works, Begun, Reset, NoFrame
  <2> QED BY <1>1, <2>1, <2>2, <2>4, <2>5, <2>6, LineCut
<1> QED
  BY <1>2, <1>3

\* The pump puts a packet at the end of the line; after a loss it cuts the
\* line off behind the decoder's queue first.
LEMMA PumpKeepsLine == ASSUME ChainInv, LineInv, Pump PROVE LineInv'
<1> DEFINE frame == Head(ingress)
           p == Packet(frame, waiting \/ Invalidates(frame))
           one == <<p>>
<1>1. /\ ingress # <<>> /\ ingress' = Tail(ingress) /\ QueuePush(frame)
      /\ UNCHANGED <<alarms, last, contiguous, gap>>
      /\ UNCHANGED <<staged, adopted, encoded, recovers, next, fed, required>>
  BY DEF Pump, sourceVars, decoderVars, stagingVars, workerVars, sceneVars
<1>2. /\ frame \in Frames /\ frame = ingress[1] /\ Len(ingress) \in Nat \ {0}
      /\ ingress' # <<>> => Len(ingress) >= 2 /\ ingress'[1] = ingress[2]
      /\ ingress' = <<>> => Last(ingress) = frame
  BY <1>1, TailFacts DEF ChainInv, ChainTypes
<1>3. /\ p \in Packets /\ p.n = frame.n /\ p.key = frame.key
      /\ p.reset = (waiting \/ Invalidates(frame))
  BY <1>2 DEF Packets, Packet, Frames, Invalidates, ChainInv, ChainTypes
<1>4. p \in GoesOn'
  <2>1. ASSUME ingress' # <<>>, ingress'[1].contiguous PROVE ingress'[1].n = After(p.n)
    <3>1. 2 \in 2 .. Len(ingress) /\ 2 - 1 = 1
      BY <1>2, <2>1
    <3>2. ingress[2].n = After(ingress[2 - 1].n)
      BY <1>2, <2>1, <3>1 DEF ChainInv, IngressChained
    <3> QED BY <1>2, <1>3, <2>1, <3>1, <3>2
  <2>2. ASSUME ingress' = <<>>, contiguous, ~gap PROVE p.n = last
    BY <1>1, <1>2, <1>3, <2>2 DEF ChainInv, IngressEnds
  <2> QED BY <1>1, <1>3, <2>1, <2>2 DEF GoesOn, After
<1>5. \A x \in GoesOn : frame.contiguous => p.n = After(x.n)
  BY <1>1, <1>2, <1>3 DEF GoesOn
<1>6. /\ one \in Seq(Packets) /\ one # <<>> /\ one[1] = p /\ Last(one) = p
      /\ Reset(one) <=> p.reset
      /\ KeyResets(one) <=> (p.reset => p.key)
      /\ Chain(one)
  BY <1>3, SingleFacts
<1>7. /\ Deck' = Deck /\ Before' = Before
      /\ Deck \in Seq(Packets) /\ Wanted \in Seq(Packets) /\ Rear \in Seq(Packets)
      /\ Line \in Seq(Packets) /\ queued \in Seq(Packets)
  BY <1>1, LineParts DEF LineInv, LineTypes, Deck, Before
<1>8. Works' /\ last' # NoFrame
  BY <1>1 DEF LineInv, Works, ChainInv, HandedOver, NoFrame
<1>9. Begun'
  BY <1>8 DEF Begun, NoFrame
<1>10. /\ Outdated \in One([packet : Packets, current : BOOLEAN])
       /\ Outdated # <<>> => ~Outdated[1].current
  BY OutdatedFacts DEF LineInv, LineTypes
<1>11. frame.key => p.key
  BY <1>3
<1> SUFFICES LineInv'
  OBVIOUS
<1>12. waiting' = Refuses(frame)
  BY <1>1 DEF QueuePush
<1>13. CASE Refuses(frame) /\ ~Invalidates(frame)
  <2>1. queued' = queued /\ hand' = hand /\ waiting' = TRUE
    BY <1>1, <1>13 DEF QueuePush, Refuses
  <2>2. Line' = Line
    BY <1>7, <2>1 DEF Line, Rear, Wanted
  <2>3. LineTypes' /\ Replaced'
    BY <1>1, <2>1 DEF LineInv, LineTypes, Replaced
  <2> QED BY <1>8, <1>9, <2>1, <2>2, <2>3, LinePrimed DEF LineInv, LineSound
<1>14. CASE Refuses(frame) /\ Invalidates(frame)
  <2>1. queued' = <<>> /\ hand' = Outdated /\ waiting' = TRUE
    BY <1>1, <1>14 DEF QueuePush, Refuses
  <2>2. Wanted' = <<>>
    BY <1>10, <2>1 DEF Wanted
  <2>3. Rear' = <<>>
    BY <2>1, <2>2, EmptyFacts, ConcatFacts DEF Rear
  <2>4. Line' = Deck
    BY <1>7, <2>3, EmptyFacts, ConcatFacts DEF Line
  <2>5. KeyResets(Line') /\ Chain(Line')
    BY <1>7, <2>4, ConcatFacts DEF LineInv, LineSound, Line
  <2>6. LineTypes' /\ Replaced'
    BY <1>1, <1>10, <2>1, EmptyFacts DEF LineInv, LineTypes, Replaced
  <2> QED BY <1>8, <1>9, <2>1, <2>5, <2>6, LinePrimed
<1>15. CASE ~Refuses(frame) /\ Invalidates(frame)
  <2>1. queued' = Append(<<>>, p) /\ hand' = Outdated /\ p.reset /\ p.key
    BY <1>1, <1>3, <1>15 DEF QueuePush, Refuses
  <2> HIDE DEF p, frame, one
  <2>2. queued' = one
    <3>1. Append(<<>>, p) = <<>> \o <<p>>
      BY <1>3, EmptyFacts, AppendIsOneMore
    <3> QED BY <1>6, <2>1, <3>1, EmptyFacts, ConcatFacts DEF one
  <2>3. Wanted' = <<>>
    BY <1>10, <2>1 DEF Wanted
  <2>4. Rear' = one
    BY <1>6, <2>2, <2>3, EmptyFacts, ConcatFacts DEF Rear
  <2>5. Line' = Deck \o one
    BY <1>7, <2>4 DEF Line
  <2>6. KeyResets(Deck) /\ Chain(Deck)
    BY <1>7, ConcatFacts DEF LineInv, LineSound, Line
  <2>7. /\ KeyResets(Line') /\ Chain(Line') /\ Reset(Line') /\ Last(Line') \in GoesOn'
    BY <1>4, <1>6, <1>7, <2>1, <2>5, <2>6, ConcatFacts DEF Follows
  <2>8. LineTypes'
    BY <1>1, <1>6, <1>10, <2>1, <2>2 DEF LineInv, LineTypes
  <2>9. Replaced'
    <3>1. Reset(queued')
      BY <1>6, <2>1, <2>2
    <3> QED BY <3>1 DEF Replaced, Reset
  <2> QED BY <1>8, <1>9, <2>7, <2>8, <2>9, LinePrimed
<1>16. CASE ~Refuses(frame) /\ ~Invalidates(frame)
  <2>1. /\ queued' = Append(queued, p) /\ hand' = hand /\ waiting' = FALSE
        /\ waiting => p.reset /\ p.key
        /\ ~waiting => ~p.reset /\ frame.contiguous
    BY <1>1, <1>3, <1>16 DEF QueuePush, Refuses, Invalidates
  <2> HIDE DEF p, frame, one
  <2>2. queued' = queued \o one /\ Wanted' = Wanted
    BY <1>3, <1>7, <2>1, AppendIsOneMore DEF one, Wanted
  <2>3. Line' = Line \o one
    <3>1. Rear' = Wanted \o (queued \o one) /\ Rear \o one = (Wanted \o queued) \o one
      BY <2>2 DEF Rear
    <3>0. /\ one \in Seq(Packets) /\ Wanted \in Seq(Packets) /\ queued \in Seq(Packets)
          /\ Deck \in Seq(Packets) /\ Rear \in Seq(Packets)
      BY <1>6, <1>7
    <3>2. Rear' = Rear \o one
      <4>1. (Wanted \o queued) \o one = Wanted \o (queued \o one)
        BY <3>0, ConcatAssociative
      <4> QED BY <3>1, <4>1
    <3>3. Line' = Deck \o (Rear \o one) /\ Line \o one = (Deck \o Rear) \o one
      BY <1>7, <3>2 DEF Line
    <3>4. (Deck \o Rear) \o one = Deck \o (Rear \o one)
      BY <3>0, ConcatAssociative
    <3> QED BY <3>3, <3>4
  <2>4. Line # <<>> => Follows(p, Last(Line))
    <3>1. CASE waiting
      BY <2>1, <3>1 DEF Follows
    <3>2. CASE ~waiting
      BY <1>5, <2>1, <3>2 DEF LineInv, LineGoesOn, Follows
    <3> QED BY <3>1, <3>2
  <2>5. /\ KeyResets(Line') /\ Chain(Line') /\ Last(Line') = p
        /\ Reset(Line) \/ p.reset => Reset(Line')
        /\ Line # <<>> => Line' # <<>> /\ Line'[1] = Line[1]
        /\ Line = <<>> => Line' # <<>> /\ Line'[1] = p
    BY <1>6, <1>7, <2>1, <2>3, <2>4, ConcatFacts DEF LineInv, LineSound
  <2>6. \/ required' \/ alarms' # {} \/ waiting' \/ recovers' \/ Reset(Line')
        \/ Joined(Line', Before', GoesOn')
    <3>1. CASE Known \/ recovers
      BY <1>1, <2>1, <2>5, <3>1 DEF Known
    <3>2. CASE ~waiting /\ Joined(Line, Before, GoesOn)
      <4>1. CASE Line # <<>>
        BY <1>7, <2>5, <3>2, <4>1 DEF Joined
      <4>2. CASE Line = <<>>
        BY <1>5, <1>7, <2>1, <2>5, <3>2, <4>2 DEF Joined, Follows
      <4> QED BY <4>1, <4>2
    <3> QED BY <3>1, <3>2 DEF LineInv, LineJoined, Known
  <2>7. LineTypes'
    BY <1>1, <1>6, <1>7, <2>1, <2>2, ConcatFacts DEF LineInv, LineTypes
  <2>8. Replaced'
    <3>1. Reset(queued) \/ p.reset => Reset(queued')
      BY <1>6, <1>7, <2>2, ConcatFacts
    <3>2. hand' # <<>> /\ ~hand'[1].current => Reset(queued')
      BY <2>1, <3>1 DEF LineInv, Replaced
    <3> QED BY <3>2 DEF Replaced, Reset
  <2> QED BY <1>4, <1>8, <1>9, <2>5, <2>6, <2>7, <2>8, LinePrimed
<1> QED
  BY <1>13, <1>14, <1>15, <1>16

LEMMA LineInductive == ChainInv /\ LineInv /\ [Next]_vars => LineInv'
<1> SUFFICES ASSUME ChainInv, LineInv, [Next]_vars PROVE LineInv'
  OBVIOUS
<1> DEFINE Apart == UNCHANGED <<queueVars, alarms, last, contiguous, gap, ingress>>
<1>1. ASSUME NEW n \in 0 .. Cycle - 1, NEW key \in BOOLEAN, Frame(n, key) PROVE LineInv'
  BY <1>1, FrameKeepsLine
<1>2. CASE Loss \/ Ask \/ Forward
  BY <1>2, LossKeepsLine
<1>3. CASE Pump
  BY <1>3, PumpKeepsLine
<1>4. CASE Pop
  BY <1>4, PopKeepsLine
<1>5. CASE Submit
  BY <1>5, SubmitKeepsLine
<1>6. ASSUME NEW thread \in {"worker", "render"}, InvalidateVideo(thread) PROVE LineInv'
  BY <1>6, InvalidationKeepsLine
<1>7. CASE DecoderStep \/ DecoderFails
  <2>1. Apart
    BY <1>7 DEF DecoderStep, DecoderFails, sourceVars, linkVars
  <2>2. \/ Feed \/ ResetDecoder \/ RecoverDecoder
        \/ PollFails \/ FeedFails \/ ResetFails \/ Skip \/ RecoverFails
    BY <1>7 DEF DecoderStep, DecoderFails
  <2> QED BY <2>1, <2>2, WorkerTakes, WorkerLoses
<1>8. CASE Render \/ RenderFails \/ StartScene
  BY <1>8, RenderKeepsLine
<1>9. CASE ShutdownScene
  BY <1>9, ShutdownKeepsLine
<1>10. CASE UNCHANGED vars
  <2>1. UNCHANGED <<queueVars, decoderVars, alarms, last, contiguous, gap, ingress>>
    BY <1>10 DEF vars, sourceVars, linkVars
  <2>2. GoesOn' = GoesOn
    BY <2>1, GoesOnStays
  <2> QED BY <2>1, <2>2, UpstreamKeepsLine
<1> QED
  BY <1>1, <1>2, <1>3, <1>4, <1>5, <1>6, <1>7, <1>8, <1>9, <1>10 DEF Next

\* A delta frame that does not follow what the decoder has is fed only while
\* somebody knows that the line is broken.
LEMMA FeedMends == ASSUME LineInv, Feed, Breaks PROVE Mending
<1>1. adopted = TRUE /\ ~recovers /\ Input # <<>> /\ fed' = <<Head(Input)>>
  BY DEF Feed, HasInput, LineInv, LineTypes
<1>2. /\ ~fed'[1].key
      /\ fed = <<>> \/ ~Follows(fed'[1], fed[1])
  BY DEF Breaks, Follows, After
<1>3. next = <<>>
  <2> SUFFICES ASSUME next # <<>> PROVE FALSE
    OBVIOUS
  <2>1. PICK p \in Packets : next = <<p>>
    BY DEF LineInv, LineTypes, One
  <2>2. fed'[1] = p /\ p.key
    BY <1>1, <2>1 DEF Input, LineInv, LineTypes
  <2> QED BY <1>2, <2>2
<1>4. /\ encoded \in Seq(Packets) /\ encoded # <<>> /\ fed'[1] = encoded[1]
      /\ Deck = encoded /\ Before = fed /\ Rear \in Seq(Packets)
      /\ Wanted \in Seq(Packets) /\ queued \in Seq(Packets)
  BY <1>1, <1>3, LineParts, HeadAndTail DEF LineInv, LineTypes, Input, Deck, Before
<1>5. Line # <<>> /\ Line[1] = fed'[1]
  BY <1>4, ConcatFacts DEF Line
<1>6. Known
  BY <1>1, <1>2, <1>4, <1>5 DEF LineInv, LineJoined, Joined
<1>7. Reset(Line) => Reset(encoded) \/ Reset(Wanted) \/ Reset(queued)
  BY <1>4, ConcatFacts DEF Line, Rear
<1>8. Reset(Wanted) => \E k \in DOMAIN hand : hand[k].packet.reset
  <2> SUFFICES ASSUME Reset(Wanted) PROVE \E k \in DOMAIN hand : hand[k].packet.reset
    OBVIOUS
  <2>1. hand # <<>> /\ Wanted = <<hand[1].packet>>
    BY EmptyFacts DEF Wanted
  <2>2. PICK e \in [packet : Packets, current : BOOLEAN] : hand = <<e>>
    BY <2>1 DEF LineInv, LineTypes, One
  <2>3. 1 \in DOMAIN hand /\ hand[1] = e /\ e.packet \in Packets
    BY <2>2
  <2>4. e.packet.reset
    BY <2>1, <2>3, SingleFacts
  <2> QED BY <2>3, <2>4
<1> QED
  BY <1>6, <1>7, <1>8 DEF Known, Mending, Reset

\* When the decoder is given a delta frame without the frame it refers to,
\* because the graphics device went with everything in it, a keyframe is on its
\* way or will be asked for: for every numbering, every capacity of the three
\* queues and any number of losses, failures and graphics contexts.
THEOREM BreakMended == Spec => BreakIsMended
<1>1. ASSUME LineInv, Next, Breaks PROVE Mending
  <2>1. Feed
    <3>1. ASSUME UNCHANGED fed PROVE FALSE
      BY <1>1, <3>1 DEF Breaks
    <3>2. ASSUME fed' = <<>> PROVE FALSE
      BY <1>1, <3>2 DEF Breaks
    <3>3. \/ UNCHANGED fed \/ fed' = <<>> \/ Feed
      BY <1>1
         DEF Next, Frame, Loss, Ask, Forward, Pump, Pop, Submit, InvalidateVideo, DecoderStep,
             DecoderFails, Render, RenderFails, StartScene, ShutdownScene, decoderVars,
             workerVars, stagingVars, Stage, ResetDecoder, Skip, RecoverDecoder, PollFails,
             FeedFails, ResetFails, RecoverFails, LoseDecoder, Record, RecordFails, SceneStart,
             SceneShutdown
    <3> QED BY <3>1, <3>2, <3>3
  <2> QED BY <1>1, <2>1, FeedMends
<1>2. LineInv /\ [Next]_vars => [Breaks => Mending]_vars
  BY <1>1
<1> QED
  BY <1>2, ChainInit, ChainInductive, LineInit, LineInductive, PTL DEF Spec, BreakIsMended
=============================================================================
