------------------------- MODULE StoreCatalogProofs -------------------------
(* What holds of the saved Store for any calls, accounts, pages and files.     *)
EXTENDS StoreCatalog, TLAPS

---------------------------------------------------------------------------
(* Types *)

\* A path is made of a scope and a key, and every scope has a first page.
LEMMA PathShape ==
    /\ \A p \in Paths : /\ p[1] \in Scopes /\ p[2] \in {"first", "next"}
                        /\ p = <<p[1], p[2]>>
    /\ \A s \in Scopes : <<s, "first">> \in Paths
BY PathsAssumption DEF Scopes

LEMMA IdleType == Idle \in CallType /\ Ended \in CallType
<1>1. (CHOOSE p \in Paths : TRUE) \in Paths
  BY PathsAssumption
<1>2. Idle \in CallType
  BY <1>1, BoundsAssumption DEF Idle, CallType, Places, Checkpoints
<1>. QED  BY <1>2 DEF Ended, CallType, Places, Checkpoints

\* What a write leaves on the disk: files that were there, and the one written.
LEMMA SavedShape ==
    ASSUME TypeOK, NEW p \in Paths, NEW gen \in Nat,
           NEW files \in {saved} \cup Pruned(Written(p, gen))
    PROVE  /\ DOMAIN files \subseteq Paths /\ files \in [DOMAIN files -> Nat]
           /\ \A q \in DOMAIN files :
                 \/ q \in DOMAIN saved /\ files[q] = saved[q]
                 \/ q = p /\ files[q] = gen
<1>1. CASE files = saved
  BY <1>1 DEF TypeOK
<1>2. CASE files \in Pruned(Written(p, gen))
  <2>1. PICK k \in SUBSET DOMAIN Written(p, gen) : files = [q \in k |-> Written(p, gen)[q]]
    BY <1>2 DEF Pruned
  <2>. QED  BY <2>1 DEF TypeOK, Written
<1>. QED  BY <1>1, <1>2

LEMMA NoPages == /\ NoIndex.scope = None /\ ~NoIndex.early /\ NoIndex.early \in BOOLEAN
                 /\ DOMAIN NoIndex.pages = {}
                 /\ NoIndex.pages \in [DOMAIN NoIndex.pages -> Nat]
<1>1. DOMAIN <<>> = {} /\ <<>> \in [DOMAIN <<>> -> Nat]
  OBVIOUS
<1>. QED  BY <1>1 DEF NoIndex

LEMMA TypeInit == Init => TypeOK
<1>. SUFFICES ASSUME Init PROVE TypeOK
  OBVIOUS
<1>1. DOMAIN saved \subseteq Paths /\ saved \in [DOMAIN saved -> Nat]
  BY DEF Init
<1>2. call \in [Calls -> CallType]
  BY IdleType DEF Init
<1>. QED  BY <1>1, <1>2, NoPages DEF Init, TypeOK

USE DEF At, Goes, GoesOn, Scope

LEMMA FailsType ==
    ASSUME TypeOK, NEW c \in Calls, Fails(c)
    PROVE  call' \in [Calls -> CallType] /\ cancelled' \subseteq Calls
BY IdleType DEF TypeOK, Fails

LEMMA ToldType ==
    ASSUME TypeOK, NEW c \in Calls, NEW old \in BOOLEAN, Told(c, old)
    PROVE  call' \in [Calls -> CallType] /\ cancelled' \subseteq Calls
<1>1. [Ended EXCEPT !.outdated = old] \in CallType
  BY IdleType DEF CallType
<1>. QED  BY <1>1 DEF TypeOK, Told

LEMMA ReturnsType ==
    ASSUME TypeOK, NEW c \in Calls, NEW gen \in Nat, Returns(c, gen)
    PROVE  call' \in [Calls -> CallType] /\ cancelled' \subseteq Calls
<1>. call[c] \in CallType /\ <<Scope(c), "first">> \in Paths
  BY PathShape DEF TypeOK, CallType
<1>1. CASE Told(c, Old(c, call[c].path, gen))
  <2>. Old(c, call[c].path, gen) \in BOOLEAN
    BY DEF Old
  <2>. QED  BY <1>1, ToldType
<1>2. CASE call[c].kind # "list"
  <2>1. [Idle EXCEPT !.at = "look", !.kind = "local",
                        !.path = <<Scope(c), "first">>, !.refresh = call[c].refresh,
                        !.since = call[c].since, !.loads = call[c].loads] \in CallType
    BY IdleType DEF CallType, Places, Checkpoints
  <2>. QED  BY <2>1, <1>2 DEF Returns, TypeOK
<1>. QED  BY <1>1, <1>2 DEF Returns

\* A result is told, old or not, or there is none.
LEMMA MatchesEnd ==
    ASSUME NEW c \in Calls, NEW found, Matches(c, found)
    PROVE  Fails(c) \/ \E old \in BOOLEAN : Told(c, old)
<1>. DEFINE file(k) == <<Scope(c), k>>
            old == \/ \E k \in found : Old(c, file(k), saved[file(k)])
                   \/ /\ ~index.early
                      /\ \E k \in DOMAIN index.pages : Old(c, file(k), index.pages[k])
<1>1. Fails(c) \/ Told(c, old)
  BY DEF Matches
<1>2. old \in BOOLEAN
  OBVIOUS
<1>. QED  BY <1>1, <1>2

LEMMA JoinsType ==
    ASSUME TypeOK, NEW c \in Calls, NEW e \in Nat, NEW since \in Nat, Joins(c, e, since)
    PROVE  call' \in [Calls -> CallType]
<1>1. PICK lock \in IF Retained(call[c].path, e) # {} THEN Retained(call[c].path, e)
                ELSE {<<c, call[c].path>>} :
        call' = [call EXCEPT ![c].at = "wait", ![c].epoch = e, ![c].lock = lock,
                             ![c].since = since]
  BY DEF Joins
<1>2. lock \in {NoLock} \cup (Calls \X Paths)
  <2>1. \A d \in Calls : call[d].lock \in {NoLock} \cup (Calls \X Paths)
    BY DEF TypeOK, CallType
  <2>2. <<c, call[c].path>> \in Calls \X Paths
    BY DEF TypeOK, CallType
  <2>. QED  BY <2>1, <2>2, <1>1 DEF Retained
<1>3. [call[c] EXCEPT !.at = "wait", !.epoch = e, !.lock = lock, !.since = since] \in CallType
  <2>. call[c] \in CallType /\ "wait" \in Places
    BY DEF TypeOK, Places, Checkpoints
  <2>. QED  BY <1>2 DEF CallType
<1>. QED  BY <1>1, <1>3 DEF TypeOK

IndexType ==
    /\ index.scope \in Scopes \cup {None} /\ index.early \in BOOLEAN
    /\ index.pages \in [DOMAIN index.pages -> Nat]

LEMMA IndexesType ==
    ASSUME TypeOK, NEW c \in Calls, NEW pages, pages \in [DOMAIN pages -> Nat],
           Indexes(c, pages)
    PROVE  call' \in [Calls -> CallType] /\ IndexType'
<1>. call[c] \in CallType /\ Scope(c) \in Scopes /\ call[c].early \in BOOLEAN
  BY PathShape DEF TypeOK, CallType
<1>1. [call[c] EXCEPT !.at = "query", !.gen = 0, !.early = FALSE] \in CallType
  BY DEF CallType, Places
<1>2. call' \in [Calls -> CallType]
  BY <1>1 DEF Indexes, TypeOK
<1>3. /\ index'.scope = Scope(c) /\ index'.pages = pages
      /\ index'.early = call[c].early
  BY DEF Indexes
<1>. QED  BY <1>2, <1>3 DEF IndexType

LEMMA TypeStep == TypeOK /\ [Next]_vars => TypeOK'
<1>. SUFFICES ASSUME TypeOK, [Next]_vars PROVE TypeOK'
  OBVIOUS
<1>1. CASE UNCHANGED vars
  BY <1>1 DEF vars, cache, schedule, TypeOK
<1>2. ASSUME NEW c \in Calls, Begin(c) \/ Cancel(c) \/ Step(c) PROVE TypeOK'
  <2>. DEFINE Rest == <<cache, vpc, schedule>>
  <2>. /\ call[c] \in CallType /\ Scope(c) \in Scopes
       /\ <<Scope(c), "first">> \in Paths
    BY PathShape DEF TypeOK, CallType
  <2>1. CASE Begin(c)
    <3>1. ASSUME NEW place \in Places, NEW kind \in {"list", "local", "library"},
                 NEW p \in Paths, NEW refresh \in BOOLEAN
          PROVE  [Idle EXCEPT !.at = place, !.kind = kind, !.path = p, !.refresh = refresh,
                              !.since = cleared[p[1]]] \in CallType
      BY PathShape, IdleType DEF TypeOK, CallType
    <3>2. "enter" \in Places /\ "look" \in Places /\ "server" \in Places
      BY DEF Places, Checkpoints
    <3>3. call' \in [Calls -> CallType]
      <4>1. PICK kind \in {"list", "local", "library"}, p \in Paths, refresh \in BOOLEAN :
              call' = [call EXCEPT ![c] =
                [Idle EXCEPT !.at = Entry(kind), !.kind = kind, !.path = p, !.refresh = refresh,
                             !.since = cleared[p[1]]]]
        BY <2>1 DEF Begin
      <4>2. Entry(kind) \in Places
        <5>1. CASE kind = "list"
          BY <3>2, <5>1 DEF Entry
        <5>2. CASE kind = "local"
          BY <3>2, <5>2 DEF Entry
        <5>3. CASE kind # "list" /\ kind # "local"
          BY <3>2, <5>3 DEF Entry
        <5>. QED  BY <5>1, <5>2, <5>3
      <4>. QED  BY <3>1, <4>1, <4>2 DEF TypeOK
    <3>. QED  BY <2>1, <3>3 DEF TypeOK, Begin, cache, schedule
  <2>2. CASE Cancel(c)
    BY <2>2 DEF Cancel, TypeOK, cache, schedule
  <2>3. CASE GivesUp(c)
    BY <2>3, FailsType DEF GivesUp, TypeOK, cache, schedule
  <2>4. CASE Enter(c)
    <3>1. CASE Clears(c)
      BY <3>1, <2>4 DEF Enter, TypeOK, CallType, Places, Checkpoints, schedule
    <3>2. CASE ~Clears(c) /\ Saved(call[c].path)
      <4>. saved[call[c].path] \in Nat
        BY <3>2 DEF TypeOK, Saved
      <4>. QED  BY <3>2, <2>4, ReturnsType DEF Enter, TypeOK, schedule
    <3>3. CASE ~Clears(c) /\ ~Saved(call[c].path)
      <4>. epoch \in Nat /\ call[c].since \in Nat
        BY DEF TypeOK, CallType
      <4>. Joins(c, epoch, call[c].since)
        BY <3>3, <2>4 DEF Enter
      <4>1. call' \in [Calls -> CallType]
        BY JoinsType
      <4>. QED  BY <4>1, <3>3, <2>4 DEF Enter, TypeOK, schedule
    <3>. QED  BY <3>1, <3>2, <3>3
  <2>5. CASE Clear(c)
    <3>1. call' \in [Calls -> CallType]
      BY <2>5 DEF Clear, TypeOK, CallType, Places, Checkpoints
    <3>. QED  BY <2>5, <3>1, NoPages DEF Clear, TypeOK, schedule
  <2>6. CASE Remove(c)
    <3>. cleared[Scope(c)] + 1 \in Nat /\ epoch \in Nat
      BY DEF TypeOK
    <3>1. call' \in [Calls -> CallType]
      BY <2>6, JoinsType DEF Remove
    <3>2. PICK stay \in SUBSET {p \in DOMAIN saved : p[1] = Scope(c)} :
            /\ saved' = [p \in {q \in DOMAIN saved : q[1] # Scope(c)} \cup stay |-> saved[p]]
            /\ left' = {p \in left : p[1] # Scope(c)} \cup stay
      BY <2>6 DEF Remove
    <3>3. DOMAIN saved' \subseteq Paths /\ saved' \in [DOMAIN saved' -> Nat] /\ left' \subseteq Paths
      BY <3>2 DEF TypeOK
    <3>. QED  BY <3>1, <3>3, <2>6 DEF Remove, TypeOK, schedule
  <2>7. CASE Locks(c)
    <3>1. CASE Saved(call[c].path)
      <4>. saved[call[c].path] \in Nat
        BY <3>1 DEF TypeOK, Saved
      <4>. QED  BY <3>1, <2>7, ReturnsType DEF Locks, TypeOK, cache, schedule
    <3>2. CASE ~Saved(call[c].path)
      BY <3>2, <2>7 DEF Locks, TypeOK, CallType, Places, Checkpoints, cache, schedule
    <3>. QED  BY <3>1, <3>2
  <2>8. CASE Save(c)
    <3>. call[c].gen \in Nat /\ call[c].path \in Paths
      BY DEF TypeOK, CallType
    <3>1. CASE call[c].epoch = epoch
      <4>1. DOMAIN saved' \subseteq Paths /\ saved' \in [DOMAIN saved' -> Nat]
        BY <3>1, <2>8, SavedShape DEF Save
      <4>. QED  BY <4>1, <3>1, <2>8 DEF Save, TypeOK, CallType, Places, Checkpoints, schedule
    <3>2. CASE call[c].epoch # epoch
      BY <3>2, <2>8, ReturnsType DEF Save, TypeOK, schedule
    <3>. QED  BY <3>1, <3>2
  <2>9. CASE ResetIndex(c)
    <3>. call[c].gen \in Nat
      BY DEF TypeOK, CallType
    <3>. QED  BY <2>9, ReturnsType, NoPages DEF ResetIndex, TypeOK, schedule
  <2>10. CASE Resolve(c)
    BY <2>10, FailsType DEF Resolve, AskPage, TypeOK, CallType, Places, Checkpoints, cache, schedule
  <2>11. CASE TakesSchedule(c)
    <3>1. CASE Fails(c) /\ UNCHANGED cooling
      BY <2>11, <3>1, FailsType DEF TakesSchedule, TypeOK, cache
    <3>2. CASE cooling' = FALSE /\ Goes(c, "pace") /\ UNCHANGED cancelled
      <4>. call' \in [Calls -> CallType]
        BY <3>2 DEF TypeOK, CallType, Places, Checkpoints
      <4>. QED  BY <2>11, <3>2 DEF TakesSchedule, TypeOK, cache
    <3>. QED  BY <2>11, <3>1, <3>2 DEF TakesSchedule
  <2>12. CASE Pace(c)
    BY <2>12 DEF Pace, TypeOK, cache
  <2>13. CASE Send(c)
    BY <2>13 DEF Send, TypeOK, CallType, Places, Checkpoints, cache, schedule
  <2>14. CASE RateLimited(c)
    BY <2>14, FailsType DEF RateLimited, TypeOK, cache
  <2>15. CASE ServerAnswered(c)
    BY <2>15, FailsType DEF ServerAnswered, Scheduled, AskPage, TypeOK, CallType, Places, Checkpoints, cache
  <2>16. CASE PageAnswered(c)
    BY <2>16, FailsType, BoundsAssumption DEF PageAnswered, TypeOK, CallType, Places, Checkpoints, cache
  <2>17. CASE Look(c)
    BY <2>17 DEF Look, TypeOK, CallType, Places, Checkpoints, cache, schedule
  <2>18. CASE BuildFirst(c)
    <3>1. CASE ~Saved(<<Scope(c), "first">>)
      <4>1. Indexes(c, <<>>)
        BY <2>18, <3>1 DEF BuildFirst
      <4>2. <<>> \in [DOMAIN <<>> -> Nat]
        OBVIOUS
      <4>3. call' \in [Calls -> CallType] /\ IndexType'
        BY <4>1, <4>2, IndexesType
      <4>. QED  BY <2>18, <4>3 DEF BuildFirst, TypeOK, IndexType, schedule
    <3>2. CASE Saved(<<Scope(c), "first">>)
      <4>1. saved[<<Scope(c), "first">>] \in Nat /\ Clearing(Scope(c)) \in BOOLEAN
        BY <3>2 DEF TypeOK, Saved, Clearing
      <4>2. [call[c] EXCEPT !.at = "more", !.gen = saved[<<Scope(c), "first">>],
                            !.early = Clearing(Scope(c))] \in CallType
        BY <4>1 DEF CallType, Places, Checkpoints
      <4>3. call' \in [Calls -> CallType] /\ UNCHANGED index
        BY <2>18, <3>2, <4>2 DEF BuildFirst, Reads, TypeOK
      <4>. QED
        BY <2>18, <4>3 DEF BuildFirst, TypeOK, schedule
    <3>. QED  BY <3>1, <3>2
  <2>19. CASE BuildNext(c)
    <3>1. PICK pages : pages \in [DOMAIN pages -> Nat] /\ Indexes(c, pages)
      <4>. DEFINE next == <<Scope(c), "next">>
                  pages == [k \in {"first"} \cup {n \in {"next"} : Saved(next)} |->
                               IF k = "first" THEN call[c].gen ELSE saved[next]]
      <4>1. Indexes(c, pages)
        BY <2>19 DEF BuildNext
      <4>2. call[c].gen \in Nat /\ (Saved(next) => saved[next] \in Nat)
        BY DEF TypeOK, CallType, Saved
      <4>3. pages \in [DOMAIN pages -> Nat]
        BY <4>2
      <4>. QED  BY <4>1, <4>3
    <3>2. call' \in [Calls -> CallType] /\ IndexType'
      BY <3>1, IndexesType
    <3>. QED  BY <2>19, <3>2 DEF BuildNext, TypeOK, IndexType, schedule
  <2>20. CASE Query(c)
    <3>1. ASSUME NEW key \in {"first", "next"}, <<Scope(c), key>> \in Paths, Loads(c, key)
          PROVE  call' \in [Calls -> CallType] /\ cancelled' = cancelled
      <4>. (IF key = "first" THEN 1 ELSE 2) \in 0 .. 2 /\ "enter" \in Places
        BY DEF Places, Checkpoints
      <4>1. [call[c] EXCEPT !.at = "enter", !.path = <<Scope(c), key>>,
                            !.loads = IF key = "first" THEN 1 ELSE 2] \in CallType
        BY <3>1 DEF CallType
      <4>. QED  BY <3>1, <4>1 DEF Loads, TypeOK
    <3>2. ASSUME NEW found \in SUBSET DOMAIN index.pages, Matches(c, found)
          PROVE  call' \in [Calls -> CallType] /\ cancelled' \subseteq Calls
      <4>1. ASSUME NEW old \in BOOLEAN, Told(c, old)
            PROVE  call' \in [Calls -> CallType] /\ cancelled' \subseteq Calls
        BY <4>1, ToldType
      <4>2. Fails(c) \/ \E old \in BOOLEAN : Told(c, old)
        BY <3>2, MatchesEnd
      <4>. QED  BY <4>1, <4>2, FailsType
    <3>3. call' \in [Calls -> CallType] /\ cancelled' \subseteq Calls
      BY <2>20, <3>1, <3>2, FailsType DEF Query, Incomplete, TypeOK
    <3>. QED  BY <3>3, <2>20 DEF Query, TypeOK, cache, schedule
  <2>. QED
    BY <1>2, <2>1, <2>2, <2>3, <2>4, <2>5, <2>6, <2>7, <2>8, <2>9, <2>10, <2>11, <2>12, <2>13,
       <2>14, <2>15, <2>16, <2>17, <2>18, <2>19, <2>20 DEF Step, Answered
<1>. QED  BY <1>1, <1>2 DEF Next

\* Every variable stays within its type, for any calls, accounts and pages.
THEOREM TypeCorrect == Spec => []TypeOK
BY TypeInit, TypeStep, PTL DEF Spec

---------------------------------------------------------------------------
(* How a call moves *)

Others(c) == \A d \in Calls : d # c => call'[d] = call[d]

\* What a call becomes that only moves on.
LEMMA GoesTo ==
    ASSUME TypeOK, NEW c \in Calls, NEW place, Goes(c, place)
    PROVE  /\ Others(c)
           /\ call'[c] = [call[c] EXCEPT !.at = place]
           /\ call'[c].at = place /\ call'[c].kind = call[c].kind
           /\ call'[c].path = call[c].path /\ call'[c].since = call[c].since
           /\ call'[c].epoch = call[c].epoch /\ call'[c].lock = call[c].lock
           /\ call'[c].for = call[c].for /\ call'[c].gen = call[c].gen
           /\ call'[c].outdated = call[c].outdated
BY DEF TypeOK, CallType, Others

LEMMA FailsTo ==
    ASSUME TypeOK, NEW c \in Calls, Fails(c)
    PROVE  /\ Others(c)
           /\ call'[c].at = "done" /\ call'[c].kind = "list" /\ call'[c].path \in Paths
           /\ call'[c].since = 0 /\ call'[c].epoch = 0 /\ ~call'[c].outdated
<1>1. Others(c) /\ call'[c] = Ended
  BY DEF Fails, TypeOK, Others
<1>2. Ended.path \in Paths
  BY IdleType DEF CallType
<1>. QED  BY <1>1, <1>2 DEF Ended, Idle

LEMMA ToldTo ==
    ASSUME TypeOK, NEW c \in Calls, NEW old \in BOOLEAN, Told(c, old)
    PROVE  /\ Others(c)
           /\ call'[c].at = "done" /\ call'[c].kind = "list" /\ call'[c].path \in Paths
           /\ call'[c].since = 0 /\ call'[c].epoch = 0 /\ call'[c].outdated = old
<1>1. Others(c) /\ call'[c] = [Ended EXCEPT !.outdated = old]
  BY DEF Told, TypeOK, Others
<1>2. Ended.path \in Paths
  BY IdleType DEF CallType
<1>. QED  BY <1>1, <1>2 DEF Ended, Idle

LEMMA ReturnsTo ==
    ASSUME TypeOK, NEW c \in Calls, NEW gen \in Nat, Returns(c, gen)
    PROVE  /\ Others(c)
           /\ call'[c].at \in {"done", "look"} /\ call'[c].kind # "library"
           /\ call'[c].epoch = 0
           /\ call'[c].at = "done" => Told(c, Old(c, call[c].path, gen))
           /\ call'[c].at = "look" => /\ call'[c].path[1] = Scope(c)
                                     /\ call'[c].since = call[c].since
           /\ ~Old(c, call[c].path, gen) => ~call'[c].outdated
<1>1. CASE Told(c, Old(c, call[c].path, gen))
  <2>. Old(c, call[c].path, gen) \in BOOLEAN
    BY DEF Old
  <2>. QED  BY <1>1, ToldTo
<1>2. CASE call[c].kind # "list"
  <2>1. Others(c) /\ call'[c] = [Idle EXCEPT !.at = "look", !.kind = "local",
                        !.path = <<Scope(c), "first">>, !.refresh = call[c].refresh,
                        !.since = call[c].since, !.loads = call[c].loads]
    BY <1>2 DEF Returns, TypeOK, Others
  <2>. QED  BY <2>1 DEF Idle
<1>. QED  BY <1>1, <1>2 DEF Returns

LEMMA JoinsTo ==
    ASSUME TypeOK, NEW c \in Calls, NEW e \in Nat, NEW since \in Nat, Joins(c, e, since)
    PROVE  /\ Others(c)
           /\ call'[c].at = "wait" /\ call'[c].epoch = e /\ call'[c].since = since
           /\ call'[c].kind = call[c].kind /\ call'[c].path = call[c].path
           /\ call'[c].outdated = call[c].outdated
           /\ Retained(call[c].path, e) # {} => call'[c].lock \in Retained(call[c].path, e)
BY DEF Joins, TypeOK, CallType, Others

---------------------------------------------------------------------------
(* The schedule *)

\* The library asks for nothing but its server, and not through the schedule.
Kinds ==
    \A c \in Calls : call[c].kind = "library" =>
        \/ At(c, {"server"})
        \/ At(c, {"flying"}) /\ call[c].for = "server"

\* One call holds the schedule, and before its request there is no cool-down.
Paces(c) == At(c, {"pace", "flying"}) /\ call[c].kind # "library"
OnePaces == \A c, d \in Calls : Paces(c) /\ Paces(d) => c = d
NoneCools == \A c \in Calls : At(c, {"pace"}) => ~cooling

PaceInv == Kinds /\ OnePaces /\ NoneCools

LEMMA PaceInit == Init => PaceInv
BY DEF Init, PaceInv, Kinds, OnePaces, NoneCools, Paces, Idle

\* What a step does with the schedule.
SendsAlone(c) == ~pacing /\ ~cooling /\ \A d \in Calls : ~Scheduled(d)
KeepsPace ==
    /\ PaceInv'
    /\ \A c \in Calls : Scheduled(c)' /\ ~Scheduled(c) => SendsAlone(c)

\* A call that goes where nothing is held disturbs nobody.
LEMMA QuietStep ==
    ASSUME PaceInv, NEW c \in Calls, Others(c), UNCHANGED cooling,
           call'[c].at \notin {"pace", "flying"}, call'[c].kind # "library"
    PROVE  KeepsPace
BY DEF KeepsPace, Scheduled, PaceInv, Kinds, OnePaces, NoneCools, Paces, Others

LEMMA PaceStep == TypeOK /\ PaceInv /\ [Next]_vars => KeepsPace
<1>. SUFFICES ASSUME TypeOK, PaceInv, [Next]_vars PROVE KeepsPace
  OBVIOUS
<1>1. CASE UNCHANGED vars
  BY <1>1 DEF vars, schedule, PaceInv, Kinds, OnePaces, NoneCools, Paces, KeepsPace, Scheduled
<1>2. ASSUME NEW c \in Calls, Begin(c) \/ Cancel(c) \/ Step(c) PROVE KeepsPace
  <2>. /\ call \in [Calls -> CallType] /\ call[c] \in CallType
       /\ call[c].since \in Nat /\ epoch \in Nat /\ call[c].gen \in Nat
       /\ \A p \in Paths : Saved(p) => saved[p] \in Nat
       /\ cleared[Scope(c)] \in Nat /\ call[c].path \in Paths
    BY PathShape DEF TypeOK, CallType, Saved
  <2>1. CASE Begin(c)
    BY <2>1 DEF Begin, Entry, schedule, Idle, PaceInv, Kinds, OnePaces, NoneCools, Paces, KeepsPace, Scheduled
  <2>2. CASE Cancel(c)
    BY <2>2 DEF Cancel, schedule, PaceInv, Kinds, OnePaces, NoneCools, Paces, KeepsPace, Scheduled
  <2>3. CASE GivesUp(c)
    BY <2>3, FailsTo, QuietStep DEF GivesUp, schedule
  <2>4. CASE Enter(c)
    <3>. call[c].kind # "library" /\ UNCHANGED cooling
      BY <2>4 DEF Enter, PaceInv, Kinds, schedule
    <3>1. CASE Clears(c)
      <4>1. Goes(c, "clear")
        BY <2>4, <3>1 DEF Enter
      <4>2. Others(c) /\ call'[c].at = "clear" /\ call'[c].kind = call[c].kind
        BY <4>1, GoesTo
      <4>. QED  BY <4>2, QuietStep
    <3>2. CASE ~Clears(c) /\ Saved(call[c].path)
      BY <2>4, <3>2, ReturnsTo, QuietStep DEF Enter
    <3>3. CASE ~Clears(c) /\ ~Saved(call[c].path)
      BY <2>4, <3>3, JoinsTo, QuietStep DEF Enter
    <3>. QED  BY <3>1, <3>2, <3>3
  <2>5. CASE Clear(c)
    BY <2>5, QuietStep DEF Clear, schedule, PaceInv, Kinds, Others
  <2>6. CASE Remove(c)
    <3>1. call[c].kind # "library" /\ UNCHANGED cooling
      BY <2>6 DEF Remove, schedule, PaceInv, Kinds
    <3>. QED  BY <2>6, <3>1, JoinsTo, QuietStep DEF Remove
  <2>7. CASE Locks(c)
    <3>1. call[c].kind # "library" /\ UNCHANGED cooling
      BY <2>7 DEF Locks, schedule, PaceInv, Kinds
    <3>2. CASE Saved(call[c].path)
      BY <2>7, <3>1, <3>2, ReturnsTo, QuietStep DEF Locks
    <3>3. CASE ~Saved(call[c].path)
      <4>1. Goes(c, "server")
        BY <2>7, <3>3 DEF Locks
      <4>2. Others(c) /\ call'[c].at = "server" /\ call'[c].kind = call[c].kind
        BY <4>1, GoesTo
      <4>. QED  BY <3>1, <4>2, QuietStep
    <3>. QED  BY <3>2, <3>3
  <2>8. CASE Save(c)
    <3>1. call[c].kind # "library" /\ UNCHANGED cooling
      BY <2>8 DEF Save, schedule, PaceInv, Kinds
    <3>2. CASE call[c].epoch = epoch
      <4>1. Goes(c, "reset")
        BY <2>8, <3>2 DEF Save
      <4>2. Others(c) /\ call'[c].at = "reset" /\ call'[c].kind = call[c].kind
        BY <4>1, GoesTo
      <4>. QED  BY <3>1, <4>2, QuietStep
    <3>3. CASE call[c].epoch # epoch
      BY <2>8, <3>1, <3>3, ReturnsTo, QuietStep DEF Save
    <3>. QED  BY <3>2, <3>3
  <2>9. CASE ResetIndex(c)
    BY <2>9, ReturnsTo, QuietStep DEF ResetIndex, schedule
  <2>10. CASE Resolve(c)
    <3>. UNCHANGED cooling
      BY <2>10 DEF Resolve, schedule
    <3>1. CASE Fails(c)
      BY <3>1, FailsTo, QuietStep
    <3>2. CASE call[c].kind # "library"
      <4>1. Fails(c) \/ /\ Others(c) /\ call'[c].at = "send"
                         /\ call'[c].kind = call[c].kind
        BY <2>10, <3>2 DEF Resolve, AskPage, Others, CallType
      <4>. QED  BY <3>1, <3>2, <4>1, QuietStep
    <3>3. CASE call[c].kind = "library" /\ ~Fails(c)
      <4>1. /\ Others(c) /\ call'[c].at = "flying" /\ call'[c].for = "server"
            /\ call'[c].kind = "library"
        BY <2>10, <3>3 DEF Resolve, Others, CallType
      <4>. QED  BY <4>1 DEF PaceInv, Kinds, OnePaces, NoneCools, Paces, KeepsPace, Scheduled, Others
    <3>. QED  BY <3>1, <3>2, <3>3
  <2>11. CASE TakesSchedule(c)
    <3>1. CASE Fails(c) /\ UNCHANGED cooling
      BY <3>1, FailsTo, QuietStep
    <3>2. CASE cooling' = FALSE /\ Goes(c, "pace")
      <4>1. \A d \in Calls : ~Paces(d)
        BY <2>11 DEF TakesSchedule, Free, Holds, Paces
      <4>. QED  BY <2>11, <3>2, <4>1 DEF TakesSchedule, PaceInv, Kinds, OnePaces, NoneCools, Paces, KeepsPace, Scheduled
    <3>. QED  BY <2>11, <3>1, <3>2 DEF TakesSchedule
  <2>12. CASE Pace(c)
    BY <2>12 DEF Pace, PaceInv, Kinds, OnePaces, NoneCools, Paces, KeepsPace, Scheduled
  <2>13. CASE Send(c)
    BY <2>13 DEF Send, schedule, PaceInv, Kinds, OnePaces, NoneCools, Paces, KeepsPace, Scheduled,
                     SendsAlone
  <2>14. CASE RateLimited(c)
    <3>1. \A d \in Calls : Paces(d) => d = c
      BY <2>14 DEF RateLimited, Scheduled, PaceInv, OnePaces, Paces
    <3>2. Others(c) /\ call'[c].at = "done" /\ call'[c].kind = "list"
      BY <2>14, FailsTo DEF RateLimited
    <3>3. \A d \in Calls : ~At(d, {"pace"})'
      BY <2>14, <3>1, <3>2 DEF RateLimited, Scheduled, Others, Paces, PaceInv, Kinds
    <3>. QED  BY <3>2, <3>3 DEF PaceInv, Kinds, OnePaces, NoneCools, Paces, KeepsPace, Scheduled, Others
  <2>15. CASE ServerAnswered(c)
    <3>. UNCHANGED cooling
      BY <2>15 DEF ServerAnswered
    <3>1. CASE Fails(c)
      BY <3>1, FailsTo, QuietStep
    <3>2. CASE ~Fails(c)
      <4>1. /\ Others(c) /\ call'[c].at = "send" /\ call'[c].kind = call[c].kind
            /\ call[c].kind # "library"
        BY <2>15, <3>2 DEF ServerAnswered, AskPage, Others, CallType
      <4>. QED  BY <4>1, QuietStep
    <3>. QED  BY <3>1, <3>2
  <2>16. CASE PageAnswered(c)
    <3>. UNCHANGED cooling /\ call[c].kind # "library"
      BY <2>16 DEF PageAnswered, PaceInv, Kinds
    <3>1. CASE Fails(c)
      BY <3>1, FailsTo, QuietStep
    <3>2. CASE ~Fails(c)
      <4>1. /\ Others(c) /\ call'[c].at \in {"got", "send"}
            /\ call'[c].kind = call[c].kind
        BY <2>16, <3>2 DEF PageAnswered, Others, CallType
      <4>. QED  BY <4>1, QuietStep
    <3>. QED  BY <3>1, <3>2
  <2>17. CASE Look(c)
    <3>1. \E place \in {"query", "build"} : Goes(c, place)
      BY <2>17 DEF Look
    <3>2. call[c].kind # "library" /\ UNCHANGED cooling
      BY <2>17 DEF Look, schedule, PaceInv, Kinds
    <3>. QED  BY <3>1, <3>2, GoesTo, QuietStep
  <2>18. CASE BuildFirst(c)
    <3>1. call[c].kind # "library" /\ UNCHANGED cooling
      BY <2>18 DEF BuildFirst, schedule, PaceInv, Kinds
    <3>2. /\ Others(c) /\ call'[c].at \in {"query", "more"}
          /\ call'[c].kind = call[c].kind
      BY <2>18 DEF BuildFirst, Indexes, Reads, Others, CallType
    <3>. QED  BY <3>1, <3>2, QuietStep
  <2>19. CASE BuildNext(c)
    BY <2>19, QuietStep DEF BuildNext, Indexes, schedule, PaceInv, Kinds, Others
  <2>20. CASE Query(c)
    <3>1. call[c].kind # "library" /\ UNCHANGED cooling
      BY <2>20 DEF Query, schedule, PaceInv, Kinds
    <3>2. ASSUME NEW key, Loads(c, key) PROVE KeepsPace
      BY <3>1, <3>2, QuietStep DEF Loads, Others
    <3>3. ASSUME NEW old \in BOOLEAN, Told(c, old) PROVE KeepsPace
      BY <3>1, <3>3, ToldTo, QuietStep
    <3>4. CASE Fails(c)
      BY <3>1, <3>4, FailsTo, QuietStep
    <3>5. ASSUME NEW found, Matches(c, found) PROVE KeepsPace
      BY <3>3, <3>4, <3>5, MatchesEnd
    <3>. QED  BY <2>20, <3>2, <3>4, <3>5 DEF Query
  <2>. QED
    BY <1>2, <2>1, <2>2, <2>3, <2>4, <2>5, <2>6, <2>7, <2>8, <2>9, <2>10, <2>11, <2>12, <2>13,
       <2>14, <2>15, <2>16, <2>17, <2>18, <2>19, <2>20 DEF Step, Answered
<1>. QED  BY <1>1, <1>2 DEF Next

---------------------------------------------------------------------------
(* Fetches and refreshes *)

\* The calls that hold or wait for a fetch lock: for a page and an epoch there
\* is one lock, and one of them holds it.
Users(c) == At(c, {"wait"}) \/ Fetching(c)
OneLock ==
    \A c, d \in Calls :
        /\ Users(c) /\ Users(d)
        /\ call[c].path = call[d].path /\ call[c].epoch = call[d].epoch
        => call[c].lock = call[d].lock
OneFetches ==
    \A c, d \in Calls :
        Fetching(c) /\ Fetching(d) /\ call[c].lock = call[d].lock => c = d

\* One call holds the epoch; while it removes the files every fetch that is
\* under way is of an epoch before.
HoldsEpoch(c) == At(c, {"clear", "remove", "reset"})
OneHolds == \A c, d \in Calls : HoldsEpoch(c) /\ HoldsEpoch(d) => c = d
Epochs ==
    /\ \A c \in Calls : call[c].epoch <= epoch
    /\ \A c, d \in Calls : Users(c) /\ At(d, {"remove"}) => call[c].epoch < epoch

\* What was asked for is new enough for the call, and for the files if the
\* epoch is still the same; what is in the files is new enough for everybody, but
\* for the files that stayed.
Asked(c) == At(c, {"got", "reset"}) \/ (At(c, {"flying"}) /\ call[c].for = "page")
Sinces == \A c \in Calls : call[c].since <= cleared[Scope(c)]
Gens ==
    \A c \in Calls : Asked(c) =>
        /\ call[c].gen >= call[c].since
        /\ call[c].epoch = epoch => call[c].gen >= cleared[Scope(c)]
Files == \A p \in DOMAIN saved : saved[p] < cleared[p[1]] => p \in left
NoneOutdated == \A c \in Calls : ~call[c].outdated

ShareInv == OneLock /\ OneFetches
RefreshInv == OneHolds /\ Epochs /\ Sinces /\ Gens /\ Files /\ NoneOutdated

\* One call holds the index, and asks the one of its scope.
HoldsIndex(c) == At(c, {"build", "more", "query"})
OneIndex == \A c, d \in Calls : HoldsIndex(c) /\ HoldsIndex(d) => c = d
Asks == \A c \in Calls : At(c, {"query"}) => index.scope = Scope(c)

\* The pages of the index, and the page of a call that builds it, are as new as the
\* files, unless they were read while these were being removed: before it removes
\* the files of a scope, a refresh has dropped the index.
Stays(s, k, gen) == gen < cleared[s] => <<s, k>> \in left
Pages ==
    ~index.early =>
        \A k \in DOMAIN index.pages : Stays(index.scope, k, index.pages[k])
Firsts ==
    \A c \in Calls : At(c, {"more"}) /\ ~call[c].early => Stays(Scope(c), "first", call[c].gen)
Removes ==
    \A d \in Calls : At(d, {"remove"}) =>
        /\ index.scope = Scope(d) => index.early \/ DOMAIN index.pages = {}
        /\ \A c \in Calls : At(c, {"more"}) /\ Scope(c) = Scope(d) => call[c].early

IndexInv == OneIndex /\ Asks /\ Pages /\ Firsts /\ Removes

LEMMA FetchInit == Init => ShareInv /\ RefreshInv /\ IndexInv
<1>. SUFFICES ASSUME Init PROVE ShareInv /\ RefreshInv /\ IndexInv
  OBVIOUS
<1>1. /\ \A p \in DOMAIN saved : saved[p] = 0 /\ p \in Paths
      /\ \A s \in Scopes : cleared[s] = 0
      /\ epoch = 0
  BY DEF Init
<1>2. \A c \in Calls : call[c] = Idle
  BY DEF Init
<1>3. Idle.path \in Paths
  BY IdleType DEF CallType
<1>8. \A c \in Calls : /\ call[c].at = "idle" /\ call[c].since = 0 /\ call[c].epoch = 0
                         /\ ~call[c].outdated /\ call[c].path \in Paths
  <2>. Idle.at = "idle" /\ Idle.since = 0 /\ Idle.epoch = 0 /\ ~Idle.outdated
    BY DEF Idle
  <2>. QED  BY <1>2, <1>3
<1>4. \A c \in Calls : ~Users(c) /\ ~Asked(c) /\ ~HoldsEpoch(c)
  BY <1>8 DEF Users, Fetching, Asked, HoldsEpoch
<1>5. ShareInv
  BY <1>4 DEF ShareInv, OneLock, OneFetches, Users
<1>6. OneHolds /\ Epochs /\ Gens /\ NoneOutdated
  BY <1>1, <1>8, <1>4 DEF OneHolds, Epochs, Gens, NoneOutdated
<1>7. Sinces /\ Files
  BY <1>1, <1>8, PathShape DEF Sinces, Files
<1>9. IndexInv
  BY <1>8, NoPages DEF Init, IndexInv, OneIndex, HoldsIndex, Asks, Pages, Firsts, Removes
<1>. QED  BY <1>5, <1>6, <1>7, <1>9 DEF RefreshInv

\* A step that takes no lock, asks for no older page and changes no file.
Quiet(c) ==
    /\ Others(c) /\ UNCHANGED <<saved, cleared, left, epoch>>
    /\ Users(c)' => /\ Fetching(c)
                    /\ call'[c].path = call[c].path /\ call'[c].epoch = call[c].epoch
                    /\ call'[c].lock = call[c].lock
    /\ ~HoldsEpoch(c)'
    /\ call'[c].epoch <= epoch
    /\ call'[c].since <= cleared[call'[c].path[1]]
    /\ Asked(c)' => \/ /\ call'[c].gen >= call'[c].since
                       /\ call'[c].gen >= cleared[call'[c].path[1]]
                    \/ /\ Asked(c) /\ call'[c].gen = call[c].gen
                       /\ call'[c].since = call[c].since /\ call'[c].path = call[c].path
                       /\ call'[c].epoch = call[c].epoch
    /\ ~call'[c].outdated

LEMMA QuietShares ==
    ASSUME ShareInv, NEW c \in Calls, Quiet(c)
    PROVE  ShareInv'
<1>1. ASSUME NEW d \in Calls
      PROVE  /\ Users(d)' => /\ Users(d) /\ call'[d].path = call[d].path
                             /\ call'[d].epoch = call[d].epoch /\ call'[d].lock = call[d].lock
             /\ Fetching(d)' => Fetching(d)
  BY DEF Quiet, Others, Users, Fetching
<1>. QED  BY <1>1 DEF ShareInv, OneLock, OneFetches, Users

LEMMA QuietRefreshes ==
    ASSUME TypeOK, RefreshInv, NEW c \in Calls, Quiet(c)
    PROVE  RefreshInv'
<1>1. OneHolds' /\ Files' /\ NoneOutdated'
  BY DEF Quiet, Others, RefreshInv, OneHolds, HoldsEpoch, Files, NoneOutdated
<1>2. Epochs'
  BY DEF Quiet, Others, RefreshInv, Epochs, Users, Fetching, HoldsEpoch
<1>3. Sinces' /\ Gens'
  BY DEF Quiet, Others, RefreshInv, Sinces, Gens, Asked
<1>. QED  BY <1>1, <1>2, <1>3 DEF RefreshInv

\* The quiet steps: a call ends, or has its page,
LEMMA EndsQuietly ==
    ASSUME TypeOK, NEW c \in Calls, Others(c), UNCHANGED <<saved, cleared, left, epoch>>,
           call'[c].at = "done", call'[c].path \in Paths, call'[c].since = 0,
           call'[c].epoch = 0, ~call'[c].outdated
    PROVE  Quiet(c)
<1>. call'[c].path[1] \in Scopes
  BY PathShape
<1>. QED  BY DEF Quiet, Users, Fetching, HoldsEpoch, Asked, TypeOK

LEMMA FailsQuietly ==
    ASSUME TypeOK, NEW c \in Calls, Fails(c), UNCHANGED <<saved, cleared, left, epoch>>
    PROVE  Quiet(c)
BY FailsTo, EndsQuietly

LEMMA ReturnsQuietly ==
    ASSUME TypeOK, RefreshInv, NEW c \in Calls, NEW gen \in Nat, Returns(c, gen),
           ~Old(c, call[c].path, gen), UNCHANGED <<saved, cleared, left, epoch>>
    PROVE  Quiet(c)
<1>. DEFINE old == Old(c, call[c].path, gen)
<1>1. CASE Told(c, old)
  <2>. old \in BOOLEAN
    BY DEF Old
  <2>. QED  BY <1>1, ToldTo, EndsQuietly
<1>2. CASE ~Told(c, old)
  <2>1. /\ Others(c) /\ call'[c].at = "look" /\ call'[c].epoch = 0
        /\ call'[c].path[1] = Scope(c) /\ call'[c].since = call[c].since
        /\ ~call'[c].outdated
    BY <1>2, ReturnsTo
  <2>. QED
    BY <2>1 DEF Quiet, Users, Fetching, HoldsEpoch, Asked, RefreshInv, Sinces, TypeOK
<1>. QED  BY <1>1, <1>2

\* or it goes to a place where it asks for nothing new.
LEMMA GoesQuietly ==
    ASSUME TypeOK, RefreshInv, NEW c \in Calls, Others(c),
           UNCHANGED <<saved, cleared, left, epoch>>,
           call'[c].at \notin {"wait", "clear", "remove", "reset"},
           call'[c].path = call[c].path, call'[c].since = call[c].since,
           call'[c].epoch = call[c].epoch, call'[c].lock = call[c].lock,
           call'[c].outdated = call[c].outdated,
           Fetching(c)' => Fetching(c),
           Asked(c)' => Asked(c) /\ call'[c].gen = call[c].gen
    PROVE  Quiet(c)
BY DEF Quiet, Users, HoldsEpoch, RefreshInv, Epochs, Sinces, NoneOutdated

\* A call joins: with those of its page and epoch, or alone with its own lock.
LEMMA JoinShares ==
    ASSUME TypeOK, ShareInv, NEW c \in Calls, ~Fetching(c), call[c].kind # "library",
           NEW e \in Nat, NEW since \in Nat, Joins(c, e, since)
    PROVE  ShareInv'
<1>1. /\ Others(c) /\ Users(c)' /\ ~Fetching(c)' /\ call'[c].epoch = e
      /\ call'[c].path = call[c].path
      /\ Retained(call[c].path, e) # {} => call'[c].lock \in Retained(call[c].path, e)
  BY JoinsTo DEF Users, Fetching
<1>3. OneFetches'
  <2>. SUFFICES ASSUME NEW a \in Calls, NEW b \in Calls, Fetching(a)', Fetching(b)',
                       call'[a].lock = call'[b].lock
                PROVE  a = b
    BY DEF OneFetches
  <2>1. a # c /\ b # c
    BY <1>1
  <2>2. call'[a] = call[a] /\ call'[b] = call[b]
    BY <1>1, <2>1 DEF Others
  <2>3. Fetching(a) /\ Fetching(b)
    BY <2>2 DEF Fetching
  <2>. QED  BY <2>2, <2>3 DEF ShareInv, OneFetches
<1>4. ASSUME NEW d \in Calls, d # c, Users(d), call[d].path = call[c].path, call[d].epoch = e
      PROVE  call[d].lock = call'[c].lock
  <2>1. call[d].lock \in Retained(call[c].path, e)
    BY <1>4 DEF Retained, Users
  <2>2. PICK b \in Calls : /\ Users(b) /\ call[b].path = call[c].path /\ call[b].epoch = e
                          /\ call'[c].lock = call[b].lock
    BY <1>1, <2>1 DEF Retained, Users
  <2>. QED  BY <1>4, <2>2 DEF ShareInv, OneLock
<1>5. OneLock'
  <2>. SUFFICES ASSUME NEW a \in Calls, NEW b \in Calls, Users(a)', Users(b)',
                       call'[a].path = call'[b].path, call'[a].epoch = call'[b].epoch
                PROVE  call'[a].lock = call'[b].lock
    BY DEF OneLock
  <2>1. ASSUME NEW d \in Calls, d # c, Users(d)'
        PROVE  Users(d) /\ call'[d] = call[d]
    BY <1>1, <2>1 DEF Others, Users, Fetching
  <2>2. CASE a # c /\ b # c
    BY <2>1, <2>2 DEF ShareInv, OneLock
  <2>3. CASE a = c /\ b # c
    BY <1>1, <1>4, <2>1, <2>3
  <2>4. CASE a # c /\ b = c
    BY <1>1, <1>4, <2>1, <2>4
  <2>. QED  BY <2>2, <2>3, <2>4
<1>. QED  BY <1>3, <1>5 DEF ShareInv

\* What a call that has nothing yet, of the newest epoch, does to the rest.
LEMMA JoinRefreshes ==
    ASSUME TypeOK, RefreshInv, NEW c \in Calls,
           \A d \in Calls : ~At(d, {"remove"}),
           NEW since \in Nat, since <= cleared[Scope(c)], Joins(c, epoch, since),
           UNCHANGED <<saved, cleared, left, epoch>>
    PROVE  RefreshInv'
<1>. epoch \in Nat
  BY DEF TypeOK
<1>1. /\ Others(c) /\ call'[c].at = "wait" /\ call'[c].epoch = epoch
      /\ call'[c].since = since /\ call'[c].path = call[c].path
      /\ call'[c].outdated = call[c].outdated
  BY JoinsTo
<1>2. OneHolds' /\ Files' /\ NoneOutdated'
  BY <1>1 DEF Others, RefreshInv, OneHolds, HoldsEpoch, Files, NoneOutdated
<1>3. Epochs'
  BY <1>1 DEF Others, RefreshInv, Epochs
<1>4. Sinces' /\ Gens'
  BY <1>1 DEF Others, RefreshInv, Sinces, Gens, Asked
<1>. QED  BY <1>2, <1>3, <1>4 DEF RefreshInv

FetchInv == TypeOK /\ PaceInv /\ ShareInv /\ RefreshInv /\ IndexInv

\* What a file has is not old, nor what the index has that the call asks.
LEMMA NothingOld ==
    ASSUME TypeOK, RefreshInv, NEW c \in Calls
    PROVE  /\ \A p \in DOMAIN saved : p[1] = Scope(c) => ~Old(c, p, saved[p])
           /\ IndexInv /\ At(c, {"query"}) /\ ~index.early =>
                 \A k \in DOMAIN index.pages : ~Old(c, <<Scope(c), k>>, index.pages[k])
<1>. /\ call[c].since \in Nat /\ call[c].since <= cleared[Scope(c)]
     /\ cleared[Scope(c)] \in Nat /\ Scope(c) \in Scopes
  BY PathShape DEF TypeOK, CallType, RefreshInv, Sinces
<1>1. ASSUME NEW p \in DOMAIN saved, p[1] = Scope(c) PROVE ~Old(c, p, saved[p])
  <2>. saved[p] \in Nat
    BY DEF TypeOK
  <2>. QED  BY <1>1 DEF Old, RefreshInv, Files
<1>2. ASSUME IndexInv, At(c, {"query"}), ~index.early, NEW k \in DOMAIN index.pages
      PROVE  ~Old(c, <<Scope(c), k>>, index.pages[k])
  <2>1. index.scope = Scope(c) /\ index.pages[k] \in Nat
    BY <1>2 DEF IndexInv, Asks, TypeOK
  <2>2. Stays(Scope(c), k, index.pages[k])
    BY <1>2, <2>1 DEF IndexInv, Pages
  <2>. QED  BY <2>1, <2>2 DEF Stays, Old
<1>. QED  BY <1>1, <1>2

LEMMA FetchStep == FetchInv /\ [Next]_vars => ShareInv' /\ RefreshInv'
<1>. SUFFICES ASSUME FetchInv, [Next]_vars PROVE ShareInv' /\ RefreshInv'
  OBVIOUS
<1>. TypeOK /\ PaceInv /\ ShareInv /\ RefreshInv /\ IndexInv
  BY DEF FetchInv
<1>0. ASSUME UNCHANGED <<call, saved, cleared, left, epoch>> PROVE ShareInv' /\ RefreshInv'
  <2>1. ShareInv'
    BY <1>0 DEF ShareInv, OneLock, OneFetches, Users, Fetching
  <2>2. RefreshInv'
    BY <1>0 DEF RefreshInv, OneHolds, HoldsEpoch, Epochs, Users, Fetching, Sinces, Gens,
       Asked, Files, NoneOutdated
  <2>. QED  BY <2>1, <2>2
<1>1. CASE UNCHANGED vars
  BY <1>1, <1>0 DEF vars, cache
<1>2. ASSUME NEW c \in Calls, Begin(c) \/ Cancel(c) \/ Step(c)
      PROVE  ShareInv' /\ RefreshInv'
  <2>. /\ call \in [Calls -> CallType] /\ call[c] \in CallType
       /\ call[c].since \in Nat /\ epoch \in Nat /\ call[c].gen \in Nat
       /\ call[c].epoch \in Nat /\ call[c].path \in Paths
       /\ \A p \in Paths : Saved(p) => saved[p] \in Nat
       /\ cleared[Scope(c)] \in Nat
    BY PathShape DEF TypeOK, CallType, Saved
  <2>. DEFINE Same == UNCHANGED <<saved, cleared, left, epoch>>
  <2>0. ASSUME Quiet(c) PROVE ShareInv' /\ RefreshInv'
    BY <2>0, QuietShares, QuietRefreshes
  <2>f. ASSUME Same, Fails(c) PROVE ShareInv' /\ RefreshInv'
    BY <2>f, <2>0, FailsQuietly
  <2>r. ASSUME Saved(call[c].path), Same, Returns(c, saved[call[c].path])
        PROVE  ShareInv' /\ RefreshInv'
    <3>1. ~Old(c, call[c].path, saved[call[c].path])
      BY <2>r, NothingOld DEF Saved
    <3>. QED  BY <2>r, <3>1, <2>0, ReturnsQuietly
  <2>g. ASSUME NEW place, place \notin {"wait", "clear", "remove", "reset"},
               Same, Goes(c, place), Fetching(c)' => Fetching(c), Asked(c)' => Asked(c)
        PROVE  ShareInv' /\ RefreshInv'
    <3>. Quiet(c)
      BY <2>g, GoesTo, GoesQuietly
    <3>. QED  BY <2>0
  <2>1. CASE Begin(c)
    <3>1. PICK kind \in {"list", "local", "library"}, p \in Paths, refresh \in BOOLEAN :
            call' = [call EXCEPT ![c] =
              [Idle EXCEPT !.at = Entry(kind), !.kind = kind, !.path = p, !.refresh = refresh,
                           !.since = cleared[p[1]]]]
      BY <2>1 DEF Begin
    <3>2. /\ Others(c) /\ call'[c].at = Entry(kind) /\ call'[c].kind = kind
          /\ call'[c].path = p /\ call'[c].since = cleared[p[1]] /\ call'[c].epoch = 0
          /\ ~call'[c].outdated
      BY <3>1 DEF Others, Idle
    <3>3. \/ Entry(kind) = "enter" \/ Entry(kind) = "look"
          \/ Entry(kind) = "server" /\ kind = "library"
      <4>1. CASE kind = "list"
        BY <4>1 DEF Entry
      <4>2. CASE kind = "local"
        BY <4>2 DEF Entry
      <4>3. CASE kind = "library"
        BY <4>3 DEF Entry
      <4>. QED  BY <4>1, <4>2, <4>3
    <3>4. cleared[p[1]] \in Nat
      BY PathShape DEF TypeOK
    <3>5. ~Users(c)' /\ ~HoldsEpoch(c)' /\ ~Asked(c)'
      BY <3>2, <3>3 DEF Users, Fetching, HoldsEpoch, Asked
    <3>6. Quiet(c)
      BY <2>1, <3>2, <3>4, <3>5 DEF Quiet, Begin, cache
    <3>. QED  BY <3>6, <2>0
  <2>2. CASE Cancel(c)
    BY <2>2, <1>0 DEF Cancel, cache
  <2>3. CASE GivesUp(c)
    BY <2>3, <2>f DEF GivesUp, cache
  <2>4. CASE Enter(c)
    <3>. /\ call[c].kind # "library" /\ Same
         /\ \A d \in Calls : ~HoldsEpoch(d)
      BY <2>4 DEF Enter, PaceInv, Kinds, Free, Holds, HoldsEpoch
    <3>1. CASE Clears(c)
      <4>1. Goes(c, "clear")
        BY <2>4, <3>1 DEF Enter
      <4>2. /\ Others(c) /\ call'[c].at = "clear" /\ call'[c].since = call[c].since
            /\ call'[c].path = call[c].path /\ call'[c].epoch = call[c].epoch
            /\ call'[c].outdated = call[c].outdated
        BY <4>1, GoesTo
      <4>3. /\ ~Users(c)' /\ ~Asked(c)' /\ ~At(c, {"remove"})'
        BY <4>2 DEF Users, Fetching, Asked
      <4>4. ShareInv'
        BY <4>2, <4>3 DEF ShareInv, OneLock, OneFetches, Users, Fetching, Others
      <4>5. OneHolds' /\ Files' /\ NoneOutdated'
        BY <4>2 DEF Others, RefreshInv, OneHolds, HoldsEpoch, Files, NoneOutdated
      <4>6. Epochs' /\ Sinces' /\ Gens'
        BY <4>2, <4>3 DEF Others, RefreshInv, Epochs, Sinces, Gens, Users, Fetching, Asked
      <4>. QED  BY <4>4, <4>5, <4>6 DEF RefreshInv
    <3>2. CASE ~Clears(c) /\ Saved(call[c].path)
      BY <2>4, <3>2, <2>r DEF Enter, Saved
    <3>3. CASE ~Clears(c) /\ ~Saved(call[c].path)
      <4>1. Joins(c, epoch, call[c].since) /\ ~Fetching(c) /\ call[c].since <= cleared[Scope(c)]
        BY <2>4, <3>3 DEF Enter, Fetching, RefreshInv, Sinces
      <4>2. \A d \in Calls : ~At(d, {"remove"})
        BY DEF HoldsEpoch
      <4>. QED  BY <4>1, <4>2, JoinShares, JoinRefreshes
    <3>. QED  BY <3>1, <3>2, <3>3
  <2>5. CASE Clear(c)
    <3>1. /\ Goes(c, "remove") /\ epoch' = epoch + 1
          /\ saved' = saved /\ cleared' = cleared /\ left' = left
      BY <2>5 DEF Clear
    <3>2. /\ Others(c) /\ call'[c].at = "remove" /\ call'[c].since = call[c].since
          /\ call'[c].path = call[c].path /\ call'[c].epoch = call[c].epoch
          /\ call'[c].outdated = call[c].outdated
      BY <3>1, GoesTo
    <3>3. /\ ~Users(c)' /\ ~Asked(c)' /\ HoldsEpoch(c)
      BY <2>5, <3>2 DEF Users, Fetching, Asked, HoldsEpoch, Clear
    <3>4. ShareInv'
      BY <3>2, <3>3 DEF ShareInv, OneLock, OneFetches, Users, Fetching, Others
    <3>5. OneHolds' /\ Files' /\ NoneOutdated'
      BY <3>1, <3>2, <3>3 DEF Others, RefreshInv, OneHolds, HoldsEpoch, Files, NoneOutdated
    <3>6. Epochs' /\ Sinces' /\ Gens'
      <4>1. \A d \in Calls : call[d].epoch \in Nat /\ call[d].epoch <= epoch
        BY DEF TypeOK, CallType, RefreshInv, Epochs
      <4>. QED
        BY <3>1, <3>2, <3>3, <4>1
           DEF Others, RefreshInv, Epochs, Sinces, Gens, Users, Fetching, Asked
    <3>. QED  BY <3>4, <3>5, <3>6 DEF RefreshInv
  <2>6. CASE Remove(c)
    <3>1. /\ cleared' = [cleared EXCEPT ![Scope(c)] = @ + 1]
          /\ Joins(c, epoch, cleared[Scope(c)] + 1)
          /\ epoch' = epoch
      BY <2>6 DEF Remove
    <3>0. PICK stay \in SUBSET {p \in DOMAIN saved : p[1] = Scope(c)} :
            /\ saved' = [p \in {q \in DOMAIN saved : q[1] # Scope(c)} \cup stay |-> saved[p]]
            /\ left' = {p \in left : p[1] # Scope(c)} \cup stay
      BY <2>6 DEF Remove
    <3>2. cleared[Scope(c)] + 1 \in Nat
      OBVIOUS
    <3>3. /\ Others(c) /\ call'[c].at = "wait" /\ call'[c].epoch = epoch
          /\ call'[c].since = cleared[Scope(c)] + 1 /\ call'[c].path = call[c].path
          /\ call'[c].outdated = call[c].outdated
      BY <3>1, <3>2, JoinsTo
    <3>4. ShareInv'
      <4>. call[c].kind # "library" /\ ~Fetching(c)
        BY <2>6 DEF Remove, PaceInv, Kinds, Fetching
      <4>. QED  BY <3>1, <3>2, JoinShares
    <3>5. \A d \in Calls : d # c => ~HoldsEpoch(d)
      BY <2>6 DEF Remove, RefreshInv, OneHolds, HoldsEpoch
    <3>6. OneHolds' /\ NoneOutdated' /\ Epochs'
      BY <3>1, <3>3, <3>5 DEF Others, RefreshInv, OneHolds, HoldsEpoch, NoneOutdated, Epochs
    <3>7. \A s \in Scopes : /\ cleared[s] \in Nat
                            /\ cleared'[s] = IF s = Scope(c) THEN cleared[s] + 1 ELSE cleared[s]
      BY <3>1 DEF TypeOK
    <3>8. \A d \in Calls : Scope(d) \in Scopes /\ call[d].since \in Nat
      BY PathShape DEF TypeOK, CallType
    <3>9. Sinces'
      BY <3>3, <3>7, <3>8 DEF Others, RefreshInv, Sinces
    <3>10. Gens'
      <4>1. \A d \in Calls : Asked(d) => call[d].epoch < epoch
        BY <2>6 DEF Remove, RefreshInv, Epochs, PaceInv, Kinds, Users, Fetching, Asked
      <4>2. \A d \in Calls : call[d].epoch \in Nat
        BY DEF TypeOK, CallType
      <4>. QED  BY <3>1, <3>3, <4>1, <4>2 DEF Others, RefreshInv, Gens, Asked
    <3>11. Files'
      <4>. \A p \in DOMAIN saved : p \in Paths /\ p[1] \in Scopes
        BY PathShape DEF TypeOK
      <4>1. \A p \in DOMAIN saved' :
               /\ p \in DOMAIN saved /\ saved'[p] = saved[p]
               /\ p[1] = Scope(c) => p \in left'
               /\ p[1] # Scope(c) => (p \in left => p \in left')
        BY <3>0
      <4>. QED  BY <3>7, <4>1 DEF RefreshInv, Files
    <3>. QED  BY <3>4, <3>6, <3>9, <3>10, <3>11 DEF RefreshInv
  <2>7. CASE Locks(c)
    <3>. Same /\ call[c].kind # "library"
      BY <2>7 DEF Locks, cache, PaceInv, Kinds
    <3>1. CASE Saved(call[c].path)
      BY <2>7, <3>1, <2>r DEF Locks, Saved
    <3>2. CASE ~Saved(call[c].path)
      <4>1. Goes(c, "server") /\ FetchFree(call[c].lock) /\ Users(c) /\ ~Fetching(c)
        BY <2>7, <3>2 DEF Locks, Users, Fetching
      <4>2. /\ Others(c) /\ call'[c].at = "server" /\ call'[c].since = call[c].since
            /\ call'[c].path = call[c].path /\ call'[c].epoch = call[c].epoch
            /\ call'[c].lock = call[c].lock /\ call'[c].outdated = call[c].outdated
        BY <4>1, GoesTo
      <4>3. OneLock'
        BY <4>1, <4>2 DEF Others, ShareInv, OneLock, Users, Fetching
      <4>4. OneFetches'
        BY <4>1, <4>2 DEF Others, ShareInv, OneFetches, Fetching, FetchFree
      <4>5. OneHolds' /\ Files' /\ NoneOutdated'
        BY <4>2 DEF Others, RefreshInv, OneHolds, HoldsEpoch, Files, NoneOutdated
      <4>6. Epochs' /\ Sinces' /\ Gens'
        BY <4>1, <4>2 DEF Others, RefreshInv, Epochs, Sinces, Gens, Users, Fetching, Asked
      <4>. QED  BY <4>3, <4>4, <4>5, <4>6 DEF ShareInv, RefreshInv
    <3>. QED  BY <3>1, <3>2
  <2>8. CASE Save(c)
    <3>. call[c].kind # "library" /\ epoch' = epoch /\ cleared' = cleared /\ left' = left
      BY <2>8 DEF Save, PaceInv, Kinds
    <3>0. /\ Asked(c) /\ Fetching(c) /\ call[c].gen >= call[c].since
          /\ call[c].epoch = epoch => call[c].gen >= cleared[Scope(c)]
          /\ ~Old(c, call[c].path, call[c].gen)
      <4>1. call[c].at = "got"
        BY <2>8 DEF Save
      <4>2. Asked(c) /\ Fetching(c)
        BY <4>1 DEF Asked, Fetching
      <4>. QED  BY <4>2 DEF RefreshInv, Gens, Old
    <3>1. CASE call[c].epoch = epoch
      <4>1. /\ Goes(c, "reset") /\ \A d \in Calls : ~HoldsEpoch(d)
            /\ saved' \in {saved} \cup Pruned(Written(call[c].path, call[c].gen))
        BY <2>8, <3>1 DEF Save, Free, Holds, HoldsEpoch
      <4>2. /\ Others(c) /\ call'[c].at = "reset" /\ call'[c].since = call[c].since
            /\ call'[c].path = call[c].path /\ call'[c].epoch = call[c].epoch
            /\ call'[c].lock = call[c].lock /\ call'[c].gen = call[c].gen
            /\ call'[c].kind = call[c].kind /\ call'[c].outdated = call[c].outdated
        BY <4>1, GoesTo
      <4>3. ShareInv'
        <5>1. OneLock'
          BY <3>0, <4>2 DEF Others, ShareInv, OneLock, Users, Fetching
        <5>2. OneFetches'
          BY <3>0, <4>2 DEF Others, ShareInv, OneFetches, Fetching
        <5>. QED  BY <5>1, <5>2 DEF ShareInv
      <4>4. OneHolds' /\ NoneOutdated'
        BY <4>1, <4>2 DEF Others, RefreshInv, OneHolds, HoldsEpoch, NoneOutdated
      <4>5. Epochs' /\ Sinces' /\ Gens'
        BY <3>0, <4>2 DEF Others, RefreshInv, Epochs, Sinces, Gens, Users, Fetching, Asked
      <4>6. Files'
        <5>1. \A q \in DOMAIN saved' :
                 \/ q \in DOMAIN saved /\ saved'[q] = saved[q]
                 \/ q = call[c].path /\ saved'[q] = call[c].gen
          BY <4>1, SavedShape
        <5>. QED  BY <3>0, <3>1, <5>1 DEF RefreshInv, Files
      <4>. QED  BY <4>3, <4>4, <4>5, <4>6 DEF RefreshInv
    <3>2. CASE call[c].epoch # epoch
      <4>1. Returns(c, call[c].gen) /\ Same
        BY <2>8, <3>2 DEF Save
      <4>. QED  BY <3>0, <4>1, <2>0, ReturnsQuietly
    <3>. QED  BY <3>1, <3>2
  <2>9. CASE ResetIndex(c)
    <3>1. Returns(c, call[c].gen) /\ Same /\ ~Old(c, call[c].path, call[c].gen)
      <4>1. call[c].at = "reset" /\ Returns(c, call[c].gen) /\ Same
        BY <2>9 DEF ResetIndex
      <4>2. Asked(c)
        BY <4>1 DEF Asked
      <4>. QED  BY <4>1, <4>2 DEF RefreshInv, Gens, Old
    <3>. QED  BY <3>1, <2>0, ReturnsQuietly
  <2>10. CASE Resolve(c)
    <3>. Same
      BY <2>10 DEF Resolve, cache
    <3>1. CASE ~Fails(c)
      <4>1. /\ Others(c) /\ call'[c].since = call[c].since
            /\ call'[c].path = call[c].path /\ call'[c].epoch = call[c].epoch
            /\ call'[c].lock = call[c].lock /\ call'[c].outdated = call[c].outdated
            /\ call'[c].kind = call[c].kind
            /\ \/ call'[c].at = "send"
               \/ call'[c].at = "flying" /\ call'[c].for = "server"
        BY <2>10, <3>1 DEF Resolve, AskPage, Others, CallType
      <4>2. Fetching(c)' => Fetching(c)
        BY <2>10, <4>1 DEF Resolve, Fetching
      <4>3. ~Asked(c)'
        BY <4>1 DEF Asked
      <4>. QED  BY <4>1, <4>2, <4>3, <2>0, GoesQuietly
    <3>. QED  BY <3>1, <2>f
  <2>11. CASE TakesSchedule(c)
    <3>1. CASE Goes(c, "pace")
      <4>1. /\ Others(c) /\ call'[c].since = call[c].since
            /\ call'[c].path = call[c].path /\ call'[c].epoch = call[c].epoch
            /\ call'[c].lock = call[c].lock /\ call'[c].outdated = call[c].outdated
            /\ call'[c].kind = call[c].kind /\ call'[c].at = "pace"
        BY <3>1, GoesTo
      <4>2. (Fetching(c)' => Fetching(c)) /\ ~Asked(c)'
        BY <2>11, <4>1 DEF TakesSchedule, Fetching, Asked
      <4>3. Same
        BY <2>11 DEF TakesSchedule, cache
      <4>. QED  BY <4>1, <4>2, <4>3, <2>0, GoesQuietly
    <3>. QED  BY <2>11, <3>1, <2>f DEF TakesSchedule, cache
  <2>12. CASE Pace(c)
    BY <2>12, <1>0 DEF Pace, cache
  <2>13. CASE Send(c)
    <3>1. /\ Others(c) /\ call'[c].at = "flying" /\ call'[c].since = call[c].since
          /\ call'[c].path = call[c].path /\ call'[c].epoch = call[c].epoch
          /\ call'[c].lock = call[c].lock /\ call'[c].outdated = call[c].outdated
          /\ call'[c].kind = call[c].kind /\ call'[c].for = call[c].for
          /\ call[c].for = "page" => call'[c].gen = cleared[Scope(c)]
      BY <2>13 DEF Send, Others, CallType
    <3>2. Users(c)' => Fetching(c)
      BY <2>13, <3>1 DEF Send, Users, Fetching
    <3>3. Asked(c)' => call'[c].gen = cleared[Scope(c)]
      BY <3>1 DEF Asked
    <3>. Quiet(c)
      BY <2>13, <3>1, <3>2, <3>3
         DEF Quiet, Send, HoldsEpoch, RefreshInv, Epochs, Sinces, NoneOutdated, cache
    <3>. QED  BY <2>0
  <2>14. CASE RateLimited(c)
    BY <2>14, <2>f DEF RateLimited, cache
  <2>15. CASE ServerAnswered(c)
    <3>. Same
      BY <2>15 DEF ServerAnswered, cache
    <3>1. CASE ~Fails(c)
      <4>1. /\ Others(c) /\ call'[c].since = call[c].since
            /\ call'[c].path = call[c].path /\ call'[c].epoch = call[c].epoch
            /\ call'[c].lock = call[c].lock /\ call'[c].outdated = call[c].outdated
            /\ call'[c].kind = call[c].kind /\ call'[c].at = "send"
        BY <2>15, <3>1 DEF ServerAnswered, AskPage, Others, CallType
      <4>2. (Fetching(c)' => Fetching(c)) /\ ~Asked(c)'
        BY <2>15, <4>1 DEF ServerAnswered, Fetching, Asked
      <4>. QED  BY <4>1, <4>2, <2>0, GoesQuietly
    <3>. QED  BY <3>1, <2>f
  <2>16. CASE PageAnswered(c)
    <3>. Same
      BY <2>16 DEF PageAnswered, cache
    <3>1. CASE ~Fails(c)
      <4>1. /\ Others(c) /\ call'[c].since = call[c].since
            /\ call'[c].path = call[c].path /\ call'[c].epoch = call[c].epoch
            /\ call'[c].lock = call[c].lock /\ call'[c].outdated = call[c].outdated
            /\ call'[c].kind = call[c].kind /\ call'[c].at \in {"got", "send"}
            /\ call'[c].gen = call[c].gen
        BY <2>16, <3>1 DEF PageAnswered, Others, CallType
      <4>2. (Fetching(c)' => Fetching(c)) /\ Asked(c)
        BY <2>16, <4>1 DEF PageAnswered, Fetching, Asked
      <4>. QED  BY <4>1, <4>2, <2>0, GoesQuietly
    <3>. QED  BY <3>1, <2>f
  <2>17. CASE Look(c)
    <3>1. PICK place \in {"query", "build"} : Goes(c, place)
      BY <2>17 DEF Look
    <3>2. ~Fetching(c)' /\ ~Asked(c)'
      BY <3>1, GoesTo DEF Fetching, Asked
    <3>. QED  BY <2>17, <3>1, <3>2, <2>g DEF Look, cache
  <2>18. CASE BuildFirst(c)
    <3>1. /\ Others(c) /\ call'[c].since = call[c].since
          /\ call'[c].path = call[c].path /\ call'[c].epoch = call[c].epoch
          /\ call'[c].lock = call[c].lock /\ call'[c].outdated = call[c].outdated
          /\ call'[c].at \in {"query", "more"}
      BY <2>18 DEF BuildFirst, Indexes, Reads, Others, CallType
    <3>2. ~Fetching(c)' /\ ~Asked(c)'
      BY <3>1 DEF Fetching, Asked
    <3>. QED  BY <2>18, <3>1, <3>2, <2>0, GoesQuietly DEF BuildFirst
  <2>19. CASE BuildNext(c)
    <3>1. /\ Others(c) /\ call'[c].since = call[c].since
          /\ call'[c].path = call[c].path /\ call'[c].epoch = call[c].epoch
          /\ call'[c].lock = call[c].lock /\ call'[c].outdated = call[c].outdated
          /\ call'[c].at = "query"
      BY <2>19 DEF BuildNext, Indexes, Others, CallType
    <3>2. ~Fetching(c)' /\ ~Asked(c)'
      BY <3>1 DEF Fetching, Asked
    <3>. QED  BY <2>19, <3>1, <3>2, <2>0, GoesQuietly DEF BuildNext
  <2>20. CASE Query(c)
    <3>. Same
      BY <2>20 DEF Query, cache
    <3>1. ASSUME NEW key, Loads(c, key) PROVE ShareInv' /\ RefreshInv'
      <4>1. /\ Others(c) /\ call'[c].since = call[c].since
            /\ call'[c].path = <<Scope(c), key>> /\ call'[c].epoch = call[c].epoch
            /\ call'[c].outdated = call[c].outdated /\ call'[c].at = "enter"
        BY <3>1 DEF Loads, Others, CallType
      <4>2. ~Users(c)' /\ ~Asked(c)' /\ ~HoldsEpoch(c)'
        BY <4>1 DEF Users, Fetching, Asked, HoldsEpoch
      <4>. Quiet(c)
        BY <4>1, <4>2 DEF Quiet, RefreshInv, Epochs, Sinces, NoneOutdated
      <4>. QED  BY <2>0
    <3>2. ASSUME NEW found, Matches(c, found), ~Fails(c)
          PROVE  ShareInv' /\ RefreshInv'
      <4>. DEFINE file(k) == <<Scope(c), k>>
                  old == \/ \E k \in found : Old(c, file(k), saved[file(k)])
                         \/ /\ ~index.early
                            /\ \E k \in DOMAIN index.pages : Old(c, file(k), index.pages[k])
      <4>1. Told(c, old) /\ \A k \in found : Saved(file(k))
        BY <3>2 DEF Matches
      <4>2. \A k \in found : ~Old(c, file(k), saved[file(k)])
        BY <4>1, NothingOld DEF Saved
      <4>3. ~index.early => \A k \in DOMAIN index.pages : ~Old(c, file(k), index.pages[k])
        BY <2>20, NothingOld DEF Query
      <4>4. old = FALSE
        BY <4>2, <4>3
      <4>5. Told(c, FALSE)
        BY <4>1, <4>4
      <4>. Quiet(c)
        BY <4>5, ToldTo, EndsQuietly
      <4>. QED  BY <2>0
    <3>. QED  BY <2>20, <3>1, <3>2, <2>f DEF Query
  <2>. QED
    BY <1>2, <2>1, <2>2, <2>3, <2>4, <2>5, <2>6, <2>7, <2>8, <2>9, <2>10, <2>11, <2>12, <2>13,
       <2>14, <2>15, <2>16, <2>17, <2>18, <2>19, <2>20 DEF Step, Answered
<1>. QED  BY <1>1, <1>2 DEF Next

---------------------------------------------------------------------------
(* The index *)

\* A step that neither holds the index nor removes files.
Passes(c) ==
    /\ Others(c) /\ UNCHANGED <<index, cleared, left>>
    /\ call'[c].at \notin {"build", "more", "query", "remove"}

LEMMA PassesIndex ==
    ASSUME IndexInv, NEW c \in Calls, Passes(c)
    PROVE  IndexInv'
<1>1. ASSUME NEW d \in Calls, call'[d].at \in {"build", "more", "query", "remove"}
      PROVE  call'[d] = call[d]
  BY <1>1 DEF Passes, Others
<1>2. OneIndex' /\ Asks'
  BY <1>1 DEF Passes, IndexInv, OneIndex, HoldsIndex, Asks
<1>3. Pages' /\ Firsts' /\ Removes'
  BY <1>1 DEF Passes, IndexInv, Pages, Firsts, Removes, Stays
<1>. QED  BY <1>2, <1>3 DEF IndexInv

\* The holder of the index writes it, with pages that are as new as the files.
LEMMA IndexesKeeps ==
    ASSUME TypeOK, IndexInv, NEW c \in Calls, HoldsIndex(c), NEW pages, Indexes(c, pages),
           UNCHANGED <<cleared, left>>,
           ~call[c].early => \A k \in DOMAIN pages : Stays(Scope(c), k, pages[k]),
           \/ DOMAIN pages = {}
           \/ \A d \in Calls : At(d, {"remove"}) /\ Scope(d) = Scope(c) => call[c].early
    PROVE  IndexInv'
<1>1. /\ index'.scope = Scope(c) /\ index'.pages = pages /\ index'.early = call[c].early
      /\ Others(c) /\ call'[c].at = "query" /\ call'[c].path = call[c].path
  BY DEF Indexes, TypeOK, CallType, Others
<1>2. \A d \in Calls : HoldsIndex(d)' => d = c
  BY <1>1 DEF Others, HoldsIndex, IndexInv, OneIndex
<1>3. OneIndex' /\ Asks' /\ Firsts'
  BY <1>1, <1>2 DEF OneIndex, Asks, Firsts, HoldsIndex
<1>4. Pages'
  BY <1>1 DEF Pages, Stays
<1>5. Removes'
  <2>1. \A d \in Calls : At(d, {"remove"})' => At(d, {"remove"}) /\ call'[d] = call[d]
    BY <1>1 DEF Others
  <2>. QED  BY <1>1, <1>2, <2>1 DEF Removes, HoldsIndex
<1>. QED  BY <1>3, <1>4, <1>5 DEF IndexInv

LEMMA IndexStep == FetchInv /\ [Next]_vars => IndexInv'
<1>. SUFFICES ASSUME FetchInv, [Next]_vars PROVE IndexInv'
  OBVIOUS
<1>. TypeOK /\ PaceInv /\ RefreshInv /\ IndexInv
  BY DEF FetchInv
<1>0. ASSUME UNCHANGED <<call, cleared, left, index>> PROVE IndexInv'
  BY <1>0 DEF IndexInv, OneIndex, HoldsIndex, Asks, Pages, Firsts, Removes, Stays
<1>1. CASE UNCHANGED vars
  BY <1>1, <1>0 DEF vars, cache
<1>2. ASSUME NEW c \in Calls, Begin(c) \/ Cancel(c) \/ Step(c) PROVE IndexInv'
  <2>. /\ call \in [Calls -> CallType] /\ call[c] \in CallType
       /\ call[c].since \in Nat /\ epoch \in Nat /\ call[c].gen \in Nat
       /\ call[c].path \in Paths /\ cleared[Scope(c)] \in Nat /\ Scope(c) \in Scopes
       /\ \A p \in Paths : Saved(p) => saved[p] \in Nat
    BY PathShape DEF TypeOK, CallType, Saved
  <2>. DEFINE Same == UNCHANGED <<index, cleared, left>>
  <2>0. ASSUME Others(c), Same, call'[c].at \notin {"build", "more", "query", "remove"}
        PROVE  IndexInv'
    BY <2>0, PassesIndex DEF Passes
  <2>f. ASSUME Same, Fails(c) PROVE IndexInv'
    BY <2>f, <2>0, FailsTo
  <2>r. ASSUME Same, NEW gen \in Nat, Returns(c, gen) PROVE IndexInv'
    BY <2>r, <2>0, ReturnsTo
  <2>j. ASSUME Same, NEW since \in Nat, Joins(c, epoch, since) PROVE IndexInv'
    BY <2>j, <2>0, JoinsTo
  <2>g. ASSUME Same, NEW place, place \notin {"build", "more", "query", "remove"}, Goes(c, place)
        PROVE  IndexInv'
    BY <2>g, <2>0, GoesTo
  <2>1. CASE Begin(c)
    <3>1. PICK kind \in {"list", "local", "library"}, p \in Paths, refresh \in BOOLEAN :
            call' = [call EXCEPT ![c] =
              [Idle EXCEPT !.at = Entry(kind), !.kind = kind, !.path = p, !.refresh = refresh,
                           !.since = cleared[p[1]]]]
      BY <2>1 DEF Begin
    <3>2. Others(c) /\ call'[c].at \in {"enter", "look", "server"}
      BY <3>1 DEF Others, Entry
    <3>. QED  BY <2>0, <2>1, <3>2 DEF Begin, cache
  <2>2. CASE Cancel(c)
    BY <2>2, <1>0 DEF Cancel, cache
  <2>3. CASE GivesUp(c)
    BY <2>3, <2>f DEF GivesUp, cache
  <2>4. CASE Enter(c)
    BY <2>4, <2>g, <2>r, <2>j DEF Enter
  <2>5. CASE Clear(c)
    <3>1. /\ Goes(c, "remove") /\ \A d \in Calls : ~HoldsIndex(d)
          /\ index' = NoIndex /\ cleared' = cleared /\ left' = left
      BY <2>5 DEF Clear, Free, Holds, HoldsIndex
    <3>2. Others(c) /\ call'[c].at = "remove"
      BY <3>1, GoesTo
    <3>3. \A d \in Calls : ~HoldsIndex(d)'
      BY <3>1, <3>2 DEF Others, HoldsIndex
    <3>. QED
      BY <3>1, <3>3, NoPages DEF IndexInv, OneIndex, HoldsIndex, Asks, Pages, Firsts, Removes
  <2>6. CASE Remove(c)
    <3>1. /\ cleared' = [cleared EXCEPT ![Scope(c)] = @ + 1] /\ index' = index
          /\ Joins(c, epoch, cleared[Scope(c)] + 1) /\ At(c, {"remove"})
          /\ \A p \in left : p[1] # Scope(c) => p \in left'
      BY <2>6 DEF Remove
    <3>2. Others(c) /\ call'[c].at = "wait"
      <4>. cleared[Scope(c)] + 1 \in Nat
        OBVIOUS
      <4>. QED  BY <3>1, JoinsTo
    <3>3. ASSUME NEW d \in Calls, call'[d].at \in {"build", "more", "query", "remove"}
          PROVE  call'[d] = call[d]
      BY <3>2, <3>3 DEF Others
    <3>4. \A d \in Calls : ~At(d, {"remove"})'
      BY <3>1, <3>2, <3>3 DEF RefreshInv, OneHolds, HoldsEpoch
    <3>5. OneIndex' /\ Asks' /\ Removes'
      BY <3>1, <3>3, <3>4 DEF IndexInv, OneIndex, HoldsIndex, Asks, Removes
    <3>6. ASSUME NEW s \in Scopes \cup {None}, s # Scope(c), NEW k, NEW gen, Stays(s, k, gen)
          PROVE  Stays(s, k, gen)'
      <4>1. cleared'[s] = cleared[s]
        BY <3>1, <3>6 DEF TypeOK
      <4>2. <<s, k>>[1] = s
        OBVIOUS
      <4>. QED  BY <3>1, <3>6, <4>1, <4>2 DEF Stays
    <3>7. Pages'
      BY <3>1, <3>6 DEF IndexInv, Pages, Removes, TypeOK
    <3>8. Firsts'
      <4>. SUFFICES ASSUME NEW d \in Calls, At(d, {"more"})', ~call'[d].early
                    PROVE  Stays(Scope(d), "first", call[d].gen)' /\ call'[d] = call[d]
        BY DEF Firsts
      <4>1. call'[d] = call[d] /\ Scope(d) \in Scopes
        BY <3>3, PathShape DEF TypeOK, CallType
      <4>2. Scope(d) # Scope(c) /\ Stays(Scope(d), "first", call[d].gen)
        BY <3>1, <4>1 DEF IndexInv, Removes, Firsts
      <4>. QED  BY <3>6, <4>1, <4>2
    <3>. QED  BY <3>5, <3>7, <3>8 DEF IndexInv
  <2>7. CASE Locks(c)
    BY <2>7, <2>g, <2>r DEF Locks, cache
  <2>8. CASE Save(c)
    BY <2>8, <2>g, <2>r DEF Save
  <2>9. CASE ResetIndex(c)
    <3>1. /\ Returns(c, call[c].gen) /\ \A d \in Calls : ~HoldsIndex(d)
          /\ index' = NoIndex /\ cleared' = cleared /\ left' = left
      BY <2>9 DEF ResetIndex, Free, Holds, HoldsIndex
    <3>2. Others(c) /\ call'[c].at \in {"done", "look"}
      BY <3>1, ReturnsTo
    <3>3. \A d \in Calls : ~HoldsIndex(d)'
      BY <3>1, <3>2 DEF Others, HoldsIndex
    <3>. QED
      BY <3>1, <3>3, NoPages DEF IndexInv, OneIndex, HoldsIndex, Asks, Pages, Firsts, Removes
  <2>10. CASE Resolve(c)
    <3>1. CASE ~Fails(c)
      <4>. Others(c) /\ call'[c].at \in {"send", "flying"}
        BY <2>10, <3>1 DEF Resolve, AskPage, Others, CallType
      <4>. QED  BY <2>10, <2>0 DEF Resolve, cache
    <3>. QED  BY <2>10, <3>1, <2>f DEF Resolve, cache
  <2>11. CASE TakesSchedule(c)
    BY <2>11, <2>f, <2>g DEF TakesSchedule, cache
  <2>12. CASE Pace(c)
    BY <2>12, <1>0 DEF Pace, cache
  <2>13. CASE Send(c)
    <3>. Others(c) /\ call'[c].at = "flying" /\ Same
      BY <2>13 DEF Send, Others, cache
    <3>. QED  BY <2>0
  <2>14. CASE RateLimited(c)
    BY <2>14, <2>f DEF RateLimited, cache
  <2>15. CASE ServerAnswered(c)
    <3>1. CASE ~Fails(c)
      <4>. Others(c) /\ call'[c].at = "send"
        BY <2>15, <3>1 DEF ServerAnswered, AskPage, Others, CallType
      <4>. QED  BY <2>15, <2>0 DEF ServerAnswered, cache
    <3>. QED  BY <2>15, <3>1, <2>f DEF ServerAnswered, cache
  <2>16. CASE PageAnswered(c)
    <3>1. CASE ~Fails(c)
      <4>. Others(c) /\ call'[c].at \in {"got", "send"}
        BY <2>16, <3>1 DEF PageAnswered, Others, CallType
      <4>. QED  BY <2>16, <2>0 DEF PageAnswered, cache
    <3>. QED  BY <2>16, <3>1, <2>f DEF PageAnswered, cache
  <2>17. CASE Look(c)
    <3>1. /\ \A d \in Calls : ~HoldsIndex(d)
          /\ Same
      BY <2>17 DEF Look, Free, Holds, HoldsIndex, cache
    <3>2. PICK place \in {"query", "build"} :
            Goes(c, place) /\ (place = "query" => index.scope = Scope(c))
      BY <2>17 DEF Look
    <3>3. Others(c) /\ call'[c].at = place /\ call'[c].path = call[c].path
      BY <3>2, GoesTo
    <3>4. \A d \in Calls : HoldsIndex(d)' => d = c
      BY <3>1, <3>3 DEF Others, HoldsIndex
    <3>5. OneIndex' /\ Asks'
      BY <3>1, <3>2, <3>3, <3>4 DEF OneIndex, Asks, HoldsIndex
    <3>6. \A d \in Calls : call'[d].at \in {"more", "remove"} => call'[d] = call[d]
      BY <3>2, <3>3 DEF Others
    <3>7. Pages' /\ Firsts' /\ Removes'
      BY <3>1, <3>6 DEF IndexInv, Pages, Firsts, Removes, Stays
    <3>. QED  BY <3>5, <3>7 DEF IndexInv
  <2>18. CASE BuildFirst(c)
    <3>1. HoldsIndex(c) /\ cleared' = cleared /\ left' = left
      BY <2>18 DEF BuildFirst, HoldsIndex
    <3>2. CASE ~Saved(<<Scope(c), "first">>)
      <4>1. Indexes(c, <<>>)
        BY <2>18, <3>2 DEF BuildFirst
      <4>2. DOMAIN <<>> = {}
        OBVIOUS
      <4>. QED  BY <3>1, <4>1, <4>2, IndexesKeeps
    <3>3. CASE Saved(<<Scope(c), "first">>)
      <4>1. Reads(c, <<Scope(c), "first">>) /\ UNCHANGED index
        BY <2>18, <3>3 DEF BuildFirst, Reads
      <4>2. /\ Others(c) /\ call'[c].at = "more" /\ call'[c].path = call[c].path
            /\ call'[c].gen = saved[<<Scope(c), "first">>]
            /\ call'[c].early = Clearing(Scope(c))
        BY <4>1 DEF Reads, Others, CallType
      <4>3. \A d \in Calls : HoldsIndex(d)' => d = c
        BY <3>1, <4>2 DEF Others, HoldsIndex, IndexInv, OneIndex
      <4>4. OneIndex' /\ Asks' /\ Pages'
        BY <3>1, <4>1, <4>2, <4>3 DEF OneIndex, Asks, HoldsIndex, IndexInv, Pages, Stays
      <4>5. Firsts'
        <5>1. Stays(Scope(c), "first", saved[<<Scope(c), "first">>])
          <6>1. <<Scope(c), "first">> \in DOMAIN saved /\ <<Scope(c), "first">>[1] = Scope(c)
            BY <3>3 DEF Saved
          <6>. QED  BY <6>1 DEF RefreshInv, Files, Stays
        <5>. QED  BY <3>1, <4>2, <4>3, <5>1 DEF Firsts, HoldsIndex, Stays
      <4>6. Removes'
        <5>1. \A d \in Calls : At(d, {"remove"})' => At(d, {"remove"}) /\ call'[d] = call[d]
          BY <4>2 DEF Others
        <5>2. \A d \in Calls : At(d, {"remove"}) /\ Scope(d) = Scope(c) => call'[c].early
          BY <4>2 DEF Clearing
        <5>. QED  BY <4>1, <4>2, <4>3, <5>1, <5>2 DEF IndexInv, Removes, HoldsIndex
      <4>. QED  BY <4>4, <4>5, <4>6 DEF IndexInv
    <3>. QED  BY <3>2, <3>3
  <2>19. CASE BuildNext(c)
    <3>. DEFINE next == <<Scope(c), "next">>
                pages == [k \in {"first"} \cup {n \in {"next"} : Saved(next)} |->
                             IF k = "first" THEN call[c].gen ELSE saved[next]]
    <3>1. /\ At(c, {"more"}) /\ Indexes(c, pages)
          /\ cleared' = cleared /\ left' = left
      BY <2>19 DEF BuildNext
    <3>2. ASSUME ~call[c].early, NEW k \in DOMAIN pages PROVE Stays(Scope(c), k, pages[k])
      <4>1. CASE k = "first"
        BY <3>1, <3>2, <4>1 DEF IndexInv, Firsts
      <4>2. CASE k = "next" /\ next \in DOMAIN saved
        <5>. next[1] = Scope(c) /\ pages[k] = saved[next]
          BY <4>2 DEF Saved
        <5>. QED  BY <4>2 DEF RefreshInv, Files, Stays
      <4>. QED  BY <3>2, <4>1, <4>2 DEF Saved
    <3>3. HoldsIndex(c)
      BY <3>1 DEF HoldsIndex
    <3>4. \A d \in Calls : At(d, {"remove"}) /\ Scope(d) = Scope(c) => call[c].early
      BY <3>1 DEF IndexInv, Removes
    <3>. HIDE DEF pages
    <3>. QED  BY <3>1, <3>2, <3>3, <3>4, IndexesKeeps
  <2>20. CASE Query(c)
    <3>. Same
      BY <2>20 DEF Query, cache
    <3>1. ASSUME NEW key, Loads(c, key) PROVE IndexInv'
      BY <3>1, <2>0 DEF Loads, Others
    <3>2. ASSUME NEW found, Matches(c, found) PROVE IndexInv'
      <4>1. ASSUME NEW old \in BOOLEAN, Told(c, old) PROVE IndexInv'
        BY <4>1, <2>0, ToldTo
      <4>. QED  BY <3>2, <4>1, <2>f, MatchesEnd
    <3>. QED  BY <2>20, <3>1, <3>2, <2>f DEF Query
  <2>. QED
    BY <1>2, <2>1, <2>2, <2>3, <2>4, <2>5, <2>6, <2>7, <2>8, <2>9, <2>10, <2>11, <2>12, <2>13,
       <2>14, <2>15, <2>16, <2>17, <2>18, <2>19, <2>20 DEF Step, Answered
<1>. QED  BY <1>1, <1>2 DEF Next

---------------------------------------------------------------------------
(* The theorems *)

LEMMA InvHolds == Spec => []FetchInv
<1>1. Init => FetchInv
  BY TypeInit, PaceInit, FetchInit DEF FetchInv
<1>2. FetchInv /\ [Next]_vars => FetchInv'
  BY TypeStep, PaceStep, FetchStep, IndexStep DEF FetchInv, KeepsPace
<1>. QED  BY <1>1, <1>2, PTL DEF Spec

\* A refresh is final, for any calls, accounts, pages and files, and whatever writes
\* and removals fail: what was asked for before it is in a file only where the
\* refresh could not remove that file, and is told to a later call only from such a
\* file or an index with its page, or from an index that read the files while the
\* refresh was removing them.
THEOREM RefreshFinal == Spec => []RefreshIsFinal
<1>1. FetchInv => RefreshIsFinal
  BY DEF FetchInv, RefreshInv, Files, NoneOutdated, RefreshIsFinal
<1>. QED  BY <1>1, InvHolds, PTL

\* Calls that miss the same page in the same epoch never fetch it together.
THEOREM FetchShared == Spec => []FetchesAreShared
<1>1. FetchInv => FetchesAreShared
  BY DEF FetchInv, ShareInv, OneLock, OneFetches, Users, FetchesAreShared
<1>. QED  BY <1>1, InvHolds, PTL

\* Requests go out one at a time, after the interval and in no cool-down.
THEOREM Paced == Spec => RequestsArePaced
<1>. DEFINE Alone == \A c \in Calls : Scheduled(c)' /\ ~Scheduled(c) =>
                        ~pacing /\ ~cooling /\ \A d \in Calls : ~Scheduled(d)
<1>1. FetchInv /\ [Next]_vars => [Alone]_vars
  BY PaceStep DEF FetchInv, KeepsPace, SendsAlone
<1>2. Spec => [][Alone]_vars
  BY <1>1, InvHolds, PTL DEF Spec
<1>. QED  BY <1>2 DEF RequestsArePaced
=============================================================================
