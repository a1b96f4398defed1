--------------------------- MODULE CoreLinkProofs ---------------------------
(* The theorems about the link of shell and core, for any number of         *)
(* requests, workers, restarts, errors and crashes.                         *)
EXTENDS CoreLink, FiniteSetTheorems, SequenceTheorems, TLAPS

ToCoreLines == [type : {"request", "cancel"}, id : Ids]
ToShellLines == [id : Ids, code : Codes]

LEMMA Assumptions ==
  /\ MaxRequests \in Nat /\ MaxActive \in Nat /\ MaxBackground \in Nat
  /\ MaxRestarts \in Nat /\ MaxErrors \in Nat /\ MaxCrashes \in Nat
BY MaxRequestsAssumption, AdmissionAssumption, ClientAssumption, CrashesAssumption
   DEF MaxRequestsAssumption, AdmissionAssumption, ClientAssumption, CrashesAssumption

LEMMA LineTypes ==
  ASSUME NEW id \in Ids
  PROVE  /\ Request(id) \in ToCoreLines /\ Cancel(id) \in ToCoreLines
         /\ \A code \in Codes : Response(id, code) \in ToShellLines
BY DEF Request, Cancel, Response, ToCoreLines, ToShellLines

\* A request that may be made has an id of its own.
LEMMA NewIdIsId == TypeOK /\ NewId => nextId \in Ids /\ nextId + 1 \in 1..(MaxRequests + 1)
BY Assumptions DEF Assumptions, TypeOK, ClientTypeOK, NewId, Ids

-----------------------------------------------------------------------------
(* Types *)

\* The two halves of ClientTypeOK: what is true or false, and the rest.
FlagsType == restartTimer \in BOOLEAN /\ manualStop \in BOOLEAN /\ blocked \in BOOLEAN
DataType ==
  /\ link \in Links
  /\ pending \subseteq Ids /\ retrying \subseteq pending
  /\ nextId \in 1..(MaxRequests + 1)
  /\ hello \in Ids \cup {0}
  /\ attempts \in 0..MaxRestarts
  /\ got \in [Ids -> {"none", "result", "failure"}]
  /\ told \in [Ids -> Nat]
  /\ errors \in Nat

LEMMA Halves == ClientTypeOK <=> FlagsType /\ DataType
BY Zenon DEF ClientTypeOK, FlagsType, DataType

LEMMA SendType ==
  ASSUME TypeOK, NEW line \in ToCoreLines
  PROVE  /\ Append(toCore, line) \in Seq(ToCoreLines)
         /\ Send(line) => toCore' \in Seq(ToCoreLines)
<1>1. toCore \in Seq(ToCoreLines)
  BY DEF TypeOK, PipesTypeOK, ToCoreLines
<1>2. Append(toCore, line) \in Seq(ToCoreLines)
  BY <1>1, AppendProperties
<1> QED BY <1>1, <1>2 DEF Send

\* What all the variables of a failure have in common, whoever is told of it.
PromisesType ==
  /\ pending' \subseteq Ids /\ retrying' \subseteq pending'
  /\ nextId' \in 1..(MaxRequests + 1)
  /\ got' \in [Ids -> {"none", "result", "failure"}] /\ told' \in [Ids -> Nat]
  /\ method' \in [Ids -> Methods \cup {"none"}]

LEMMA FailAllType ==
  ASSUME TypeOK, NEW dropped, FailAll(dropped)
  PROVE  PromisesType /\ toCore' \in Seq(ToCoreLines)
<1>1. got' \in [Ids -> {"none", "result", "failure"}] /\ told' \in [Ids -> Nat]
  BY DEF TypeOK, ClientTypeOK, FailAll, Ended, Told
<1>2. CASE pending' = {} /\ UNCHANGED <<nextId, toCore, method>>
  BY <1>1, <1>2 DEF TypeOK, ClientTypeOK, PipesTypeOK, FailAll, ToCoreLines, PromisesType
<1>3. CASE /\ NewId /\ pending' = {nextId} /\ nextId' = nextId + 1
           /\ method' = [method EXCEPT ![nextId] = "control"] /\ Send(Request(nextId))
  <2>1. toCore' \in Seq(ToCoreLines)
    BY <1>3, NewIdIsId, LineTypes, SendType
  <2>2. method' \in [Ids -> Methods \cup {"none"}]
    BY <1>3, NewIdIsId DEF TypeOK, PipesTypeOK, Methods
  <2> QED BY <1>1, <1>3, <2>1, <2>2, NewIdIsId DEF FailAll, PromisesType
<1> QED BY <1>2, <1>3 DEF FailAll

LEMMA FailAllGoneType == TypeOK /\ FailAllGone => PromisesType
BY DEF TypeOK, PipesTypeOK, ClientTypeOK, FailAllGone, Ended, Told, PromisesType

LEMMA CompleteType ==
  ASSUME TypeOK, NEW id, NEW end \in {"result", "failure"}, Complete(id, end),
         UNCHANGED <<nextId, method>>
  PROVE  PromisesType
BY DEF TypeOK, PipesTypeOK, ClientTypeOK, Complete, Ended, Told, PromisesType

LEMMA RestartType ==
  ASSUME TypeOK, ScheduleRestart
  PROVE  attempts' \in 0..MaxRestarts
<1>1. CASE UNCHANGED <<restartTimer, attempts>>
  BY <1>1 DEF TypeOK, ClientTypeOK
<1>2. CASE ~(attempts >= MaxRestarts) /\ restartTimer' = TRUE /\ attempts' = attempts + 1
  BY <1>2, Assumptions DEF Assumptions, TypeOK, ClientTypeOK
<1> QED BY <1>1, <1>2 DEF ScheduleRestart

\* The answers of the core are lines of the shell's pipe, and each end leaves one.
LEMMA HeadTypes ==
  ASSUME TypeOK
  PROVE  /\ toCore # <<>> => Head(toCore) \in ToCoreLines /\ Tail(toCore) \in Seq(ToCoreLines)
         /\ toShell # <<>> => Head(toShell) \in ToShellLines /\ Tail(toShell) \in Seq(ToShellLines)
BY HeadTailProperties DEF TypeOK, PipesTypeOK, ToCoreLines, ToShellLines

LEMMA TypeInit == Init => TypeOK
<1> SUFFICES ASSUME Init PROVE TypeOK
  OBVIOUS
<1> USE Assumptions DEF Assumptions
<1>1. PipesTypeOK
  BY DEF Init, PipesInit, PipesTypeOK, Methods
<1>2. CoreTypeOK
  BY DEF Init, CoreInit, CoreTypeOK, Stages
<1>3. DataType
  BY DEF Init, ClientInit, DataType, Links
<1>4. FlagsType
  BY Zenon DEF Init, ClientInit, FlagsType
<1> QED BY <1>1, <1>2, <1>3, <1>4, Halves DEF Init, TypeOK

LEMMA FlagsKept == FlagsType /\ Next => FlagsType'
<1> SUFFICES ASSUME FlagsType, Next PROVE FlagsType'
  OBVIOUS
<1>1. CASE Shell
  <2>1. restartTimer' \in {restartTimer, TRUE, FALSE}
    BY <1>1, Zenon DEF Shell, ShellStart, Start, RestartFires, Started, FailedToStart,
       ScheduleRestart, ProcessError, Finished, Stop, Escalate, RequestSent, CancelRequest,
       Timeout, ProtocolFailure, Retry, ReadLine, Discard, BadLine, client
  <2>2. manualStop' \in {manualStop, TRUE, FALSE} /\ blocked' \in {blocked, TRUE, FALSE}
    BY <1>1, Zenon DEF Shell, ShellStart, Start, RestartFires, Started, FailedToStart,
       ScheduleRestart, ProcessError, Finished, Stop, Escalate, RequestSent, CancelRequest,
       Timeout, ProtocolFailure, Retry, ReadLine, Discard, BadLine, client
  <2> QED BY <2>1, <2>2, Zenon DEF FlagsType
<1>2. CASE UNCHANGED client
  BY <1>2, Zenon DEF client, FlagsType
<1> QED BY <1>1, <1>2, Zenon DEF Next, Core, CoreEof, CoreKilled, CoreFails

\* A step with its promises typed leaves the rest of the shell typed.
LEMMA ShellTypes == TypeOK /\ Shell => PipesTypeOK' /\ DataType'
<1> SUFFICES ASSUME TypeOK, Shell PROVE PipesTypeOK' /\ DataType'
  OBVIOUS
<1> USE Assumptions DEF Assumptions
<1>a. ASSUME PromisesType, toCore' \in Seq(ToCoreLines), toShell' \in Seq(ToShellLines),
             process' \in {process, "none", "starting", "up", "dying"},
             link' \in Links, hello' \in Ids \cup {0}, attempts' \in 0..MaxRestarts,
             errors' \in Nat
      PROVE  PipesTypeOK' /\ DataType'
  BY <1>a DEF TypeOK, PipesTypeOK, DataType, PromisesType, ToCoreLines, ToShellLines
<1>b. /\ toCore \in Seq(ToCoreLines) /\ toShell \in Seq(ToShellLines) /\ <<>> \in Seq(ToShellLines)
      /\ link \in Links /\ hello \in Ids \cup {0} /\ attempts \in 0..MaxRestarts /\ errors \in Nat
  BY DEF TypeOK, PipesTypeOK, ClientTypeOK, ToCoreLines, ToShellLines
<1>c. UNCHANGED <<method, nextId, pending, retrying, got, told>> => PromisesType
  BY DEF TypeOK, PipesTypeOK, ClientTypeOK, PromisesType
<1>1. CASE ShellStart
  BY <1>1, <1>a, <1>b, <1>c DEF ShellStart, Start, Links
<1>2. CASE RestartFires
  BY <1>2, <1>a, <1>b, <1>c DEF RestartFires, Start, Links, pipes
<1>3. CASE Started
  <2>1. nextId \in Ids /\ nextId + 1 \in 1..(MaxRequests + 1)
    BY <1>3, NewIdIsId DEF Started
  <2>2. toCore' \in Seq(ToCoreLines)
    BY <1>3, <1>b, <2>1, LineTypes, SendType DEF Started
  <2>3. method' \in [Ids -> Methods \cup {"none"}]
    BY <1>3 DEF Started, TypeOK, PipesTypeOK, Methods
  <2>4. PromisesType /\ hello' \in Ids \cup {0}
    <3>1. CASE blocked
      <4>1. got' \in [Ids -> {"none", "result", "failure"}]
        BY <1>3, <3>1 DEF Started, TypeOK, ClientTypeOK
      <4>2. told' \in [Ids -> Nat]
        BY <1>3, <2>1, <3>1 DEF Started, TypeOK, ClientTypeOK
      <4> QED BY <1>3, <2>1, <2>3, <3>1, <4>1, <4>2 DEF Started, TypeOK, ClientTypeOK, PromisesType
    <3>2. CASE ~blocked
      BY <1>3, <2>1, <2>3, <3>2 DEF Started, TypeOK, ClientTypeOK, PromisesType
    <3> QED BY <3>1, <3>2
  <2> QED BY <1>3, <1>a, <1>b, <2>2, <2>4 DEF Started, Links
<1>4. CASE FailedToStart
  BY <1>4, <1>a, <1>b, FailAllGoneType, RestartType DEF FailedToStart, Links
<1>5. CASE ProcessError
  BY <1>5, <1>a, <1>b, FailAllType DEF ProcessError, Links
<1>6. CASE Finished
  <2>1. CASE link' = "stopped" /\ UNCHANGED <<pending, retrying, nextId, method, attempts, got, told>>
    BY <1>6, <2>1, <1>a, <1>b, <1>c DEF Finished, Links
  <2>2. CASE link' = "failed" /\ FailAllGone /\ ScheduleRestart
    BY <1>6, <2>2, <1>a, <1>b, FailAllGoneType, RestartType DEF Finished, Links
  <2> QED BY <1>6, <2>1, <2>2 DEF Finished
<1>7. CASE Stop
  <2>1. CASE process = "none"
    BY <1>7, <2>1, <1>a, <1>b, <1>c DEF Stop, Links
  <2>2. CASE process # "none"
    BY <1>7, <2>2, <1>a, <1>b, FailAllType DEF Stop, Links
  <2> QED BY <2>1, <2>2
<1>8. CASE Escalate \/ Discard
  BY <1>8, <1>a, <1>b, <1>c DEF Escalate, Discard, client
<1>9. ASSUME NEW m \in {"control", "background"}, RequestSent(m)
      PROVE  PipesTypeOK' /\ DataType'
  <2>1. nextId \in Ids /\ nextId + 1 \in 1..(MaxRequests + 1)
    BY <1>9, NewIdIsId DEF RequestSent
  <2>2. toCore' \in Seq(ToCoreLines)
    BY <1>9, <2>1, LineTypes, SendType DEF RequestSent
  <2>3. PromisesType
    BY <1>9, <2>1 DEF RequestSent, TypeOK, PipesTypeOK, ClientTypeOK, PromisesType, Methods
  <2> QED BY <1>9, <1>a, <1>b, <2>2, <2>3 DEF RequestSent
<1>10. ASSUME NEW id \in Ids, CancelRequest(id)
       PROVE  PipesTypeOK' /\ DataType'
  <2>1. toCore' \in Seq(ToCoreLines)
    BY <1>10, <1>b, LineTypes, SendType DEF CancelRequest
  <2>2. PromisesType
    BY <1>10, CompleteType DEF CancelRequest
  <2> QED BY <1>10, <1>a, <1>b, <2>1, <2>2 DEF CancelRequest
<1>11. ASSUME NEW dropped, ProtocolFailure(dropped), toShell' \in Seq(ToShellLines), errors' \in Nat
       PROVE  PipesTypeOK' /\ DataType'
  BY <1>11, <1>a, <1>b, FailAllType DEF ProtocolFailure, Links
<1>12. ASSUME NEW id \in Ids, Timeout(id)
       PROVE  PipesTypeOK' /\ DataType'
  BY <1>12, <1>10, <1>11, <1>b DEF Timeout
<1>13. ASSUME NEW id \in Ids, Retry(id)
       PROVE  PipesTypeOK' /\ DataType'
  <2>1. toCore' \in Seq(ToCoreLines)
    BY <1>13, <1>b, LineTypes, SendType DEF Retry
  <2>2. PromisesType
    <3>1. CASE Complete(id, "failure")
      BY <1>13, <3>1, CompleteType DEF Retry
    <3>2. CASE retrying' = retrying \ {id} /\ UNCHANGED <<pending, got, told>>
      BY <1>13, <3>2 DEF Retry, TypeOK, PipesTypeOK, ClientTypeOK, PromisesType
    <3> QED BY <1>13, <3>1, <3>2 DEF Retry
  <2> QED BY <1>13, <1>a, <1>b, <2>1, <2>2 DEF Retry
<1>14. CASE ReadLine
  <2> DEFINE id == Head(toShell).id
             code == Head(toShell).code
  <2>1. toShell' \in Seq(ToShellLines) /\ UNCHANGED errors
    BY <1>14, HeadTypes DEF ReadLine
  <2>2. CASE ProtocolFailure({id})
    BY <2>1, <2>2, <1>11, <1>b
  <2>3. CASE /\ UNCHANGED <<process, toCore, method, hello, nextId>>
             /\ link' \in Links /\ attempts' \in 0..MaxRestarts /\ PromisesType
    BY <2>1, <2>3, <1>a, <1>b
  <2>4. CASE /\ UNCHANGED <<process, toCore, method, hello, nextId>>
             /\ UNCHANGED <<link, pending, attempts, got, told>>
             /\ \/ UNCHANGED retrying
                \/ id \in pending /\ retrying' = retrying \cup {id}
    <3>1. PromisesType
      BY <2>4 DEF TypeOK, PipesTypeOK, ClientTypeOK, PromisesType
    <3> QED BY <2>3, <2>4, <3>1, <1>b
  <2>5. CASE /\ UNCHANGED <<process, toCore, method, hello, nextId>>
             /\ \/ /\ Complete(id, "result")
                   /\ link' = IF id = hello THEN "ready" ELSE link
                   /\ attempts' = IF id = hello THEN 0 ELSE attempts
                \/ Complete(id, "failure") /\ UNCHANGED <<link, attempts>>
    <3>1. PromisesType
      BY <2>5, CompleteType
    <3>2. link' \in Links /\ attempts' \in 0..MaxRestarts
      BY <2>5, <1>b DEF Links
    <3> QED BY <2>3, <2>5, <3>1, <3>2
  <2> QED BY <1>14, <2>2, <2>4, <2>5 DEF ReadLine
<1>15. CASE BadLine
  BY <1>15, <1>11, <1>b DEF BadLine
<1> QED BY <1>1, <1>2, <1>3, <1>4, <1>5, <1>6, <1>7, <1>8, <1>9, <1>10, <1>12, <1>13, <1>14, <1>15
        DEF Shell

LEMMA CoreTypes == TypeOK /\ (Core \/ CoreEof \/ CoreKilled \/ CoreFails) => PipesTypeOK' /\ CoreTypeOK'
<1> SUFFICES ASSUME TypeOK, Core \/ CoreEof \/ CoreKilled \/ CoreFails
             PROVE  PipesTypeOK' /\ CoreTypeOK'
  OBVIOUS
<1>1. CASE ReadRequest
  <2>1. /\ Head(toCore).id \in Ids /\ Tail(toCore) \in Seq(ToCoreLines)
        /\ Response(Head(toCore).id, "busy") \in ToShellLines
    BY <1>1, HeadTypes, LineTypes DEF ReadRequest, ToCoreLines, Codes
  <2>2. toShell \in Seq(ToShellLines)
    BY DEF TypeOK, PipesTypeOK, ToShellLines
  <2>a. Append(toShell, Response(Head(toCore).id, "busy")) \in Seq(ToShellLines)
    BY <2>1, <2>2, AppendProperties
  <2>3. toShell' \in Seq(ToShellLines)
    BY <1>1, <2>2, <2>a DEF ReadRequest, Admit
  <2>4. CoreTypeOK'
    BY <1>1, <2>1 DEF ReadRequest, Admit, TypeOK, CoreTypeOK, Stages
  <2> QED BY <1>1, <2>1, <2>3, <2>4 DEF ReadRequest, TypeOK, PipesTypeOK, ToCoreLines, ToShellLines
<1>2. CASE ReadCancel
  BY <1>2, HeadTypes DEF ReadCancel, TypeOK, PipesTypeOK, CoreTypeOK, ToCoreLines
<1>3. ASSUME NEW id \in Ids, Begin(id) \/ Finish(id) \/ Release(id)
      PROVE  PipesTypeOK' /\ CoreTypeOK'
  <2>1. PipesTypeOK'
    BY <1>3 DEF Begin, Finish, Release, pipes, TypeOK, PipesTypeOK
  <2>2. ASSUME Begin(id) PROVE CoreTypeOK'
    <3>1. stage' \in [Ids -> Stages] /\ UNCHANGED <<active, cancelled>>
      BY <2>2 DEF Begin, Moves, TypeOK, CoreTypeOK, Stages
    <3>2. executed' \in [Ids -> Nat]
      BY <2>2 DEF Begin, TypeOK, CoreTypeOK
    <3> QED BY <3>1, <3>2 DEF TypeOK, CoreTypeOK
  <2>3. ASSUME Finish(id) PROVE CoreTypeOK'
    BY <2>3 DEF Finish, Moves, TypeOK, CoreTypeOK, Stages
  <2>4. ASSUME Release(id) PROVE CoreTypeOK'
    BY <2>4 DEF Release, Moves, TypeOK, CoreTypeOK, Stages
  <2> QED BY <1>3, <2>1, <2>2, <2>3, <2>4
<1>4. ASSUME NEW id \in Ids, Answer(id)
      PROVE  PipesTypeOK' /\ CoreTypeOK'
  <2>1. Response(id, "ok") \in ToShellLines /\ Response(id, "error") \in ToShellLines
    BY LineTypes DEF Codes
  <2>2. toShell \in Seq(ToShellLines)
    BY DEF TypeOK, PipesTypeOK, ToShellLines
  <2>a. \A line \in ToShellLines : Append(toShell, line) \in Seq(ToShellLines)
    BY <2>2, AppendProperties
  <2>3. toShell' \in Seq(ToShellLines)
    BY <1>4, <2>1, <2>a DEF Answer
  <2> QED BY <1>4, <2>3 DEF Answer, Moves, TypeOK, PipesTypeOK, CoreTypeOK, Stages, ToShellLines
<1>5. CASE CoreEof \/ CoreKilled \/ CoreFails
  <2>1. process' \in {"exited", "crashed"} /\ CoreGone
    BY <1>5 DEF CoreEof, CoreKilled, CoreFails
  <2> QED BY <2>1 DEF CoreGone, TypeOK, PipesTypeOK, CoreTypeOK, Stages
<1> QED BY <1>1, <1>2, <1>3, <1>4, <1>5 DEF Core, Worker

LEMMA TypeStep == TypeOK /\ [Next]_vars => TypeOK'
<1> SUFFICES ASSUME TypeOK, [Next]_vars PROVE TypeOK'
  OBVIOUS
<1>1. CASE Shell
  <2>1. PipesTypeOK' /\ DataType'
    BY <1>1, ShellTypes
  <2>2. FlagsType'
    BY <1>1, FlagsKept, Halves DEF Next, TypeOK
  <2>3. ClientTypeOK'
    BY <2>1, <2>2, Zenon DEF ClientTypeOK, FlagsType, DataType
  <2>4. CoreTypeOK' /\ crashes' \in Nat
    BY <1>1 DEF Shell, core, TypeOK, CoreTypeOK
  <2> QED BY <2>1, <2>3, <2>4 DEF TypeOK
<1>2. CASE Core \/ CoreEof \/ CoreKilled \/ CoreFails
  <2>1. PipesTypeOK' /\ CoreTypeOK'
    BY <1>2, CoreTypes
  <2>2. ClientTypeOK'
    BY <1>2, Zenon DEF Core, CoreEof, CoreKilled, CoreFails, client, TypeOK, ClientTypeOK
  <2>3. crashes' \in Nat
    BY <1>2 DEF Core, CoreEof, CoreKilled, CoreFails, TypeOK
  <2> QED BY <2>1, <2>2, <2>3 DEF TypeOK
<1>3. CASE UNCHANGED vars
  <2>1. ClientTypeOK'
    BY <1>3, Zenon DEF vars, client, TypeOK, ClientTypeOK
  <2> QED BY <1>3, <2>1 DEF vars, pipes, core, TypeOK, PipesTypeOK, CoreTypeOK
<1> QED BY <1>1, <1>2, <1>3 DEF Next

-----------------------------------------------------------------------------
(* The inductive invariant *)

\* An element is in a sequence, and no more than once.
In(s, e) == \E k \in 1..Len(s) : s[k] = e
Once(s, e) == \A j, k \in 1..Len(s) : s[j] = e /\ s[k] = e => j = k

Asked(id) == In(toCore, Request(id))
Refusal(id) == In(toShell, Response(id, "busy"))

\* An id that was not handed out yet was never seen by the core.
FreshInv ==
  \A id \in Ids : id >= nextId =>
    id \notin active /\ executed[id] = 0 /\ ~Asked(id) /\ ~Refusal(id)

\* What ToldOnce needs of the ids not handed out and of a request still open.
LedgerInv ==
  /\ ToldOnce
  /\ \A id \in Ids :
       /\ id < nextId <=> method[id] # "none"
       /\ got[id] # "none" => method[id] # "none"
       /\ told[id] = 1 => got[id] # "none"
  /\ hello # 0 => method[hello] = "hello"
  /\ ReadyIsGreeted

\* A request is in one place: on its way to the core, refused and on its way
\* back, waiting for its retry, or at a worker, which runs it once.
PlaceInv ==
  \A id \in Ids :
    /\ Once(toCore, Request(id)) /\ Once(toShell, Response(id, "busy"))
    /\ Asked(id) => ~Refusal(id)
    /\ Asked(id) \/ Refusal(id) => id \notin retrying
    /\ Asked(id) \/ Refusal(id) \/ id \in retrying => executed[id] = 0 /\ id \notin active
    /\ id \in active <=> stage[id] # "none"
    /\ stage[id] = "begin" => executed[id] = 0
    /\ stage[id] \in {"running", "sayOk", "sayError"} => executed[id] = 1
    /\ executed[id] <= 1
    /\ In(toShell, Response(id, "ok")) \/ got[id] = "result" => executed[id] = 1

LEMMA EmptyIn == ASSUME NEW e PROVE ~In(<<>>, e) /\ Once(<<>>, e)
BY DEF In, Once

LEMMA AppendIn ==
  ASSUME NEW S, NEW s \in Seq(S), NEW f \in S, NEW e
  PROVE  /\ In(Append(s, f), e) <=> In(s, e) \/ e = f
         /\ Once(s, e) /\ (e = f => ~In(s, e)) => Once(Append(s, f), e)
<1> DEFINE t == Append(s, f)
<1>1. /\ Len(s) \in Nat /\ Len(t) = Len(s) + 1
      /\ \A k \in 1..Len(s) : t[k] = s[k]
      /\ t[Len(s) + 1] = f
  BY AppendProperties
<1>2. In(t, e) <=> In(s, e) \/ e = f
  BY <1>1 DEF In
<1>3. ASSUME Once(s, e), e = f => ~In(s, e) PROVE Once(t, e)
  BY <1>1, <1>3 DEF In, Once
<1> QED BY <1>2, <1>3

LEMMA TailIn ==
  ASSUME NEW S, NEW s \in Seq(S), s # <<>>, NEW e
  PROVE  /\ In(Tail(s), e) => In(s, e)
         /\ In(s, Head(s))
         /\ Once(s, e) => Once(Tail(s), e)
         /\ Once(s, e) /\ Head(s) = e => ~In(Tail(s), e)
<1> DEFINE t == Tail(s)
<1>1. /\ Len(s) \in Nat /\ Len(s) # 0 /\ Len(t) = Len(s) - 1
      /\ \A k \in 1..Len(t) : t[k] = s[k + 1]
      /\ Head(s) = s[1]
  BY HeadTailProperties
<1>2. In(t, e) => In(s, e)
  BY <1>1 DEF In
<1>3. In(s, Head(s))
  BY <1>1 DEF In
<1>4. ASSUME Once(s, e) PROVE Once(t, e)
  BY <1>1, <1>4 DEF Once
<1>5. ASSUME Once(s, e), Head(s) = e PROVE ~In(t, e)
  BY <1>1, <1>5 DEF In, Once
<1> QED BY <1>2, <1>3, <1>4, <1>5

LEMMA Distinct ==
  ASSUME NEW i, NEW j
  PROVE  /\ Request(i) = Request(j) => i = j
         /\ Request(i) # Cancel(j)
         /\ \A c, d : Response(i, c) = Response(j, d) => i = j /\ c = d
BY DEF Request, Cancel, Response

-----------------------------------------------------------------------------
(* What is told *)

LEMMA LedgerInit == Init => LedgerInv
BY Assumptions DEF Assumptions, Init, PipesInit, ClientInit, LedgerInv, ToldOnce, ReadyIsGreeted, Ids

\* A failure ends what is open, tells it, and may leave one new request.
LEMMA FailAllLedger ==
  ASSUME TypeOK, LedgerInv, NEW dropped, FailAll(dropped), dropped = {} \/ dropped = {hello},
         dropped \subseteq pending, hello' = hello, link' # "ready"
  PROVE  LedgerInv'
<1>1. /\ pending \subseteq Ids /\ got \in [Ids -> {"none", "result", "failure"}]
      /\ told \in [Ids -> Nat] /\ method \in [Ids -> Methods \cup {"none"}]
      /\ nextId \in 1..(MaxRequests + 1)
  BY DEF TypeOK, PipesTypeOK, ClientTypeOK
<1>2. \A id \in Ids : /\ got'[id] = IF id \in pending THEN "failure" ELSE got[id]
                      /\ told'[id] = IF id \in pending \ dropped THEN told[id] + 1 ELSE told[id]
  BY <1>1 DEF FailAll, Ended, Told
<1>3. \A id \in dropped : method[id] = "hello"
  BY <1>1, Assumptions DEF Assumptions, LedgerInv, Ids
<1>4. CASE pending' = {} /\ UNCHANGED <<nextId, toCore, method>>
  BY <1>1, <1>2, <1>3, <1>4 DEF LedgerInv, ToldOnce, ReadyIsGreeted
<1>5. CASE /\ NewId /\ pending' = {nextId} /\ nextId' = nextId + 1
           /\ method' = [method EXCEPT ![nextId] = "control"]
  <2>1. nextId \in Ids /\ method[nextId] = "none" /\ nextId \notin pending
    BY <1>1, <1>5, NewIdIsId DEF LedgerInv, ToldOnce
  <2>2. \A id \in Ids : method'[id] = IF id = nextId THEN "control" ELSE method[id]
    BY <1>1, <1>5
  <2>3. ToldOnce'
    BY <1>1, <1>2, <1>3, <1>5, <2>1, <2>2 DEF LedgerInv, ToldOnce
  <2>4. \A id \in Ids : id < nextId' <=> method'[id] # "none"
    BY <1>1, <1>5, <2>1, <2>2 DEF LedgerInv, Ids
  <2>5. \A id \in Ids : /\ got'[id] # "none" => method'[id] # "none"
                        /\ told'[id] = 1 => got'[id] # "none"
    BY <1>1, <1>2, <2>1, <2>2 DEF LedgerInv, ToldOnce
  <2>6. hello' # 0 => method'[hello'] = "hello"
    BY <2>1, <2>2 DEF LedgerInv, TypeOK, ClientTypeOK
  <2> QED BY <2>3, <2>4, <2>5, <2>6 DEF LedgerInv, ReadyIsGreeted
<1> QED BY <1>4, <1>5 DEF FailAll

LEMMA FailAllGoneLedger ==
  ASSUME TypeOK, LedgerInv, FailAllGone, hello' = hello, link' # "ready"
  PROVE  LedgerInv'
<1>1. \A id \in Ids : /\ got'[id] = IF id \in pending THEN "failure" ELSE got[id]
                      /\ told'[id] = IF id \in pending THEN told[id] + 1 ELSE told[id]
  BY DEF TypeOK, ClientTypeOK, FailAllGone, Ended, Told
<1> QED BY <1>1 DEF FailAllGone, LedgerInv, ToldOnce, ReadyIsGreeted, TypeOK, ClientTypeOK

\* One request ends; the handshake's result is what ready waits for.
LEMMA CompleteLedger ==
  ASSUME TypeOK, LedgerInv, NEW id, id \in pending, NEW end, end \in {"result", "failure"},
         Complete(id, end), UNCHANGED <<method, nextId, hello>>,
         link' = "ready" => link = "ready" \/ (id = hello /\ end = "result")
  PROVE  LedgerInv'
<1>1. id \in Ids /\ got[id] = "none"
  BY DEF TypeOK, ClientTypeOK, LedgerInv, ToldOnce
<1>2. \A i \in Ids : /\ got'[i] = IF i = id THEN end ELSE got[i]
                     /\ told'[i] = IF i = id THEN told[i] + 1 ELSE told[i]
  BY DEF TypeOK, ClientTypeOK, Complete, Ended, Told
<1>3. ReadyIsGreeted'
  <2>1. CASE link' = "ready" => link = "ready"
    BY <1>1, <1>2, <2>1 DEF LedgerInv, ReadyIsGreeted, TypeOK, ClientTypeOK
  <2>2. CASE id = hello /\ end = "result"
    BY <1>1, <1>2, <2>2, Assumptions DEF Assumptions, Ids, ReadyIsGreeted
  <2> QED BY <2>1, <2>2
<1>4. ToldOnce'
  <2>1. told[id] = 0 /\ method[id] # "none"
    BY <1>1 DEF LedgerInv, ToldOnce, TypeOK, ClientTypeOK
  <2>2. pending' = pending \ {id} /\ method' = method
    BY DEF Complete
  <2> QED BY <1>1, <1>2, <2>1, <2>2 DEF LedgerInv, ToldOnce
<1> QED BY <1>1, <1>2, <1>3, <1>4 DEF LedgerInv, ToldOnce, TypeOK, ClientTypeOK

\* What changes nothing of the ledger, and does not make the link ready, keeps it.
LEMMA SameLedger ==
  LedgerInv /\ UNCHANGED <<method, nextId, hello, pending, got, told>>
            /\ (link' = link \/ link' # "ready") => LedgerInv'
BY DEF LedgerInv, ToldOnce, ReadyIsGreeted

LEMMA LedgerStep == TypeOK /\ LedgerInv /\ [Next]_vars => LedgerInv'
<1> SUFFICES ASSUME TypeOK, LedgerInv, [Next]_vars PROVE LedgerInv'
  OBVIOUS
<1>1. CASE ShellStart \/ RestartFires
  BY <1>1, SameLedger DEF ShellStart, RestartFires, Start, pipes
<1>2. CASE Started
  <2>1. nextId \in Ids /\ method[nextId] = "none"
    BY <1>2, NewIdIsId DEF Started, LedgerInv, TypeOK, ClientTypeOK
  <2>2. got[nextId] = "none" /\ told[nextId] = 0 /\ nextId \notin pending
    BY <2>1 DEF LedgerInv, ToldOnce, TypeOK, ClientTypeOK
  <2>3. \A id \in Ids : method'[id] = IF id = nextId THEN "hello" ELSE method[id]
    BY <1>2 DEF Started, TypeOK, PipesTypeOK
  <2>4. \A id \in Ids : id < nextId' <=> method'[id] # "none"
    BY <1>2, <2>1, <2>3, Assumptions
       DEF Assumptions, Started, LedgerInv, TypeOK, ClientTypeOK, Ids
  <2>5. CASE blocked
    <3>1. \A id \in Ids : /\ got'[id] = IF id = nextId THEN "failure" ELSE got[id]
                          /\ told'[id] = IF id = nextId THEN told[id] + 1 ELSE told[id]
      BY <1>2, <2>1, <2>5 DEF Started, TypeOK, ClientTypeOK
    <3>2. hello' = 0 /\ link' = "handshaking" /\ UNCHANGED pending
      BY <1>2, <2>5 DEF Started
    <3> QED BY <2>2, <2>3, <2>4, <3>1, <3>2
            DEF LedgerInv, ToldOnce, ReadyIsGreeted, TypeOK, ClientTypeOK
  <2>6. CASE ~blocked
    <3>1. /\ hello' = nextId /\ link' = "handshaking" /\ pending' = pending \cup {nextId}
          /\ UNCHANGED <<got, told>>
      BY <1>2, <2>6 DEF Started
    <3> QED BY <2>1, <2>2, <2>3, <2>4, <3>1 DEF LedgerInv, ToldOnce, ReadyIsGreeted
  <2> QED BY <2>5, <2>6
<1>3. CASE FailedToStart
  BY <1>3, FailAllGoneLedger DEF FailedToStart
<1>4. CASE ProcessError
  BY <1>4, FailAllLedger DEF ProcessError
<1>5. CASE Finished
  BY <1>5, FailAllGoneLedger, SameLedger DEF Finished
<1>6. CASE Stop
  <2>1. CASE process = "none"
    BY <1>6, <2>1, SameLedger DEF Stop
  <2>2. CASE process # "none"
    BY <1>6, <2>2, FailAllLedger DEF Stop
  <2> QED BY <2>1, <2>2
<1>7. CASE Escalate \/ Discard
  BY <1>7, SameLedger DEF Escalate, Discard, client
<1>8. ASSUME NEW m \in {"control", "background"}, RequestSent(m)
      PROVE  LedgerInv'
  <2>1. nextId \in Ids /\ method[nextId] = "none"
    BY <1>8, NewIdIsId DEF RequestSent, LedgerInv, TypeOK, ClientTypeOK
  <2>2. got[nextId] = "none" /\ told[nextId] = 0 /\ nextId \notin pending
    BY <2>1 DEF LedgerInv, ToldOnce, TypeOK, ClientTypeOK
  <2>3. \A id \in Ids : method'[id] = IF id = nextId THEN m ELSE method[id]
    BY <1>8 DEF RequestSent, TypeOK, PipesTypeOK
  <2>4. \A id \in Ids : id < nextId' <=> method'[id] # "none"
    BY <1>8, <2>1, <2>3, Assumptions
       DEF Assumptions, RequestSent, LedgerInv, TypeOK, ClientTypeOK, Ids
  <2>5. /\ pending' = pending \cup {nextId} /\ UNCHANGED <<got, told, hello, link>>
    BY <1>8 DEF RequestSent
  <2>6. hello' # 0 => method'[hello'] = "hello"
    BY <2>1, <2>3, <2>5, Assumptions DEF Assumptions, LedgerInv, TypeOK, ClientTypeOK, Ids
  <2> QED BY <2>1, <2>2, <2>3, <2>4, <2>5, <2>6 DEF LedgerInv, ToldOnce, ReadyIsGreeted
<1>9. ASSUME NEW id \in Ids, CancelRequest(id)
      PROVE  LedgerInv'
  <2>1. /\ id \in pending /\ Complete(id, "failure")
        /\ UNCHANGED <<method, nextId, hello, link>>
    BY <1>9 DEF CancelRequest
  <2> QED BY <2>1, CompleteLedger
<1>10. ASSUME NEW dropped, ProtocolFailure(dropped), dropped = {} \/ dropped = {hello},
              dropped \subseteq pending
       PROVE  LedgerInv'
  BY <1>10, FailAllLedger DEF ProtocolFailure
<1>11. ASSUME NEW id \in Ids, Timeout(id)
       PROVE  LedgerInv'
  BY <1>9, <1>10, <1>11 DEF Timeout
<1>12. ASSUME NEW id \in Ids, Retry(id)
       PROVE  LedgerInv'
  <2>1. id \in pending /\ UNCHANGED <<method, nextId, hello, link>>
    BY <1>12 DEF Retry
  <2>2. CASE Complete(id, "failure")
    BY <2>1, <2>2, CompleteLedger
  <2>3. CASE UNCHANGED <<pending, got, told>>
    BY <2>1, <2>3, SameLedger
  <2> QED BY <1>12, <2>2, <2>3 DEF Retry
<1>13. CASE ReadLine
  <2> DEFINE id == Head(toShell).id
             code == Head(toShell).code
  <2>1. CASE id \in pending /\ id = hello /\ ProtocolFailure({id})
    BY <1>10, <2>1
  <2>2. CASE UNCHANGED <<method, nextId, hello, link, pending, got, told>>
    BY <2>2, SameLedger
  <2>3. CASE /\ id \in pending /\ Complete(id, "result") /\ UNCHANGED <<method, nextId, hello>>
             /\ link' = IF id = hello THEN "ready" ELSE link
    BY <2>3, CompleteLedger
  <2>4. CASE /\ id \in pending /\ Complete(id, "failure")
             /\ UNCHANGED <<method, nextId, hello, link>>
    BY <2>4, CompleteLedger
  <2> QED BY <1>13, <2>1, <2>2, <2>3, <2>4 DEF ReadLine
<1>14. CASE BadLine
  BY <1>14, <1>10 DEF BadLine
<1>15. CASE Core
  BY <1>15, SameLedger DEF Core, client, ReadRequest, ReadCancel, Worker, Begin, Finish,
     Answer, Release, pipes
<1>16. CASE CoreEof \/ CoreKilled \/ CoreFails \/ UNCHANGED vars
  BY <1>16, SameLedger DEF CoreEof, CoreKilled, CoreFails, CoreGone, vars, client, pipes
<1> QED BY <1>1, <1>2, <1>3, <1>4, <1>5, <1>6, <1>7, <1>8, <1>9, <1>11, <1>12, <1>13, <1>14,
           <1>15, <1>16 DEF Next, Shell

-----------------------------------------------------------------------------
(* Where a request is *)

LEMMA PlaceInit == Init => FreshInv /\ PlaceInv
<1> SUFFICES ASSUME Init PROVE FreshInv /\ PlaceInv
  OBVIOUS
<1>1. \A e : ~In(toCore, e) /\ ~In(toShell, e) /\ Once(toCore, e) /\ Once(toShell, e)
  BY EmptyIn DEF Init, PipesInit
<1>2. /\ active = {} /\ retrying = {} /\ \A id \in Ids : stage[id] = "none" /\ executed[id] = 0
      /\ \A id \in Ids : got[id] = "none"
  BY DEF Init, CoreInit, ClientInit
<1> QED BY <1>1, <1>2 DEF FreshInv, PlaceInv, Asked, Refusal

\* What a step of the shell does to the places: it may write one request, a new
\* one or one that waits for its retry (n, 0 for none), and read one line.
Writes(n) ==
  /\ (n = nextId /\ NewId /\ nextId' = nextId + 1) \/ n \in retrying
  /\ toCore' = Append(toCore, Request(n))
  /\ n \notin retrying'

WritesNone ==
  \/ toCore' = toCore
  \/ \E id \in Ids : toCore' = Append(toCore, Cancel(id))

Reads ==
  /\ toShell # <<>> /\ toShell' = Tail(toShell)
  /\ \A id \in Ids :
       /\ id \in retrying' => id \in retrying \/ Head(toShell) = Response(id, "busy")
       /\ got'[id] = "result" => got[id] = "result" \/ Head(toShell) = Response(id, "ok")

ReadsNone ==
  /\ toShell' \in {toShell, <<>>}
  /\ \A id \in Ids :
       /\ id \in retrying' => id \in retrying
       /\ got'[id] = "result" => got[id] = "result"

ShellEffect ==
  /\ UNCHANGED core
  /\ nextId' \in {nextId, nextId + 1}
  /\ WritesNone \/ \E n \in Ids : Writes(n)
  /\ Reads \/ ReadsNone

\* Only the request that is written is on its way anew, and it was nowhere.
LEMMA WritesPlaces ==
  ASSUME TypeOK, LedgerInv, FreshInv, PlaceInv, NEW id \in Ids,
         WritesNone \/ \E n \in Ids : Writes(n), nextId' \in {nextId, nextId + 1}
  PROVE  /\ Once(toCore, Request(id))'
         /\ Asked(id)' => \/ Asked(id)
                          \/ /\ ~Refusal(id) /\ executed[id] = 0 /\ id \notin active
                             /\ id \notin retrying' /\ id < nextId'
<1>1. toCore \in Seq(ToCoreLines) /\ Once(toCore, Request(id))
  BY DEF TypeOK, PipesTypeOK, ToCoreLines, PlaceInv
<1>2. CASE toCore' = toCore
  BY <1>1, <1>2 DEF Asked
<1>3. ASSUME NEW c \in Ids, toCore' = Append(toCore, Cancel(c))
      PROVE  Once(toCore, Request(id))' /\ (Asked(id)' => Asked(id))
  <2>1. Cancel(c) \in ToCoreLines /\ Request(id) # Cancel(c)
    BY LineTypes, Distinct
  <2> QED BY <1>1, <1>3, <2>1, AppendIn DEF Asked
<1>4. ASSUME NEW n \in Ids, Writes(n)
      PROVE  /\ Once(toCore, Request(id))'
             /\ Asked(id)' => \/ Asked(id)
                              \/ /\ ~Refusal(id) /\ executed[id] = 0 /\ id \notin active
                                 /\ id \notin retrying' /\ id < nextId'
  <2>1. Request(n) \in ToCoreLines /\ toCore' = Append(toCore, Request(n))
    BY <1>4, LineTypes DEF Writes
  <2>2. ~Asked(n) /\ ~Refusal(n) /\ executed[n] = 0 /\ n \notin active /\ n \notin retrying'
    BY <1>4 DEF Writes, PlaceInv, FreshInv, TypeOK, ClientTypeOK
  <2>3. n < nextId'
    <3>1. CASE n = nextId /\ nextId' = nextId + 1
      BY <3>1 DEF TypeOK, ClientTypeOK
    <3>2. CASE n \in retrying
      <4>1. method[n] # "none"
        BY <3>2 DEF TypeOK, ClientTypeOK, LedgerInv, ToldOnce
      <4>2. n < nextId
        BY <4>1 DEF LedgerInv
      <4> QED BY <4>2 DEF TypeOK, ClientTypeOK, Ids
    <3> QED BY <1>4, <3>1, <3>2 DEF Writes
  <2>4. CASE id = n
    BY <1>1, <2>1, <2>2, <2>3, <2>4, AppendIn DEF Asked
  <2>5. CASE id # n
    <3>1. Request(id) # Request(n)
      BY <2>5, Distinct
    <3> QED BY <1>1, <2>1, <3>1, AppendIn DEF Asked
  <2> QED BY <2>4, <2>5
<1> QED BY <1>2, <1>3, <1>4 DEF WritesNone

\* A line that is read is gone, and nothing else arrives at the shell.
LEMMA ReadsPlaces ==
  ASSUME TypeOK, PlaceInv, Reads \/ ReadsNone, NEW id \in Ids
  PROVE  /\ Once(toShell, Response(id, "busy"))'
         /\ Refusal(id)' => Refusal(id) /\ (id \in retrying' => id \in retrying)
         /\ In(toShell, Response(id, "ok"))' => In(toShell, Response(id, "ok"))
         /\ id \in retrying' => id \in retrying \/ Refusal(id)
         /\ got'[id] = "result" => got[id] = "result" \/ In(toShell, Response(id, "ok"))
<1>1. toShell \in Seq(ToShellLines) /\ Once(toShell, Response(id, "busy"))
  BY DEF TypeOK, PipesTypeOK, ToShellLines, PlaceInv
<1>2. CASE Reads
  BY <1>1, <1>2, TailIn DEF Reads, Refusal
<1>3. CASE ReadsNone
  BY <1>1, <1>3, EmptyIn DEF ReadsNone, Refusal
<1> QED BY <1>2, <1>3

LEMMA ShellEffectKeeps ==
  ASSUME TypeOK, LedgerInv, FreshInv, PlaceInv, ShellEffect
  PROVE  FreshInv' /\ PlaceInv'
<1>1. UNCHANGED <<active, stage, executed>> /\ nextId' >= nextId
  BY DEF ShellEffect, core, TypeOK, ClientTypeOK
<1>2. ASSUME NEW id \in Ids
      PROVE  /\ Once(toCore, Request(id))'
             /\ Asked(id)' => \/ Asked(id)
                              \/ /\ ~Refusal(id) /\ executed[id] = 0 /\ id \notin active
                                 /\ id \notin retrying' /\ id < nextId'
  BY WritesPlaces DEF ShellEffect
<1>3. ASSUME NEW id \in Ids
      PROVE  /\ Once(toShell, Response(id, "busy"))'
             /\ Refusal(id)' => Refusal(id) /\ (id \in retrying' => id \in retrying)
             /\ In(toShell, Response(id, "ok"))' => In(toShell, Response(id, "ok"))
             /\ id \in retrying' => id \in retrying \/ Refusal(id)
             /\ got'[id] = "result" => got[id] = "result" \/ In(toShell, Response(id, "ok"))
  BY ReadsPlaces DEF ShellEffect
<1>4. FreshInv'
  <2> SUFFICES ASSUME NEW id \in Ids, id >= nextId'
               PROVE  id \notin active /\ executed[id] = 0 /\ ~Asked(id)' /\ ~Refusal(id)'
    BY <1>1 DEF FreshInv
  <2>1. id >= nextId /\ ~(id < nextId')
    BY DEF ShellEffect, TypeOK, ClientTypeOK, Ids
  <2>2. id \notin active /\ executed[id] = 0 /\ ~Asked(id) /\ ~Refusal(id)
    BY <2>1 DEF FreshInv
  <2> QED BY <1>2, <1>3, <2>1, <2>2
<1>5. PlaceInv'
  <2> SUFFICES ASSUME NEW id \in Ids
               PROVE  /\ Once(toCore, Request(id))' /\ Once(toShell, Response(id, "busy"))'
                      /\ Asked(id)' => ~Refusal(id)'
                      /\ Asked(id)' \/ Refusal(id)' => id \notin retrying'
                      /\ Asked(id)' \/ Refusal(id)' \/ id \in retrying' =>
                           executed[id] = 0 /\ id \notin active
                      /\ In(toShell, Response(id, "ok"))' \/ got'[id] = "result" => executed[id] = 1
    BY <1>1 DEF PlaceInv
  <2>1. /\ Asked(id) => ~Refusal(id)
        /\ Asked(id) \/ Refusal(id) => id \notin retrying
        /\ Asked(id) \/ Refusal(id) \/ id \in retrying => executed[id] = 0 /\ id \notin active
        /\ In(toShell, Response(id, "ok")) \/ got[id] = "result" => executed[id] = 1
    BY DEF PlaceInv
  <2> QED BY <1>2, <1>3, <2>1
<1> QED BY <1>4, <1>5

\* What keeps the promises of the shell as they are, or ends some as failures.
Unmoved ==
  \A id \in Ids : /\ id \in retrying' => id \in retrying
                  /\ got'[id] = "result" => got[id] = "result"

LEMMA FailAllEffect ==
  ASSUME TypeOK, NEW dropped, FailAll(dropped)
  PROVE  /\ nextId' \in {nextId, nextId + 1}
         /\ WritesNone \/ \E n \in Ids : Writes(n)
         /\ Unmoved
<1>1. Unmoved
  BY DEF FailAll, Ended, Unmoved
<1>2. CASE UNCHANGED <<nextId, toCore, method>>
  BY <1>1, <1>2 DEF WritesNone
<1>3. CASE NewId /\ nextId' = nextId + 1 /\ Send(Request(nextId))
  <2>1. nextId \in Ids /\ retrying' = {}
    BY <1>3, NewIdIsId DEF FailAll
  <2> QED BY <1>1, <1>3, <2>1 DEF Send, Writes, WritesNone
<1> QED BY <1>1, <1>2, <1>3 DEF FailAll

LEMMA CompleteEffect ==
  ASSUME TypeOK, NEW id, NEW end, Complete(id, end)
  PROVE  /\ \A i \in Ids : i \in retrying' => i \in retrying
         /\ \A i \in Ids : got'[i] = "result" => got[i] = "result" \/ (i = id /\ end = "result")
BY DEF Complete, Ended

LEMMA ShellHasEffect == TypeOK /\ LedgerInv /\ Shell => ShellEffect
<1> SUFFICES ASSUME TypeOK, LedgerInv, Shell PROVE ShellEffect
  OBVIOUS
<1>a. UNCHANGED core
  BY DEF Shell
<1>b. ASSUME nextId' \in {nextId, nextId + 1}, WritesNone \/ \E n \in Ids : Writes(n), Unmoved,
             toShell' \in {toShell, <<>>}
      PROVE  ShellEffect
  BY <1>a, <1>b DEF ShellEffect, ReadsNone, Unmoved
<1>c. UNCHANGED <<retrying, got>> => Unmoved
  BY DEF Unmoved
<1>d. NewId => nextId \in Ids /\ nextId \notin retrying
  <2>1. NewId => nextId \in Ids /\ method[nextId] = "none"
    BY NewIdIsId DEF LedgerInv, TypeOK, ClientTypeOK
  <2> QED BY <2>1 DEF LedgerInv, ToldOnce, TypeOK, ClientTypeOK
<1>1. CASE ShellStart \/ RestartFires
  BY <1>1, <1>b, <1>c DEF ShellStart, RestartFires, Start, WritesNone, pipes
<1>2. CASE Started
  <2>1. nextId \in Ids /\ nextId' = nextId + 1 /\ toShell' = toShell /\ retrying' = retrying
    BY <1>2, NewIdIsId DEF Started
  <2>2. Unmoved
    BY <1>2 DEF Started, Unmoved, TypeOK, ClientTypeOK
  <2>3. CASE blocked
    BY <1>2, <1>b, <2>1, <2>2, <2>3 DEF Started, WritesNone
  <2>4. CASE ~blocked
    BY <1>2, <1>b, <1>d, <2>1, <2>2, <2>4 DEF Started, Writes
  <2> QED BY <2>3, <2>4
<1>3. CASE FailedToStart
  BY <1>3, <1>b DEF FailedToStart, FailAllGone, Ended, Unmoved, WritesNone
<1>4. CASE ProcessError
  BY <1>4, <1>b, FailAllEffect DEF ProcessError
<1>5. CASE Finished
  BY <1>5, <1>b, <1>c DEF Finished, FailAllGone, Ended, Unmoved, WritesNone
<1>6. CASE Stop
  <2>1. CASE process = "none"
    BY <1>6, <2>1, <1>b, <1>c DEF Stop, WritesNone
  <2>2. CASE process # "none"
    BY <1>6, <2>2, <1>b, FailAllEffect DEF Stop
  <2> QED BY <2>1, <2>2
<1>7. CASE Escalate \/ Discard
  BY <1>7, <1>b, <1>c DEF Escalate, Discard, client, WritesNone
<1>8. ASSUME NEW m \in {"control", "background"}, RequestSent(m)
      PROVE  ShellEffect
  <2>1. nextId \in Ids /\ nextId' = nextId + 1 /\ UNCHANGED <<toShell, retrying, got>>
    BY <1>8, NewIdIsId DEF RequestSent
  <2> QED BY <1>8, <2>1, <1>b, <1>c, <1>d DEF RequestSent, Send, Writes, WritesNone
<1>9. ASSUME NEW id \in Ids, CancelRequest(id)
      PROVE  ShellEffect
  <2>1. Unmoved
    BY <1>9, CompleteEffect DEF CancelRequest, Unmoved
  <2> QED BY <1>9, <2>1, <1>b DEF CancelRequest, Send, WritesNone
<1>10. ASSUME NEW id \in Ids, Timeout(id)
       PROVE  ShellEffect
  <2>1. CASE ProtocolFailure({id}) /\ UNCHANGED toShell
    BY <2>1, <1>b, FailAllEffect DEF ProtocolFailure
  <2> QED BY <1>9, <1>10, <2>1 DEF Timeout
<1>11. ASSUME NEW id \in Ids, Retry(id)
       PROVE  ShellEffect
  <2>1. UNCHANGED <<toShell, nextId>> /\ id \in retrying
    BY <1>11 DEF Retry
  <2>2. CASE Send(Request(id)) /\ retrying' = retrying \ {id} /\ UNCHANGED <<pending, got, told>>
    BY <2>1, <2>2, <1>b DEF Send, Writes, WritesNone, Unmoved
  <2>3. CASE Complete(id, "failure") /\ UNCHANGED toCore
    <3>1. Unmoved
      BY <2>3, CompleteEffect DEF Unmoved
    <3> QED BY <2>1, <2>3, <3>1, <1>b DEF WritesNone
  <2> QED BY <1>11, <2>2, <2>3 DEF Retry
<1>12. CASE ReadLine
  <2> DEFINE id == Head(toShell).id
             code == Head(toShell).code
  <2>1. toShell # <<>> /\ toShell' = Tail(toShell) /\ id \in Ids /\ code \in Codes
        /\ Head(toShell) = Response(id, code)
    BY <1>12, HeadTypes DEF ReadLine, ToShellLines, Response
  <2>2. ASSUME nextId' \in {nextId, nextId + 1}, WritesNone \/ \E n \in Ids : Writes(n),
               \A i \in Ids :
                 /\ i \in retrying' => i \in retrying \/ (i = id /\ code = "busy")
                 /\ got'[i] = "result" => got[i] = "result" \/ (i = id /\ code = "ok")
        PROVE  ShellEffect
    BY <1>a, <2>1, <2>2 DEF ShellEffect, Reads
  <2>3. CASE ProtocolFailure({id})
    BY <2>2, <2>3, FailAllEffect DEF ProtocolFailure, Unmoved
  <2>4. CASE /\ UNCHANGED <<toCore, nextId, got>>
             /\ \/ UNCHANGED retrying
                \/ code = "busy" /\ retrying' = retrying \cup {id}
    BY <2>2, <2>4 DEF WritesNone
  <2>5. CASE /\ UNCHANGED <<toCore, nextId>>
             /\ \/ code = "ok" /\ Complete(id, "result")
                \/ Complete(id, "failure")
    <3>1. \A i \in Ids :
            /\ i \in retrying' => i \in retrying
            /\ got'[i] = "result" => got[i] = "result" \/ (i = id /\ code = "ok")
      BY <2>5 DEF Complete, Ended
    <3> QED BY <2>2, <2>5, <3>1 DEF WritesNone
  <2> QED BY <1>12, <2>3, <2>4, <2>5 DEF ReadLine
<1>13. CASE BadLine
  BY <1>13, <1>b, FailAllEffect DEF BadLine, ProtocolFailure
<1> QED BY <1>1, <1>2, <1>3, <1>4, <1>5, <1>6, <1>7, <1>8, <1>9, <1>10, <1>11, <1>12, <1>13
        DEF Shell

\* A request that the core reads is on its way no longer.
LEMMA ReadPlaces ==
  ASSUME TypeOK, PlaceInv, toCore # <<>>, toCore' = Tail(toCore), NEW id \in Ids
  PROVE  /\ Once(toCore, Request(id))'
         /\ Asked(id)' => Asked(id)
         /\ Head(toCore) = Request(id) => Asked(id) /\ ~Asked(id)'
<1>1. toCore \in Seq(ToCoreLines) /\ Once(toCore, Request(id))
  BY DEF TypeOK, PipesTypeOK, ToCoreLines, PlaceInv
<1> QED BY <1>1, TailIn DEF Asked

\* An answer of the core adds itself to what is on its way back.
LEMMA AnswerPlaces ==
  ASSUME TypeOK, PlaceInv, NEW n \in Ids, NEW code \in Codes,
         toShell' = Append(toShell, Response(n, code)), NEW id \in Ids
  PROVE  /\ Refusal(id)' <=> Refusal(id) \/ (id = n /\ code = "busy")
         /\ In(toShell, Response(id, "ok"))' <=> In(toShell, Response(id, "ok")) \/ (id = n /\ code = "ok")
         /\ ~(id = n /\ code = "busy" /\ Refusal(id)) => Once(toShell, Response(id, "busy"))'
<1>1. toShell \in Seq(ToShellLines) /\ Once(toShell, Response(id, "busy"))
      /\ Response(n, code) \in ToShellLines
  BY LineTypes DEF TypeOK, PipesTypeOK, ToShellLines, PlaceInv
<1>2. \A c \in Codes : Response(id, c) = Response(n, code) <=> id = n /\ c = code
  BY DEF Response
<1> QED BY <1>1, <1>2, AppendIn DEF Refusal, Codes

LEMMA CorePlaces ==
  ASSUME TypeOK, FreshInv, PlaceInv, Core
  PROVE  FreshInv' /\ PlaceInv'
<1>1. UNCHANGED <<retrying, got, nextId>>
  BY DEF Core, client
<1>2. CASE ReadRequest
  <2> DEFINE n == Head(toCore).id
  <2>1. n \in Ids /\ Head(toCore) = Request(n) /\ toCore # <<>> /\ toCore' = Tail(toCore)
        /\ UNCHANGED executed
    BY <1>2, HeadTypes DEF ReadRequest, ToCoreLines, Request
  <2>2. Asked(n) /\ ~Refusal(n) /\ n \notin retrying /\ executed[n] = 0 /\ n \notin active
    BY <2>1, ReadPlaces DEF PlaceInv
  <2>3. \A id \in Ids : /\ Once(toCore, Request(id))' /\ (Asked(id)' => Asked(id))
                        /\ id = n => ~Asked(id)'
    BY <2>1, ReadPlaces
  <2>4. n < nextId
    <3>1. n >= nextId => ~Asked(n)
      BY <2>1 DEF FreshInv
    <3>2. n \in Nat /\ nextId \in Nat
      BY <2>1 DEF TypeOK, ClientTypeOK, Ids
    <3> QED BY <2>2, <3>1, <3>2
  <2>5. CASE Refused(n)
    <3>1. toShell' = Append(toShell, Response(n, "busy")) /\ UNCHANGED <<active, stage>>
      BY <1>2, <2>5 DEF ReadRequest, Admit
    <3>2. "busy" \in Codes
      BY DEF Codes
    <3>3. \A id \in Ids : /\ Once(toShell, Response(id, "busy"))'
                          /\ Refusal(id)' <=> Refusal(id) \/ id = n
                          /\ In(toShell, Response(id, "ok"))' <=> In(toShell, Response(id, "ok"))
      BY <2>1, <2>2, <3>1, <3>2, AnswerPlaces
    <3>4. FreshInv'
      BY <1>1, <2>1, <2>3, <2>4, <3>1, <3>3 DEF FreshInv, TypeOK, ClientTypeOK, Ids
    <3>5. PlaceInv'
      BY <1>1, <2>1, <2>2, <2>3, <3>1, <3>3 DEF PlaceInv
    <3> QED BY <3>4, <3>5
  <2>6. CASE ~Refused(n)
    <3>1. /\ active' = active \cup {n} /\ UNCHANGED toShell
          /\ \A id \in Ids : stage'[id] = IF id = n THEN "begin" ELSE stage[id]
      BY <1>2, <2>1, <2>6 DEF ReadRequest, Admit, TypeOK, CoreTypeOK
    <3>2. \A id \in Ids : Refusal(id)' <=> Refusal(id)
      BY <3>1 DEF Refusal
    <3>3. FreshInv'
      BY <1>1, <2>1, <2>3, <2>4, <3>1, <3>2 DEF FreshInv, TypeOK, ClientTypeOK, Ids
    <3>4. PlaceInv'
      BY <1>1, <2>1, <2>2, <2>3, <3>1, <3>2 DEF PlaceInv
    <3> QED BY <3>3, <3>4
  <2> QED BY <2>5, <2>6
<1>3. CASE ReadCancel
  <2>1. \A id \in Ids : Once(toCore, Request(id))' /\ (Asked(id)' => Asked(id))
    BY <1>3, ReadPlaces DEF ReadCancel
  <2>2. UNCHANGED <<toShell, active, stage, executed>> /\ \A id \in Ids : Refusal(id)' <=> Refusal(id)
    BY <1>3 DEF ReadCancel, Refusal
  <2> QED BY <1>1, <2>1, <2>2 DEF FreshInv, PlaceInv
<1>4. ASSUME NEW n \in Ids, Begin(n) \/ Finish(n) \/ Release(n)
      PROVE  FreshInv' /\ PlaceInv'
  <2>1. UNCHANGED <<toCore, toShell>>
        /\ \A id \in Ids : (Asked(id)' <=> Asked(id)) /\ (Refusal(id)' <=> Refusal(id))
    BY <1>4 DEF Begin, Finish, Release, pipes, Asked, Refusal
  <2>2. n \in active
    BY <1>4 DEF Begin, Finish, Release, Moves, PlaceInv
  <2>3. n < nextId
    <3>1. n >= nextId => n \notin active
      BY <1>4 DEF FreshInv
    <3> QED BY <2>2, <3>1, Assumptions DEF Assumptions, TypeOK, ClientTypeOK, Ids
  <2>4. \A id \in Ids \ {n} : /\ stage'[id] = stage[id] /\ executed'[id] = executed[id]
                              /\ id \in active' <=> id \in active
    BY <1>4 DEF Begin, Finish, Release, Moves, TypeOK, CoreTypeOK
  <2>5. ~Asked(n) /\ ~Refusal(n) /\ n \notin retrying
    BY <2>2 DEF PlaceInv
  <2>6. /\ n \in active' <=> stage'[n] # "none"
        /\ stage'[n] = "begin" => executed'[n] = 0
        /\ stage'[n] \in {"running", "sayOk", "sayError"} => executed'[n] = 1
        /\ executed'[n] <= 1 /\ (executed[n] = 1 => executed'[n] = 1)
    <3>1. CASE Begin(n)
      BY <2>2, <3>1 DEF Begin, Moves, PlaceInv, TypeOK, CoreTypeOK
    <3>2. CASE Finish(n)
      BY <2>2, <3>2 DEF Finish, Moves, PlaceInv, TypeOK, CoreTypeOK
    <3>3. CASE Release(n)
      BY <2>2, <3>3 DEF Release, Moves, PlaceInv, TypeOK, CoreTypeOK
    <3> QED BY <1>4, <3>1, <3>2, <3>3
  <2>7. FreshInv'
    BY <1>1, <2>1, <2>3, <2>4 DEF FreshInv, TypeOK, ClientTypeOK, Ids
  <2>8. PlaceInv'
    <3> SUFFICES ASSUME NEW id \in Ids
                 PROVE  /\ Once(toCore, Request(id)) /\ Once(toShell, Response(id, "busy"))
                        /\ Asked(id) => ~Refusal(id)
                        /\ Asked(id) \/ Refusal(id) => id \notin retrying
                        /\ Asked(id) \/ Refusal(id) \/ id \in retrying =>
                             executed'[id] = 0 /\ id \notin active'
                        /\ id \in active' <=> stage'[id] # "none"
                        /\ stage'[id] = "begin" => executed'[id] = 0
                        /\ stage'[id] \in {"running", "sayOk", "sayError"} => executed'[id] = 1
                        /\ executed'[id] <= 1
                        /\ In(toShell, Response(id, "ok")) \/ got[id] = "result" => executed'[id] = 1
      BY <1>1, <2>1 DEF PlaceInv
    <3>1. CASE id = n
      BY <2>5, <2>6, <3>1 DEF PlaceInv
    <3>2. CASE id # n
      BY <2>4, <3>2 DEF PlaceInv
    <3> QED BY <3>1, <3>2
  <2> QED BY <2>7, <2>8
<1>5. ASSUME NEW n \in Ids, Answer(n)
      PROVE  FreshInv' /\ PlaceInv'
  <2>1. PICK code \in {"ok", "error"} : toShell' = Append(toShell, Response(n, code))
    BY <1>5 DEF Answer
  <2>2. /\ n \in active /\ executed[n] = 1 /\ UNCHANGED <<toCore, active, executed>>
        /\ \A id \in Ids : stage'[id] = IF id = n THEN "done" ELSE stage[id]
    BY <1>5 DEF Answer, Moves, PlaceInv, TypeOK, CoreTypeOK
  <2>3. \A id \in Ids :
          /\ Once(toShell, Response(id, "busy"))' /\ (Refusal(id)' <=> Refusal(id))
          /\ In(toShell, Response(id, "ok"))' => In(toShell, Response(id, "ok")) \/ id = n
    BY <2>1, AnswerPlaces DEF Codes
  <2>4. \A id \in Ids : Asked(id)' <=> Asked(id)
    BY <2>2 DEF Asked
  <2>5. FreshInv'
    BY <1>1, <2>2, <2>3, <2>4 DEF FreshInv
  <2>6. PlaceInv'
    BY <1>1, <2>2, <2>3, <2>4 DEF PlaceInv
  <2> QED BY <2>5, <2>6
<1> QED BY <1>2, <1>3, <1>4, <1>5 DEF Core, Worker

LEMMA GonePlaces ==
  ASSUME TypeOK, FreshInv, PlaceInv, CoreGone, UNCHANGED client
  PROVE  FreshInv' /\ PlaceInv'
<1>1. /\ UNCHANGED <<toShell, executed, retrying, got, nextId>> /\ active' = {}
      /\ \A id \in Ids : stage'[id] = "none" /\ ~Asked(id)' /\ Once(toCore, Request(id))'
      /\ \A id \in Ids : Refusal(id)' <=> Refusal(id)
  BY EmptyIn DEF CoreGone, client, Asked, Refusal
<1> QED BY <1>1 DEF FreshInv, PlaceInv

LEMMA PlaceStep ==
  TypeOK /\ LedgerInv /\ FreshInv /\ PlaceInv /\ [Next]_vars => FreshInv' /\ PlaceInv'
<1> SUFFICES ASSUME TypeOK, LedgerInv, FreshInv, PlaceInv, [Next]_vars
             PROVE  FreshInv' /\ PlaceInv'
  OBVIOUS
<1>1. CASE Shell
  BY <1>1, ShellHasEffect, ShellEffectKeeps
<1>2. CASE Core
  BY <1>2, CorePlaces
<1>3. CASE CoreEof \/ CoreKilled \/ CoreFails
  BY <1>3, GonePlaces DEF CoreEof, CoreKilled, CoreFails
<1>4. CASE UNCHANGED vars
  <2>1. /\ UNCHANGED <<toCore, toShell, active, stage, executed, retrying, got, nextId>>
        /\ \A id \in Ids : (Asked(id)' <=> Asked(id)) /\ (Refusal(id)' <=> Refusal(id))
    BY <1>4 DEF vars, pipes, core, client, Asked, Refusal
  <2> QED BY <2>1 DEF FreshInv, PlaceInv
<1> QED BY <1>1, <1>2, <1>3, <1>4 DEF Next

-----------------------------------------------------------------------------
(* The workers *)

LEMMA FiniteActive ==
  ASSUME TypeOK
  PROVE  \A s \in SUBSET active : IsFiniteSet(s) /\ Cardinality(s) \in Nat
                                  /\ \A t \in SUBSET s : Cardinality(t) <= Cardinality(s)
<1>1. IsFiniteSet(Ids)
  BY FS_Interval, Assumptions DEF Assumptions, Ids
<1>2. active \in SUBSET Ids
  BY DEF TypeOK, CoreTypeOK
<1>3. IsFiniteSet(active)
  BY <1>1, <1>2, FS_Subset
<1>4. \A s \in SUBSET active : IsFiniteSet(s)
  BY <1>3, FS_Subset
<1>5. \A s \in SUBSET active : \A t \in SUBSET s : Cardinality(t) <= Cardinality(s)
  BY <1>4, FS_Subset
<1>6. \A s \in SUBSET active : Cardinality(s) \in Nat
  BY <1>4, FS_CardinalityType
<1> QED BY <1>4, <1>5, <1>6

LEMMA ReserveStep ==
  TypeOK /\ LedgerInv /\ FreshInv /\ ControlReserve /\ [Next]_vars => ControlReserve'
<1> SUFFICES ASSUME TypeOK, LedgerInv, FreshInv, ControlReserve, [Next]_vars PROVE ControlReserve'
  OBVIOUS
<1>1. Background \subseteq active
  BY DEF Background
<1>2. CASE ReadRequest
  <2> DEFINE n == Head(toCore).id
  <2>1. CASE Refused(n)
    BY <1>2, <2>1 DEF ReadRequest, Admit, ControlReserve, Background
  <2>2. CASE ~Refused(n)
    <3>1. active' = active \cup {n} /\ method' = method /\ n \notin active
          /\ Cardinality(active) < MaxActive
      BY <1>2, <2>2, FiniteActive, Assumptions DEF Assumptions, ReadRequest, Admit, Refused
    <3>2. IsFiniteSet(active) /\ IsFiniteSet(Background)
      BY <1>1, FiniteActive
    <3>3. Cardinality(active') = Cardinality(active) + 1
      BY <3>1, <3>2, FS_AddElement
    <3>4. CASE method[n] = "background"
      <4>1. Background' = Background \cup {n} /\ n \notin Background
        BY <3>1, <3>4 DEF Background
      <4>2. Cardinality(Background') = Cardinality(Background) + 1
        BY <3>2, <4>1, FS_AddElement
      <4>3. Cardinality(Background) < MaxBackground
        BY <2>2, <3>4, <1>1, FiniteActive, Assumptions DEF Assumptions, Refused
      <4> QED BY <1>1, <3>1, <3>3, <4>2, <4>3, FiniteActive, Assumptions
              DEF Assumptions, ControlReserve
    <3>5. CASE method[n] # "background"
      <4>1. Background' = Background
        BY <3>1, <3>5 DEF Background
      <4> QED BY <3>1, <3>3, <4>1, FiniteActive, Assumptions DEF Assumptions, ControlReserve
    <3> QED BY <3>4, <3>5
  <2> QED BY <2>1, <2>2
<1>3. CASE active' \subseteq active /\ \A id \in active : method'[id] = method[id]
  <2>1. Background' \subseteq Background
    BY <1>3 DEF Background
  <2>2. Cardinality(active') <= Cardinality(active) /\ Cardinality(Background') <= Cardinality(Background)
        /\ Cardinality(active) \in Nat /\ Cardinality(Background) \in Nat
        /\ Cardinality(active') \in Nat /\ Cardinality(Background') \in Nat
    BY <1>1, <1>3, <2>1, FiniteActive
  <2> QED BY <2>2, Assumptions DEF Assumptions, ControlReserve
<1>4. CASE Core /\ ~ReadRequest
  BY <1>3, <1>4 DEF Core, ReadCancel, Worker, Begin, Finish, Answer, Release, pipes
<1>5. CASE CoreEof \/ CoreKilled \/ CoreFails \/ UNCHANGED vars
  BY <1>3, <1>5 DEF CoreEof, CoreKilled, CoreFails, CoreGone, vars, core, pipes
<1>6. CASE Shell
  <2>1. UNCHANGED active /\ nextId \notin active
    BY <1>6 DEF Shell, core, FreshInv, TypeOK, CoreTypeOK, ClientTypeOK, Ids
  <2>2. \A id \in Ids : id # nextId => method'[id] = method[id]
    BY <1>6 DEF Shell, ShellStart, Start, RestartFires, Started, FailedToStart, FailAllGone,
       ProcessError, FailAll, Finished, Stop, Escalate, RequestSent, CancelRequest, Timeout,
       ProtocolFailure, Retry, ReadLine, Discard, BadLine, pipes, TypeOK, PipesTypeOK
  <2> QED BY <1>3, <2>1, <2>2 DEF TypeOK, CoreTypeOK
<1> QED BY <1>2, <1>4, <1>5, <1>6 DEF Next

-----------------------------------------------------------------------------
(* Theorems *)

IInv == TypeOK /\ LedgerInv /\ FreshInv /\ PlaceInv /\ ControlReserve

LEMMA IInvInit == Init => IInv
<1> SUFFICES ASSUME Init PROVE IInv
  OBVIOUS
<1>1. ControlReserve
  <2>1. active = {} /\ Background = {}
    BY DEF Init, CoreInit, Background
  <2> QED BY <2>1, FS_EmptySet, Assumptions DEF Assumptions, ControlReserve
<1> QED BY <1>1, TypeInit, LedgerInit, PlaceInit DEF IInv

LEMMA IInvStep == IInv /\ [Next]_vars => IInv'
BY TypeStep, LedgerStep, PlaceStep, ReserveStep DEF IInv

LEMMA IInvHolds == Spec => []IInv
BY IInvInit, IInvStep, PTL DEF Spec

\* Every variable of the link stays within its type.
THEOREM TypeCorrect == Spec => []TypeOK
<1>1. IInv => TypeOK
  BY DEF IInv
<1> QED BY <1>1, IInvHolds, PTL

\* A method is never run twice, whatever is refused, retried, killed or restarted.
THEOREM RunOnce == Spec => []AtMostOnce
<1>1. IInv => AtMostOnce
  BY DEF IInv, PlaceInv, AtMostOnce
<1> QED BY <1>1, IInvHolds, PTL

\* Every request is waited for until it ends, and its caller is told exactly then.
THEOREM CallersTold == Spec => []ToldOnce
<1>1. IInv => ToldOnce
  BY DEF IInv, LedgerInv
<1> QED BY <1>1, IInvHolds, PTL

\* A retry never meets an earlier copy of itself at the core's admission.
THEOREM RetryMeetsNoCopy == Spec => []NoDuplicateRefused
<1>1. IInv => NoDuplicateRefused
  <2> SUFFICES ASSUME IInv, toCore # <<>>, Head(toCore).type = "request"
               PROVE  Head(toCore).id \notin active
    BY DEF NoDuplicateRefused
  <2>1. toCore \in Seq(ToCoreLines)
    BY DEF IInv, TypeOK, PipesTypeOK, ToCoreLines
  <2>2. Head(toCore).id \in Ids /\ Head(toCore) = Request(Head(toCore).id)
    BY <2>1, HeadTypes DEF IInv, ToCoreLines, Request
  <2>3. Asked(Head(toCore).id)
    BY <2>1, <2>2, TailIn DEF Asked
  <2> QED BY <2>2, <2>3 DEF IInv, PlaceInv
<1> QED BY <1>1, IInvHolds, PTL

\* The workers are bounded, and background methods leave some to the others.
THEOREM WorkersReserved == Spec => []ControlReserve
<1>1. IInv => ControlReserve
  BY DEF IInv
<1> QED BY <1>1, IInvHolds, PTL

\* Ready is only said of a process that has answered this start's handshake.
THEOREM Greeted == Spec => []ReadyIsGreeted
<1>1. IInv => ReadyIsGreeted
  BY DEF IInv, LedgerInv
<1> QED BY <1>1, IInvHolds, PTL

\* What an end is stays: no step renames a request or ends it again.
LEMMA EndsStay ==
  ASSUME TypeOK, LedgerInv, Next, NEW id \in Ids
  PROVE  /\ method[id] # "none" => method'[id] = method[id]
         /\ got[id] # "none" => got'[id] = got[id]
         /\ method[id] = "none" => got'[id] # "result"
<1>1. /\ NewId => nextId \in Ids /\ method[nextId] = "none" /\ got[nextId] = "none"
      /\ id \in pending <=> (method[id] # "none" /\ got[id] = "none")
      /\ method[id] = "none" => got[id] = "none"
      /\ hello \in Ids \cup {0}
  BY NewIdIsId DEF LedgerInv, ToldOnce, TypeOK, ClientTypeOK
<1>2. CASE UNCHANGED <<method, got>>
  BY <1>1, <1>2
<1>3. CASE Shell
  <2>1. method[id] # "none" => method'[id] = method[id]
    BY <1>1, <1>3 DEF Shell, ShellStart, Start, RestartFires, Started, FailedToStart, FailAllGone,
       ProcessError, FailAll, Finished, Stop, Escalate, RequestSent, CancelRequest, Timeout,
       ProtocolFailure, Retry, ReadLine, Discard, BadLine, pipes, TypeOK, PipesTypeOK
  <2> DEFINE Stays == /\ got[id] # "none" => got'[id] = got[id]
                      /\ method[id] = "none" => got'[id] # "result"
  <2> HIDE DEF Stays
  <2>a. ASSUME UNCHANGED got PROVE Stays
    BY <1>1, <2>a DEF Stays
  <2>b. ASSUME NEW ends, ends \subseteq pending, NEW end, got' = Ended(ends, end) PROVE Stays
    BY <1>1, <2>b DEF Ended, Stays
  <2>c. ASSUME NEW dropped, dropped \subseteq pending, FailAll(dropped) PROVE Stays
    BY <2>b, <2>c DEF FailAll
  <2>d. ASSUME NEW n \in pending, NEW end, Complete(n, end) PROVE Stays
    BY <2>b, <2>d DEF Complete
  <2>e. FailAllGone => Stays
    BY <2>b DEF FailAllGone
  <2>2. ASSUME ShellStart \/ RestartFires \/ Escalate \/ Discard
             \/ \E m \in {"control", "background"} : RequestSent(m)
       PROVE  Stays
    BY <2>2, <2>a DEF ShellStart, RestartFires, Start, Escalate, Discard, RequestSent, client
  <2>3. ASSUME Started PROVE Stays
    <3>1. got'[id] = got[id] \/ (id = nextId /\ got'[id] = "failure")
      BY <2>3 DEF Started, TypeOK, ClientTypeOK
    <3> QED BY <1>1, <2>3, <3>1 DEF Started, Stays
  <2>4. ASSUME FailedToStart \/ Finished
       PROVE  Stays
    BY <2>4, <2>a, <2>e DEF FailedToStart, Finished
  <2>5. ASSUME ProcessError \/ Stop \/ BadLine
       PROVE  Stays
    BY <2>5, <2>a, <2>c DEF ProcessError, Stop, BadLine, ProtocolFailure
  <2>6. ASSUME \E n \in Ids : CancelRequest(n) \/ Timeout(n) \/ Retry(n)
       PROVE  Stays
    BY <2>6, <2>a, <2>c, <2>d DEF CancelRequest, Timeout, Retry, ProtocolFailure
  <2>7. ASSUME ReadLine
       PROVE  Stays
    BY <2>7, <2>a, <2>c, <2>d DEF ReadLine, ProtocolFailure
  <2>8. Stays
    BY <1>3, <2>2, <2>3, <2>4, <2>5, <2>6, <2>7 DEF Shell
  <2> QED BY <2>1, <2>8 DEF Stays
<1>4. CASE Core \/ CoreEof \/ CoreKilled \/ CoreFails
  BY <1>2, <1>4 DEF Core, CoreEof, CoreKilled, CoreFails, CoreGone, client, ReadRequest, ReadCancel,
     Worker, Begin, Finish, Answer, Release, pipes
<1> QED BY <1>3, <1>4 DEF Next

\* A method only begins for a request that was made, has no result, and never ran.
LEMMA BeginsOnce ==
  ASSUME IInv, Next, NEW id \in Ids
  PROVE  \/ executed'[id] = executed[id]
         \/ /\ executed[id] = 0 /\ executed'[id] = 1
            /\ method[id] # "none" /\ got[id] # "result"
            /\ method'[id] = method[id] /\ got'[id] = got[id]
<1>1. CASE UNCHANGED executed
  BY <1>1
<1>2. ASSUME NEW n \in Ids, Begin(n), ~UNCHANGED executed
      PROVE  \/ executed'[id] = executed[id]
             \/ /\ executed[id] = 0 /\ executed'[id] = 1
                /\ method[id] # "none" /\ got[id] # "result"
                /\ method'[id] = method[id] /\ got'[id] = got[id]
  <2>1. /\ stage[n] = "begin" /\ method' = method
        /\ executed' = [executed EXCEPT ![n] = @ + 1]
    BY <1>2 DEF Begin, Moves, pipes
  <2>2. executed[n] = 0 /\ n \in active /\ got[n] # "result"
    BY <2>1 DEF IInv, PlaceInv
  <2>3. method[n] # "none"
    BY <2>2 DEF IInv, FreshInv, LedgerInv, TypeOK, ClientTypeOK, Ids
  <2>4. got' = got
    <3>1. CASE Core \/ CoreEof \/ CoreKilled \/ CoreFails
      BY <3>1 DEF Core, CoreEof, CoreKilled, CoreFails, client
    <3>2. CASE Shell
      BY <1>2, <3>2 DEF Shell, core
    <3> QED BY <3>1, <3>2 DEF Next
  <2>5. executed'[id] = IF id = n THEN executed[id] + 1 ELSE executed[id]
    BY <2>1 DEF IInv, TypeOK, CoreTypeOK
  <2> QED BY <2>1, <2>2, <2>3, <2>4, <2>5
<1>3. CASE Core
  BY <1>1, <1>2, <1>3 DEF Core, ReadRequest, ReadCancel, Worker, Finish, Answer, Release
<1>4. CASE Shell \/ CoreEof \/ CoreKilled \/ CoreFails
  BY <1>1, <1>4 DEF Shell, core, CoreEof, CoreKilled, CoreFails, CoreGone
<1> QED BY <1>3, <1>4 DEF Next

LEMMA LifeGoesOn ==
  ASSUME IInv, IInv', Next, NEW id \in Ids
  PROVE  Caller!Life(id)
<1> DEFINE e == IF method[id] = "none" THEN "unknown"
                ELSE IF got[id] = "none" THEN "open" ELSE got[id]
           r == executed[id] > 0
<1>1. /\ method[id] # "none" => method'[id] = method[id]
      /\ got[id] # "none" => got'[id] = got[id]
      /\ method[id] = "none" => got[id] = "none" /\ got'[id] # "result"
  BY EndsStay DEF IInv, LedgerInv
<1>2. /\ got[id] \in {"none", "result", "failure"} /\ got'[id] \in {"none", "result", "failure"}
      /\ executed[id] \in {0, 1} /\ executed'[id] \in {0, 1}
      /\ method'[id] = "none" => got'[id] = "none"
      /\ got'[id] = "result" => executed'[id] = 1
  BY DEF IInv, TypeOK, ClientTypeOK, CoreTypeOK, PlaceInv, LedgerInv
<1>3. \/ e' = e /\ r' = r
      \/ e = "unknown" /\ e' \in {"open", "failure"} /\ r' = r
      \/ e \in {"open", "failure"} /\ ~r /\ r' /\ e' = e
      \/ e = "open" /\ e' = "failure" /\ r' = r
      \/ e = "open" /\ r /\ e' = "result" /\ r' = r
  <2>1. CASE executed'[id] = executed[id]
    BY <1>1, <1>2, <2>1
  <2>2. CASE /\ executed[id] = 0 /\ executed'[id] = 1
             /\ method[id] # "none" /\ got[id] # "result"
             /\ method'[id] = method[id] /\ got'[id] = got[id]
    BY <1>2, <2>2
  <2> QED BY <2>1, <2>2, BeginsOnce
<1> DEFINE E == [i \in Ids |-> IF method[i] = "none" THEN "unknown"
                               ELSE IF got[i] = "none" THEN "open" ELSE got[i]]
           R == [i \in Ids |-> executed[i] > 0]
<1>4. E[id] = e /\ (E')[id] = e'
  BY Zenon
<1>5. (R[id] = r) /\ ((R')[id] = r')
  BY Zenon
<1> HIDE DEF e, r
<1>7. ASSUME e' = e, r' = r PROVE Caller!Life(id)
  BY <1>4, <1>5, <1>7, Zenon DEF Caller!Life
<1>8. ASSUME e = "unknown", e' \in {"open", "failure"}, r' = r PROVE Caller!Life(id)
  BY <1>4, <1>5, <1>8, Zenon DEF Caller!Life
<1>9. ASSUME e \in {"open", "failure"}, ~r, r', e' = e PROVE Caller!Life(id)
  BY <1>4, <1>5, <1>9, Zenon DEF Caller!Life
<1>10. ASSUME e = "open", e' = "failure", r' = r PROVE Caller!Life(id)
  BY <1>4, <1>5, <1>10, Zenon DEF Caller!Life
<1>11. ASSUME e = "open", r, e' = "result", r' = r PROVE Caller!Life(id)
  BY <1>4, <1>5, <1>11, Zenon DEF Caller!Life
<1> QED BY <1>3, <1>7, <1>8, <1>9, <1>10, <1>11, Zenon

\* The link implements what it promises the caller of each request.
THEOREM PromiseKept == Spec => KeepsPromise
<1>1. Init => Caller!Init
  <2> SUFFICES ASSUME Init PROVE Caller!Init
    OBVIOUS
  <2>1. \A id \in Ids : method[id] = "none" /\ executed[id] = 0
    BY DEF Init, PipesInit, CoreInit
  <2>2. \A id \in Ids : (executed[id] > 0) = FALSE
    BY <2>1, SMT
  <2>3. [id \in Ids |-> executed[id] > 0] = [id \in Ids |-> FALSE]
    BY <2>2, Zenon
  <2>4. [id \in Ids |-> IF method[id] = "none" THEN "unknown"
                        ELSE IF got[id] = "none" THEN "open" ELSE got[id]]
          = [id \in Ids |-> "unknown"]
    BY <2>1
  <2> QED BY <2>3, <2>4, Zenon DEF Caller!Init
<1>2. IInv /\ IInv' /\ [Next]_vars => [Caller!Next]_(Caller!vars)
  <2>1. ASSUME IInv, IInv', Next PROVE Caller!Next
    BY <2>1, LifeGoesOn DEF Caller!Next
  <2>2. ASSUME UNCHANGED vars PROVE UNCHANGED Caller!vars
    BY <2>2 DEF vars, pipes, core, client, Caller!vars
  <2> QED BY <2>1, <2>2
<1> QED BY <1>1, <1>2, IInvHolds, PTL DEF Spec, KeepsPromise, Caller!Spec

=============================================================================
