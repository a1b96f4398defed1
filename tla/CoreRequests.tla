---------------------------- MODULE CoreRequests ----------------------------
(***************************************************************************)
(* The core's side of the link (native/opennow-core/src/main.rs and        *)
(* requests.rs): one reader admits requests and forwards cancellations, one *)
(* worker thread per admitted request runs it and answers.                 *)
(***************************************************************************)
EXTENDS CorePipes, FiniteSets

CONSTANTS
    MaxActive,      \* MAX_ACTIVE, 8 in the code
    MaxBackground   \* MAX_BACKGROUND, 4 in the code
ASSUME AdmissionAssumption ==
    MaxActive \in Nat /\ MaxBackground \in Nat /\ MaxBackground < MaxActive

VARIABLES
    active,     \* ids that hold a Permit
    cancelled,  \* active ids whose Cancellation is set
    stage,      \* where the worker of each active id is
    executed    \* how often each id was dispatched, in any core process

core == <<active, cancelled, stage, executed>>

Stages == {"none", "begin", "running", "sayOk", "sayError", "done"}

Background == {id \in active : method[id] = "background"}

\* Mutated: the bound of the background methods is not kept apart.
Refused_NoReserve(id) ==
    \/ id \in active
    \/ Cardinality(active) >= MaxActive

\* Requests::admit returns None.
Refused(id) ==
    \/ id \in active
    \/ Cardinality(active) >= MaxActive
    \/ method[id] = "background" /\ Cardinality(Background) >= MaxBackground

\* Mutated: a refused request is answered and run all the same.
Admit_RunsRefused(id) ==
    /\ active' = active \cup {id}
    /\ stage' = [stage EXCEPT ![id] = "begin"]
    /\ toShell' = IF Refused(id) THEN Append(toShell, Response(id, "busy")) ELSE toShell

Admit(id) ==
    IF Refused(id)
    THEN /\ toShell' = Append(toShell, Response(id, "busy"))
         /\ UNCHANGED <<active, stage>>
    ELSE /\ active' = active \cup {id}
         /\ stage' = [stage EXCEPT ![id] = "begin"]
         /\ UNCHANGED toShell

ReadRequest ==
    /\ CoreRuns /\ toCore # <<>>
    /\ Head(toCore).type = "request"
    /\ Admit(Head(toCore).id)
    /\ toCore' = Tail(toCore)
    /\ UNCHANGED <<process, method, cancelled, executed>>

\* Requests::cancel only marks an id that is active.
ReadCancel ==
    /\ CoreRuns /\ toCore # <<>>
    /\ Head(toCore).type = "cancel"
    /\ cancelled' = cancelled \cup ({Head(toCore).id} \cap active)
    /\ toCore' = Tail(toCore)
    /\ UNCHANGED <<process, toShell, method, active, stage, executed>>

Moves(id, from, to) ==
    CoreRuns /\ stage[id] = from /\ stage' = [stage EXCEPT ![id] = to]

\* requests::check, then dispatch.
Begin(id) ==
    \/ /\ id \in cancelled
       /\ Moves(id, "begin", "done")
       /\ UNCHANGED <<pipes, active, cancelled, executed>>
    \/ /\ id \notin cancelled
       /\ Moves(id, "begin", "running")
       /\ executed' = [executed EXCEPT ![id] = @ + 1]
       /\ UNCHANGED <<pipes, active, cancelled>>

\* The method ends, and was_cancelled is read before its answer is sent.
Finish(id) ==
    /\ \/ id \in cancelled /\ Moves(id, "running", "done")
       \/ id \notin cancelled /\ \E say \in {"sayOk", "sayError"} : Moves(id, "running", say)
    /\ UNCHANGED <<pipes, active, cancelled, executed>>

Answer(id) ==
    /\ \/ Moves(id, "sayOk", "done") /\ toShell' = Append(toShell, Response(id, "ok"))
       \/ Moves(id, "sayError", "done") /\ toShell' = Append(toShell, Response(id, "error"))
    /\ UNCHANGED <<process, toCore, method, active, cancelled, executed>>

\* Drop of the Permit, after the answer has been sent.
Release(id) ==
    /\ Moves(id, "done", "none")
    /\ active' = active \ {id}
    /\ cancelled' = cancelled \ {id}
    /\ UNCHANGED <<pipes, executed>>

Worker(id) == Begin(id) \/ Finish(id) \/ Answer(id) \/ Release(id)

\* Nothing of a core process outlives it.
CoreGone ==
    /\ active' = {} /\ cancelled' = {}
    /\ stage' = [id \in Ids |-> "none"]
    /\ toCore' = <<>>
    /\ UNCHANGED <<toShell, method, executed>>

CoreTypeOK ==
    /\ active \subseteq Ids
    /\ cancelled \subseteq active
    /\ stage \in [Ids -> Stages]
    /\ executed \in [Ids -> Nat]

CoreInit ==
    /\ active = {} /\ cancelled = {}
    /\ stage = [id \in Ids |-> "none"]
    /\ executed = [id \in Ids |-> 0]
=============================================================================
