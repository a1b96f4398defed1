----------------------------- MODULE CorePipes -----------------------------
(***************************************************************************)
(* What the Qt shell and the Rust core share: the core process and the two *)
(* pipes between them (docs/core-protocol.md).  A line is one message; the *)
(* pipes keep the order, lose nothing while both ends live, and end with   *)
(* the process.  Payloads, events and diagnostics are left out: a request  *)
(* is its id, and its method only as far as the core's admission asks.     *)
(***************************************************************************)
EXTENDS Naturals, Sequences

CONSTANT MaxRequests   \* bound on the ids one shell hands out
ASSUME MaxRequestsAssumption == MaxRequests \in Nat

VARIABLES
    process,  \* the core process; once it exited or crashed the shell is still told
    toCore,   \* standard input of the core
    toShell,  \* standard output of the core
    method    \* class of each request's method, "none" until it is issued

pipes == <<process, toCore, toShell, method>>

Ids == 1..MaxRequests
Methods == {"hello", "control", "background"}
Codes == {"ok", "error", "busy"}

\* The core computes; QProcess::Running lasts until the shell has been told.
CoreRuns == process \in {"up", "dying"}
QRunning == process \in {"up", "dying", "exited", "crashed"}

Request(id) == [type |-> "request", id |-> id]
Cancel(id)  == [type |-> "cancel", id |-> id]
Response(id, code) == [id |-> id, code |-> code]

PipesTypeOK ==
    /\ process \in {"none", "starting", "up", "dying", "exited", "crashed"}
    /\ toCore \in Seq([type : {"request", "cancel"}, id : Ids])
    /\ toShell \in Seq([id : Ids, code : Codes])
    /\ method \in [Ids -> Methods \cup {"none"}]

PipesInit ==
    /\ process = "none"
    /\ toCore = <<>> /\ toShell = <<>>
    /\ method = [id \in Ids |-> "none"]
=============================================================================
