--------------------------- MODULE RequestPromise ---------------------------
(***************************************************************************)
(* What the link between shell and core promises the caller of one         *)
(* request, whatever is refused, retried, cancelled, timed out, crashed or *)
(* restarted: its method runs at most once, it comes to one end, and a     *)
(* result is the result of a method that ran.                              *)
(***************************************************************************)
EXTENDS Naturals
CONSTANT Ids
VARIABLES
    end,   \* "unknown" id, "open", or how the request ended
    ran    \* whether its method has run

vars == <<end, ran>>

Init ==
    /\ end = [id \in Ids |-> "unknown"]
    /\ ran = [id \in Ids |-> FALSE]

\* One request goes on: it is made, its method runs (even after the caller has
\* been told that it failed, but never a second time), or it comes to its end.
Life(id) ==
    \/ UNCHANGED <<end[id], ran[id]>>
    \/ end[id] = "unknown" /\ end'[id] \in {"open", "failure"} /\ UNCHANGED ran[id]
    \/ end[id] \in {"open", "failure"} /\ ~ran[id] /\ ran'[id] /\ UNCHANGED end[id]
    \/ end[id] = "open" /\ end'[id] = "failure" /\ UNCHANGED ran[id]
    \/ end[id] = "open" /\ ran[id] /\ end'[id] = "result" /\ UNCHANGED ran[id]

\* A failure of the link ends many requests at once.
Next == \A id \in Ids : Life(id)

Spec == Init /\ [][Next]_vars
=============================================================================
