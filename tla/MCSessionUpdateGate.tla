------------------------ MODULE MCSessionUpdateGate ------------------------
(* Model-checking instances of SessionUpdateGate. *)
EXTENDS SessionUpdateGate, TLC
WorkerSymmetry == Permutations(Workers)
=============================================================================
