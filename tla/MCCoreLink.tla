----------------------------- MODULE MCCoreLink -----------------------------
(* Model-checking instances of CoreLink. *)
EXTENDS CoreLink
=============================================================================
