--------------------------- MODULE MCUpdateApply ---------------------------
(* Model-checking instances of UpdateApply. *)
EXTENDS UpdateApply
=============================================================================
