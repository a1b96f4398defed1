-------------------------- MODULE SafeReplacement --------------------------
(***************************************************************************)
(* What the updater promises of an installation it exchanges, without its  *)
(* files, processes and failures: the old installation is moved out of the *)
(* way, the new one takes its place, and the old one is either given up,   *)
(* which takes an acknowledgement of the new one, or put back.             *)
(***************************************************************************)
VARIABLES
    installed,    \* what is in place: "old", "new" or "absent"
    backup,       \* the old installation is kept aside, whole
    acknowledged  \* the new installation has reported a healthy start

vars == <<installed, backup, acknowledged>>

Init == installed = "old" /\ backup = FALSE /\ acknowledged = FALSE

SetAside ==
    /\ installed = "old"
    /\ installed' = "absent" /\ backup' = TRUE
    /\ UNCHANGED acknowledged

Install ==
    /\ installed = "absent" /\ backup
    /\ installed' = "new"
    /\ UNCHANGED <<backup, acknowledged>>

Acknowledge ==
    /\ installed = "new"
    /\ acknowledged' = TRUE
    /\ UNCHANGED <<installed, backup>>

Withdraw ==
    /\ installed = "new" /\ backup
    /\ installed' = "absent"
    /\ UNCHANGED <<backup, acknowledged>>

Restore ==
    /\ installed = "absent" /\ backup
    /\ installed' = "old" /\ backup' = FALSE
    /\ UNCHANGED acknowledged

GiveUpOld ==
    /\ installed = "new" /\ acknowledged
    /\ backup' = FALSE
    /\ UNCHANGED <<installed, acknowledged>>

Next == SetAside \/ Install \/ Acknowledge \/ Withdraw \/ Restore \/ GiveUpOld

Spec == Init /\ [][Next]_vars
=============================================================================
