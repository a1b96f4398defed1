-------------------------- MODULE MCManagedInstall --------------------------
\* The instance of ManagedInstall that TLC checks.
EXTENDS ManagedInstall
=============================================================================
