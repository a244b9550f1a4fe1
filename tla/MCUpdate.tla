------------------------------ MODULE MCUpdate ------------------------------
(* Instances of Update for TLC; the configurations give the constants.     *)
EXTENDS Update

\* A behaviour is followed up to its first late, slow or notifier disturbance:
\* no property says anything of what comes after.
StillInTime == InTime(hit)
=============================================================================
