----------------------------- MODULE MCRecovery -----------------------------
(* Instances of Recovery for TLC; the configurations give the bounds.      *)
EXTENDS Recovery

\* Two disturbances by the server in all, of either kind.
FewDisturbances == events + revoked <= 2
=============================================================================
