--------------------------- MODULE MCDelayedRetry ---------------------------
(* DelayedRetry for TLC: the constants are plain numbers.                  *)
EXTENDS DelayedRetry
=============================================================================
