------------------------------ MODULE MCBridge ------------------------------
(* Model values for checking Bridge with TLC. *)
EXTENDS Bridge, TLC

CONSTANTS r1, r2

OneRun  == {r1}
TwoRuns == {r1, r2}
=============================================================================
