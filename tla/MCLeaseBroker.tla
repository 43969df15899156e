--------------------------- MODULE MCLeaseBroker ---------------------------
(* Model values for checking LeaseBroker with TLC. *)
EXTENDS LeaseBroker, TLC

CONSTANT l1

OneLease == {l1}
=============================================================================
