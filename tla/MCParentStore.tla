--------------------------- MODULE MCParentStore ---------------------------
(* Model values for checking ParentStore with TLC. *)
EXTENDS ParentStore, TLC

CONSTANTS c1, c2, k1

TwoClients == {c1, c2}
OneKey     == {k1}
SameKey    == [c \in TwoClients |-> k1]
=============================================================================
