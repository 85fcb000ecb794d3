--------------------------- MODULE MCSimpleRouter ---------------------------
(***************************************************************************)
(* SimpleRouter with two peers and one manager.                            *)
(***************************************************************************)
EXTENDS SimpleRouter, TLC

CONSTANTS p1, p2, main

MCFdOf == [p \in Peers |-> 3]

Interchangeable == Permutations(Peers)

=============================================================================
