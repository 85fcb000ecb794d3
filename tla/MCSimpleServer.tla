--------------------------- MODULE MCSimpleServer ---------------------------
(***************************************************************************)
(* SimpleServer with one or two peers, one or two sets and a manager.      *)
(***************************************************************************)
EXTENDS SimpleServer, TLC

CONSTANTS p1, p2, s1, s2, main

MCFdOf == [p \in Peers |-> 3]

Interchangeable == Permutations(Peers) \cup Permutations(Sets)

=============================================================================
