------------------------------ MODULE MCReseed -------------------------------
(* A small instance of Reseed for TLC. *)
EXTENDS Reseed, TLC

CONSTANTS l1, t1, t2, t3, i1, i2, i3, marcus

OneListing == [l \in {l1} |-> 4]

Interchangeable == Permutations(Invocation) \cup Permutations(Token)
==============================================================================
