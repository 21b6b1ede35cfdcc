----------------------------- MODULE MCFrontend ------------------------------
(* A small instance of Frontend for TLC. *)
EXTENDS Frontend

CONSTANTS r1, r2, q1, q2, q3

OneQuestion == {<<"confirm">>}
==============================================================================
