------------------------------- MODULE MCLogin -------------------------------
(* Instances of Login for TLC. *)
EXTENDS Login, TLC

\* request slots are interchangeable; clients are not (V6)
Symmetry == Permutations(Requests)
==============================================================================
